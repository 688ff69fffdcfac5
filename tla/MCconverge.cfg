SPECIFICATION RepeatSpec
CONSTANTS
    small = small
    big = big
    foreign = foreign
    offering = offering
    other = other
    Instances = {i1}
    Requests = {r1, r2}
    Services = {offering}
    Plans = {small}
    Namespaces = {"default"}
    Default = "default"
    DocNames = {"main"}
    Main = "main"
    Keys = {}
    Values = {}
    ServiceOf <- MCServiceOf
    Docs <- MCDocsMain
    OwnNamespace <- MCNoOwn
    Retains = {}
    Leavable = {small}
    Allowed <- MCAllowedAll
    Adverse = {"apply", "delete", "crash", "hangup", "overlap"}
    Unset = Unset
    NoRecord = NoRecord
    NoObject = NoObject
    NoService = NoService
    NoPlan = NoPlan
    NoNamespace = NoNamespace
PROPERTIES
    RequestsAnswered
    TeardownConverges
