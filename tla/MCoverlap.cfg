SPECIFICATION Spec
CONSTANTS
    small = small
    big = big
    foreign = foreign
    offering = offering
    other = other
    Instances = {i1}
    Requests = {r1, r2}
    Services = {offering, other}
    Plans = {small, big}
    Namespaces = {"default"}
    Default = "default"
    DocNames = {"main"}
    Main = "main"
    Keys = {"size"}
    Values = {"v"}
    ServiceOf <- MCServiceOf
    Docs <- MCDocsMain
    OwnNamespace <- MCNoOwn
    Retains = {big}
    Leavable = {small}
    Allowed <- MCAllowedSmall
    Adverse = {"getInstance", "listBindings", "apply", "put", "delete", "label", "lostReply", "overlap", "wrongService"}
    Unset = Unset
    NoRecord = NoRecord
    NoObject = NoObject
    NoService = NoService
    NoPlan = NoPlan
    NoNamespace = NoNamespace
INVARIANTS
    TypeOK
    ConfigurationAllowed
SYMMETRY Identical
