SPECIFICATION Spec
CONSTANTS
    small = small
    big = big
    foreign = foreign
    offering = offering
    other = other
    Instances = {i1}
    Requests = {r1}
    Services = {offering}
    Plans = {small, big}
    Namespaces = {"default"}
    Default = "default"
    DocNames = {"main", "aux"}
    Main = "main"
    Keys = {"size"}
    Values = {"v"}
    ServiceOf <- MCServiceOf
    Docs <- MCDocsByPlan
    OwnNamespace <- MCNoOwn
    Retains = {big}
    Leavable = {small, big}
    Allowed <- MCAllowedAll
    Adverse = {}
    Unset = Unset
    NoRecord = NoRecord
    NoObject = NoObject
    NoService = NoService
    NoPlan = NoPlan
    NoNamespace = NoNamespace
INVARIANTS
    NoOrphans
