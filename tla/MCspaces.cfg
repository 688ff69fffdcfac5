SPECIFICATION Spec
CONSTANTS
    small = small
    big = big
    foreign = foreign
    offering = offering
    other = other
    Instances = {i1}
    Requests = {r1}
    Services = {offering}
    Plans = {small, big}
    Namespaces = {"default", "space"}
    Default = "default"
    DocNames = {"main", "aux"}
    Main = "main"
    Keys = {"size"}
    Values = {"v"}
    ServiceOf <- MCServiceOf
    Docs <- MCDocsBoth
    OwnNamespace <- MCAuxOwn
    Retains = {big}
    Leavable = {small}
    Allowed <- MCAllowedAll
    Adverse = {"namespace", "apply", "put", "forget", "listBindings"}
    Unset = Unset
    NoRecord = NoRecord
    NoObject = NoObject
    NoService = NoService
    NoPlan = NoPlan
    NoNamespace = NoNamespace
INVARIANTS
    NoOrphans
    RefsInNamespace
