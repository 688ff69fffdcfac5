SPECIFICATION Spec
CONSTANTS
    small = small
    big = big
    foreign = foreign
    offering = offering
    other = other
    Instances = {i1}
    Requests = {r1}
    Services = {offering, other}
    Plans = {small, big, foreign}
    Namespaces = {"default"}
    Default = "default"
    DocNames = {"main", "aux"}
    Main = "main"
    Keys = {"size", "mode"}
    Values = {"v"}
    ServiceOf <- MCServiceOf
    Docs <- MCDocsBoth
    OwnNamespace <- MCNoOwn
    Retains = {big}
    Leavable = {small}
    Allowed <- MCAllowedAll
    Adverse = {"namespace", "apply", "put", "forget", "delete", "crash", "hangup"}
    Unset = Unset
    NoRecord = NoRecord
    NoObject = NoObject
    NoService = NoService
    NoPlan = NoPlan
    NoNamespace = NoNamespace
PROPERTIES
    AcceptedMeansConfigured
    GoneMeansForgotten
    FailedDeprovisionIsRepeatable
    ForgottenMeansTornDown
    RetainedDataSurvives
    OnlyDeprovisionDestroys
    PlanLeftOnlyIfLeavable
    PatchKeepsOtherKeys
    BoundInstancesStay
