SPECIFICATION FairSpec
CONSTANTS
    i = i
    j = j
    n = n
    b = b
    c = c
    InstanceIds = {i, j, n}
    BindingIds = {b, c}
    InstanceOf <- MCInstanceOf
    Entry <- MCEntry
    NoId = NoId
    Nil = Nil
    MaxFaults = 2
INVARIANTS
    NothingLost
    BindingsFollowInstances
PROPERTIES
    RunsComplete
