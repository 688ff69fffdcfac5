SPECIFICATION FairSpec
CONSTANTS
    Instances = {i1}
    Bindings = {b1}
    Requests = {r1, r2}
    Services = {projecting}
    Namespaces = {default, space}
    Default = default
    Creds = {c1}
    NoCreds = NoCreds
    Projecting = {projecting}
    Adverse <- WithOverlap
    NoInstance = NoInstance
    NoBinding = NoBinding
    NoSecret = NoSecret
    NoSource = NoSource
    NotIssued = NotIssued
INVARIANTS
    AnsweredBindStands
    StraysAreDoomed
PROPERTIES
    UnbindLeavesNothing
    SecretsCollected
    ProjectedDieWithInstance
