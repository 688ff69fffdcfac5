SPECIFICATION Spec
CONSTANTS
    Instances = {i1, i2}
    Bindings = {b1}
    Requests = {r1}
    Services = {projecting, plain}
    Namespaces = {default, space}
    Default = default
    Creds = {c1}
    NoCreds = NoCreds
    Projecting = {projecting}
    Adverse <- WriteFaults
    NoInstance = NoInstance
    NoBinding = NoBinding
    NoSecret = NoSecret
    NoSource = NoSource
    NotIssued = NotIssued
INVARIANTS
    TypeOK
PROPERTIES
    RepeatAnswersSame
    OneInstancePerBinding
