SPECIFICATION FairSpec
CONSTANTS
    NoCert = NoCert
    SystemRoots = SystemRoots
    Nothing = Nothing
    Environments <- MCEnvironments
    Kinds <- MCKinds
    Conns = {c1}
    g1 = g1
    g2 = g2
    Generations = {g1, g2}
    MaxWrites = 3
INVARIANTS
    AnyMethodIsEnough
    PairServed
PROPERTIES
    RotationServed
    StopsClean
