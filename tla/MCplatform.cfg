SPECIFICATION FairSpec
CONSTANTS
    small = small
    large = large
    Keys = {"size", "mode"}
    Texts = {"1", "3", "word"}
    Quantity <- MCQuantity
    Number <- MCNumber
    Versions = {"v1", "v2"}
    DefaultReadinessTimeout = 2
    None = None
    Unreadable = Unreadable
    Malformed = Malformed
    Definitions <- MCDefinitions
    NoCR = NoCR
    NoRecord = NoRecord
    Inputs <- MCInputs
    MaxAge = 3
    Adverse = {"readFails", "removed"}
INVARIANTS
    RecordConforms
    CatalogPromisesKept
PROPERTIES
    PollingEnds
