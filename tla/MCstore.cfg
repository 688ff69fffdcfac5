SPECIFICATION FairSpec
CONSTANTS
    a = a
    b = b
    nameOfA = nameOfA
    nameOfB = nameOfB
    Clients = {c1, c2}
    Ids = {a, b}
    Values = {v1, v2}
    NoValue = NoValue
    NoJob = NoJob
    Names = {nameOfA, nameOfB}
    NameOf <- MCNameOf
    Notes = {note}
    NoNote = NoNote
    NoObject = NoObject
    MaxTries = 2
    Adverse = {"callFails", "lostReply", "crash", "annotate"}
INVARIANTS
    TypeOK
PROPERTIES
    KeepsContract
    NotesKept
    CallsReturn
