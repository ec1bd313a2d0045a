CONSTANTS
    f1 = f1
    f2 = f2
    f3 = f3
    f4 = f4
    c1 = c1
    c2 = c2
    File = {f1, f2, f3, f4}
    NofInstances = 2
    Path <- MCPath
    ChunkSize = 2
    Name = {1, 2, 3}
    Terms <- MCTerms
    NofResults = 3
    Content = {c1, c2}
    Tags <- MCTags
    Start = 0
    Markups = {"count", "map"}
    NofStorages = 2
    MaxDocno = 4
    TransactionSizes = {0, 1, 2, 3}
SPECIFICATION BatchSpec
INVARIANTS
    TypeOK
    KeyMapTypeOK
    CalcTypeOK
    CountsAreUnique
    MapsAreConsistent
    OccurrencesConserved
    UpdatedInOrder
PROPERTY CalcEnds
