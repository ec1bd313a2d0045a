SPECIFICATION Spec
CONSTANTS
    f1 = f1
    f2 = f2
    f3 = f3
    Worker = {w1, w2}
    File <- MCFile
    Path <- MCPath
    NofDocs <- MCNofDocs
    ChunkSize = 2
    TransactionSizes = {0, 2}
INVARIANTS
    TypeOK
    DocumentInOnePlace
    HonestExit
PROPERTIES
    KeepsPromise
    ProgramEnds
