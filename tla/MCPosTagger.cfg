\* Two workers, three files one by one, three parts put together at most.
CONSTANTS
    f1 = f1
    f2 = f2
    f3 = f3
    d1 = d1
    d2 = d2
    n1 = n1
    n2 = n2
    NofWorkers = 2
    File = {f1, f2, f3}
    Dir = {d1, d2}
    Path <- MCPath
    FilesIn <- MCFilesIn
    SubDirs <- MCSubDirs
    ChunkSize = 1
    NofElements <- MCElements
    BaseName <- MCBaseName
    Outputs = {"beside", "dir", "stdout"}
    MaxParts = 3
SPECIFICATION Spec
INVARIANTS
    TypeOK
    LoadedAsWritten
    TaggedByItsOwn
    AllAccountedFor
