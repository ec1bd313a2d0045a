SPECIFICATION Spec
CONSTANTS
    f1 = f1
    f2 = f2
    f3 = f3
    f4 = f4
    f5 = f5
    d1 = d1
    d2 = d2
    d3 = d3
    Worker = {w1}
    File <- MCFile
    Dir <- MCDir
    Path <- MCPathDir
    FilesIn <- MCFilesIn
    SubDirs <- MCSubDirs
    ChunkSize = 0
INVARIANTS
    NobodyStopsEarly
