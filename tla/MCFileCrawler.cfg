SPECIFICATION Spec
CONSTANTS
    f1 = f1
    f2 = f2
    f3 = f3
    f4 = f4
    f5 = f5
    d1 = d1
    d2 = d2
    d3 = d3
    Worker = {w1, w2, w3}
    File <- MCFile
    Dir <- MCDir
    Path <- MCPath
    FilesIn <- MCFilesIn
    SubDirs <- MCSubDirs
    ChunkSize = 2
INVARIANTS
    TypeOK
    ChunksConserved
    ChunksPartitionFiles
PROPERTIES
    EveryFileProcessed
