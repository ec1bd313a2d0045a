\* Two workers, three files one by one, two of them with a common error file.
CONSTANTS
    f1 = f1
    f2 = f2
    f3 = f3
    d1 = d1
    e1 = e1
    e2 = e2
    a = a
    b = b
    p = p
    v = v
    w1 = w1
    NofWorkers = 2
    File = {f1, f2, f3}
    Dir = {d1}
    Path <- MCPath
    FilesIn <- MCFilesIn
    SubDirs <- MCSubDirs
    ChunkSize = 1
    ErrorFile <- MCErrorFile
    Tag = {p, v, w1}
    Char = {a, b}
    Inputs <- MCInputs
    Markups <- MCMarkups
    MarkupOptions <- MCOptions
SPECIFICATION Spec
INVARIANTS
    TypeOK
    OnlyTagsAdded
    ReplacedIfSpelled
    OutputOrError
