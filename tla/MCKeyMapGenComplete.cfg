\* The lists of two chunks and the order in which they are merged.
CONSTANTS
    f1 = f1
    f2 = f2
    f3 = f3
    f4 = f4
    File = {f1, f2, f3, f4}
    NofInstances = 2
    Path <- MCPath
    ChunkSize = 2
    Name = {1, 2, 3}
    Terms <- MCTerms
    NofResults = 3
SPECIFICATION KeyMapSpec
INVARIANT AllTermsPrinted
