\* Two storages of up to four documents.
CONSTANTS
    NofStorages = 2
    MaxDocno = 4
    TransactionSizes = {0, 1, 2, 3}
SPECIFICATION CalcSpec
INVARIANT EachDocumentUpdated
