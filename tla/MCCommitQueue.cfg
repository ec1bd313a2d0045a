SPECIFICATION Spec
CONSTANTS
    Worker = {w1, w2, w3}
    Transaction = {t1, t2, t3}
    NoTransaction = NoTransaction
INVARIANTS
    TypeOK
    NobodyLeavesWorkBehind
    SettledOnce
PROPERTIES
    PushCompletes
CHECK_DEADLOCK FALSE
