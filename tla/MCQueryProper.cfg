CONSTANTS
    Analyzer <- MCAnalyzer
    Terms <- MCTerms
    Numeric <- MCNumeric
    JoinName <- MCJoinName
    Query <- MCRestricted
SPECIFICATION LoaderSpec
INVARIANT ProperIsShown
CHECK_DEADLOCK FALSE
