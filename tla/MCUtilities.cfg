CONSTANTS
    Program <- MCProgram
    Script <- Scripts
    CommandLine <- MCCommandLine
    Contradiction <- Contradictions
    LateRefusal <- LateRefusals
    Unlooked <- UnlookedFailures
    MaxDocno <- MCMaxDocno
    Task <- MCTask
    Thread = {1, 2}
    File <- MCFile
    Documents <- MCDocuments
    Matching <- MCMatching
    Analyzer <- MCAnalyzer
    Terms <- MCTerms
    Numeric <- MCNumeric
    JoinName <- MCJoinName
    Query <- MCQuery
    f1 = f1
    f2 = f2
SPECIFICATION UtilitySpec
INVARIANTS
    TypeOK
    RefusedCommandLine
    SuccessIsComplete
    ListingIsComplete
    EachDocumentAnswered
    BlamedForItsOwn
    PrintedUnderOwnHeader
    TokensAscend
    ShownAsWritten
PROPERTIES
    NothingDoneInError
    ProgramEnds
CHECK_DEADLOCK FALSE
