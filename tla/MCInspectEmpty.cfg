CONSTANTS
    MaxDocno <- MCMaxDocno
    Task <- MCTask
SPECIFICATION InspectSpec
INVARIANT EmptyIsPrinted
CHECK_DEADLOCK FALSE
