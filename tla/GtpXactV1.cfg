SPECIFICATION FairSpec
CONSTANTS
    Callers = {"a"}
    Xids = {1}
    Version = 1
    N3 = 2
    NHolding = 2
    MaxDefer = 1
    MaxExec = 2
PROPERTIES DuplicateIsAnswered Resolved Reclaimed
CHECK_DEADLOCK FALSE
