SPECIFICATION Spec
CONSTANTS
    long = long
    bad = bad
    torn = torn
    clipped = clipped
    uno = uno
    one = one
    p1 = p1
    p2 = p2
    None = None
    Peers = {p1, p2}
    Files <- MCFiles
    Spools <- MCSpools
    Configs <- MCConfigs
    Modes = {"round_robin", "failover"}
    Batches <- MCBatches
    Whole <- MCWhole
    BadHeader = {bad}
    Window = 2
    ProbingWindow = 1
    AckBuffer = 1
    MaxFiles = 2
    Retries = 0
    FailoverAfter = 1
    FailModes = {"round_robin"}
    MaxFaults = 1
    LateAnswers = FALSE
    BusyReload = TRUE
INVARIANT NothingForgotten
