SPECIFICATION Spec
CONSTANTS
    Sess = {x1}
    Assoc = {"cp"}
    Keeps = FALSE
    N1 = 2
    LongDown = FALSE
    LongFlight = FALSE
    Numbers = {1, 2}
    FaultSets = {{"restart", "est"}, {"restart", "restore"}, {"hb"}, {"setup"}, {"loss"},
                 {"late"}, {"full"}}
    MaxFault = 1
CHECK_DEADLOCK FALSE
INVARIANTS NotForgotten KeepsTrying
PROPERTIES Reassociates Restored
