SPECIFICATION Spec
CONSTANTS
    Slots = {s1, s2, s3, s4}
    Null = null
    NXids = 2
    TimersSuffice = TRUE
INVARIANTS CountIsLength Listed IndexIsLive AssocMutual
PROPERTY PeerLeavesNothing
CHECK_DEADLOCK FALSE
