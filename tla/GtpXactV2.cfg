SPECIFICATION Spec
CONSTANTS
    Callers = {"a", "b"}
    Xids = {1}
    Version = 2
    N3 = 2
    NHolding = 1
    MaxDefer = 0
    MaxExec = 2
INVARIANTS Coherent Attended RetransmissionReady
PROPERTY Implements
CHECK_DEADLOCK FALSE
