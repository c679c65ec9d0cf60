\* One eNB on one socket object, every queue with room.
CONSTANTS
    Socks = {k1}
    Peers = {e1}
    None = None
    FaultSets = {{}}
    CrMax = 1
    MaxAccepts = 1
    MaxSends = 0
    MaxTold = 1
SPECIFICATION Spec
PROPERTY LastOwnerLetGo
CHECK_DEADLOCK FALSE
