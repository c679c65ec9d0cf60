\* One eNB that connects again and again on two socket objects.
CONSTANTS
    Socks = {k1, k2}
    Peers = {e1}
    None = None
    FaultSets = {{}, {"flood"}, {"race"}, {"rxFull"}, {"ioFull"}, {"detach"}}
    CrMax = 2
    MaxAccepts = 3
    MaxSends = 1
    MaxTold = 1
SPECIFICATION Spec
\* The properties say nothing of what follows a late COMM_UP.
CONSTRAINT Timely
INVARIANTS DestroyedOnce
PROPERTIES OwnersLetGo Reclaimed LossNoticed
\* The bound on associations is reached and everything is at rest.
CHECK_DEADLOCK FALSE
