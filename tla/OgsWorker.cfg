SPECIFICATION FairSpec
CONSTANTS
    Producers = {self, p1}
    Self = self
    Events = {e1, e2}
    Capacity = 2
    MaxEvents = 3
INVARIANTS InOrder NeverSleepsOnWork
PROPERTIES EventuallyDispatched PushReturns StopsWhenTold
CHECK_DEADLOCK FALSE
