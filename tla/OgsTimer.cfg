CONSTANTS
    NTimers = 3
    Users = {u1, u2}
    MaxDuration = 2
    MaxAdds = 1
    Foreign = TRUE
SPECIFICATION TimerFairSpec
INVARIANTS PoolSound CallsTheExpired NeverOversleeps
PROPERTIES CalledBack Expires
