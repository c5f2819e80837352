SPECIFICATION Spec
CONSTANTS
    MaxConns = 1
    MaxChallenges = 0
    MinInterval = 1
    MaxInterval = 1
INVARIANTS
    NodeLockIsSound
CHECK_DEADLOCK FALSE
