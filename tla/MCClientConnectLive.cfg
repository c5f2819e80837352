SPECIFICATION FairSpec
CONSTANTS
    MaxConns = 2
    MaxChallenges = 0
    MinInterval = 1
    MaxInterval = 1
PROPERTIES
    DeadSocketIsReplaced
    ReplacedConnectionEnds
CHECK_DEADLOCK FALSE
