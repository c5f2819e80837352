SPECIFICATION Spec
CONSTANTS
    MaxConns = 2
    MaxChallenges = 1
    MinInterval = 2
    MaxInterval = 3
INVARIANTS
    UnwrapsFindSome
    NodeMatchesSocket
    CloseStopsDialing
    RequestsFailAfterTheEnd
CHECK_DEADLOCK FALSE
