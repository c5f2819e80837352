SPECIFICATION FairSpec
CONSTANTS
    NumServers = 3
    Concurrency = 2
INVARIANTS
    SuccessIsGenuine
    FailureIsExhaustive
    TryUnwrapSucceeds
PROPERTIES
    FirstSuccessWins
    EveryStepIsProgress
    CallEnds
