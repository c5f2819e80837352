SPECIFICATION Spec
CONSTANTS
    Deltas = {1}
    Balances = {1, 9}
    MinFlush = 2
    Duration = 1
    VerifyResults = {"yes", "no", "todo"}
    MaxPayments = 3
    MaxHeight = 3
    MaxCalls = 5
INVARIANTS
    AmountIsWhatWasClaimed
    LossIsBounded
    PanicNeedsTwoFlushes
PROPERTIES
    CloseEndsTheTask
CHECK_DEADLOCK FALSE
