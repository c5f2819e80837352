SPECIFICATION Spec
CONSTANTS
    MaxDests = 3
    Sizes = {1, 3, 4}
    PayloadSize = 1
    MaxSize = 4
    MaxConns = 2
    Byte = 8
    Vals <- MCVals
    Strings <- MCStrings
    Nonces <- MCNonces
INVARIANTS
    BatchesFit
    NobodyIsLeftOut
    ErrorSendsNothing
    SignedForItsSocket
    PrefixedIntIsReadBack
    SignedBytesAreUnambiguous
CHECK_DEADLOCK FALSE
