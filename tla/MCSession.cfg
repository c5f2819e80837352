SPECIFICATION Spec
CONSTANTS
    MaxSeq = 5
    Packets <- MCPackets
    WriteSizes = {1, 2, 3}
    LocalIds = 1
    InitWindow = 4
    InitMtu = 3
    BufferLen = 2
    MaxBytes = 4
INVARIANTS
    TypeOK
    WindowIsRespected
PROPERTIES
    HandshakeIsFinal
    AcksRemoveNothing
CHECK_DEADLOCK FALSE
