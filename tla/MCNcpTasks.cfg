SPECIFICATION Spec
CONSTANTS
    MaxSeq = 4
    NumConns = 2
    Windows = {0, 2}
    MaxAckList = 2
    DataIds = {1, 2}
    MaxAcks = 2
INVARIANTS
    OnlyFlushGetsTheSession
    TxFindsData
    AcksNeedAClosedWindow
PROPERTIES
    AcksMoveToTheList
CHECK_DEADLOCK FALSE
