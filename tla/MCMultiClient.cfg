SPECIFICATION SubSpec
CONSTANTS
    Subs = {s1, s2, s3}
    NoSub = NoSub
    MaxCalls = 3
INVARIANTS
    SendDataFindsNobody
PROPERTIES
    FirstConnectIsReported
CHECK_DEADLOCK FALSE
