CONSTANTS
    s1 = s1
    s2 = s2
    s3 = s3
    Servers <- MCServers
    Kind <- MCKind
    ErrChanCapacity = 2

SPECIFICATION Spec
INVARIANT TypeOK
INVARIANT NoSendOnClosedChannel
INVARIANT ShutdownReportsFailures
PROPERTY ShutdownReturns
