CONSTANTS
    HeaderLen = 2
    MaxDataLength = 2
    Lengths = {0, 1, 2, 3}
    MaxSent = 4
    MaxErrors = 1
SPECIFICATION FairSpec
INVARIANT Intact
PROPERTIES AllReceived ImplementsStream
CHECK_DEADLOCK FALSE
