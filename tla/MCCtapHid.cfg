\* Two processes with two messages each, all interleavings of their packets,
\* messages given up half-way, two packets lost anywhere, and one answer that
\* the host does not take to its end.
CONSTANTS
    browser = browser
    tool = tool
    Clients = {browser, tool}
    Cids <- OwnCids
    Requests <- AllRequests
    kBroadcastCid = 15
    kActiveCid = 1
    kMaxCtapMessageSize = 6
    InitData = 2
    ContData = 3
    NonceLen = 1
    ChannelLen = 1
    MaxMessages = 2
    MaxLost = 2
    MaxRefused = 1
SPECIFICATION Spec
INVARIANTS TypeOK DispatchedIsIntact BytesStayInPlace NoSilence EchoIsExact
\* The processes may have nothing more to send.
CHECK_DEADLOCK FALSE
