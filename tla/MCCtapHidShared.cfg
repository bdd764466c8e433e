\* Two processes on the channel that INIT gave to both; nothing is lost.
CONSTANTS
    browser = browser
    tool = tool
    Clients = {browser, tool}
    Cids <- SharedCids
    Requests <- PingRequests
    kBroadcastCid = 15
    kActiveCid = 1
    kMaxCtapMessageSize = 6
    InitData = 2
    ContData = 3
    NonceLen = 1
    ChannelLen = 1
    MaxMessages = 2
    MaxLost = 0
    MaxRefused = 0
SPECIFICATION Spec
INVARIANT DispatchedIsIntact
CHECK_DEADLOCK FALSE
