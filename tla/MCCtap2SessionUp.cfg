\* The constants of MCCtap2Session.cfg; one claim of the documentation.
CONSTANTS
    Rps = {rp1, rp2}
    NoRp = NoRp
    kMaxCredentials = 3
    MaxIds = 3
    MaxCounter = 2
    MaxWipes = 1
    MaxAllowList = 2
    HashLen = 2
    TextSize = 4
    UserHandleSize = 2
    kMaxAllowListEntries = 2
    kMaxCtapMessageSize = 1024
SPECIFICATION Spec
SYMMETRY Symmetry
INVARIANT NextWasPressedFor
