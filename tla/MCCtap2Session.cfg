\* Two relying parties, so that a stale index can point at the other one's
\* record; three ids in three slots, so that a chain has a middle and a
\* removal shifts two records.  A record starts at count 1 and can advance once,
\* which is enough for a repeated count to show; one reset is enough for an old stateless id.
CONSTANTS
    Rps = {rp1, rp2}
    NoRp = NoRp
    kMaxCredentials = 3
    MaxIds = 3
    MaxCounter = 2
    MaxWipes = 1
    MaxAllowList = 2
    HashLen = 2
    TextSize = 4
    UserHandleSize = 2
    kMaxAllowListEntries = 2
    kMaxCtapMessageSize = 1024
SPECIFICATION Spec
SYMMETRY Symmetry
INVARIANTS TypeOK CounterAdvances RemovedNeverSigns NextAnswersTheRest RequestsAreUnderstood AnswersAreCanonical
