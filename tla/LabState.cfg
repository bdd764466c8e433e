\* Two power losses: the second can hit what follows the recovery from the
\* first.  Two PINs, so that an old one can come back; two attempts.
CONSTANTS
    Pins = {p, q}
    NoPin = NoPin
    kPinMaxRetries = 2
    MaxResets = 1
    MaxSignCount = 2
    MaxCrashes = 2
    MaxRefused = 1
SPECIFICATION Spec
INVARIANTS
    TypeOK FailuresStayCounted RestartKeepsPin TokenIsOfThisPin ResidentsStayGuarded
    IdsLastUntilReset SignCountsAdvance
