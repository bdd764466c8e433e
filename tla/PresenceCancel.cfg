\* One command and one CANCEL; the times of Presence.cfg.
CONSTANTS
    kUserPresenceTimeout = 4
    kResetHold = 2
    kAdminOpenHold = 1
    kAdminConfirmHold = 2
    kAdminConfirmTimeout = 3
    Longest = 5
    MaxRequests = 2
SPECIFICATION Spec
INVARIANT CancelStopsTheWait
