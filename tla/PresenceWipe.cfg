\* A confirming hold of three ticks, so that two short presses do not add up to
\* one; the other times as in Presence.cfg.
CONSTANTS
    kUserPresenceTimeout = 4
    kResetHold = 2
    kAdminOpenHold = 1
    kAdminConfirmHold = 3
    kAdminConfirmTimeout = 3
    Longest = 5
    MaxRequests = 1
SPECIFICATION Spec
INVARIANT WipeIsHeld
