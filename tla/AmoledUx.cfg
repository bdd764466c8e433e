CONSTANTS
    kUserPresenceTimeout = 4
    kResetHold = 2
    kAdminOpenHold = 1
    kAdminConfirmHold = 2
    kAdminConfirmTimeout = 3
    Longest = 5
    MaxRequests = 3
    DiagnosticTime = 1
    SuccessTime = 1
    ErrorTime = 2
SPECIFICATION FairUxSpec
INVARIANTS UxTypeOK ResetHoldIsFull WipeTakesTwoHolds WipeIsHeldUnlessBlocked CancelIsNotLeftOver ScreenTellsTheHold
PROPERTIES WaitsEnd AdminScreenCloses
