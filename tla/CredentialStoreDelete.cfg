\* One power loss and no refused write are enough to undo a deletion.
CONSTANTS
    CredIds = {a, b}
    Users = {u}
    NoRecord = NoRecord
    kMaxCredentials = 2
    MaxCounter = 1
    MaxCrashes = 1
    MaxFailures = 0
SPECIFICATION Spec
INVARIANT DeletedStaysDeleted
