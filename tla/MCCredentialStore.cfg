\* Three slots and four ids: a deletion of the first moves two records, and a
\* full store can be filled again.  Two power losses: the second can hit the
\* recovery from the first.  Two refused writes: the second can be the remove
\* that would have taken away what the first left.
CONSTANTS
    CredIds = {a, b, c, d}
    Users = {u}
    NoRecord = NoRecord
    kMaxCredentials = 3
    MaxCounter = 2
    MaxCrashes = 2
    MaxFailures = 2
SYMMETRY IdSymmetry
SPECIFICATION Spec
INVARIANTS TypeOK LiveIsStored IdleIsDense CrashSafeOutsideMove
PROPERTIES IsMap StepsRunOut
