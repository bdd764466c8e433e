\* Two relying parties, so that a shifted index can point at the other one's
\* record; three slots and five ids: a list has a middle, a removal moves two
\* records, and new ones take the place of those removed.
CONSTANTS
    Rps = {rp1, rp2}
    kMaxCredentials = 3
    MaxIds = 5
SPECIFICATION Spec
INVARIANTS TypeOK EnumerationsComplete NeverTwice
