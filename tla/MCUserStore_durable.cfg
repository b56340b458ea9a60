\* Registrations at two nodes in one directory, through crashes, failing writes
\* and failing reads.
CONSTANTS
    None = None
    User = {u1, u2}
    Request = {r1, r2, r3}
    Node = {n1, n2}
    Here = n1
    DocumentLength <- MCDocumentLength
    Faults = {"save", "load", "crash"}
    MaxStarts = 4
SPECIFICATION StoreSpec
SYMMETRY Interchangeable
INVARIANTS
    StoreInv
    AcknowledgedIsOnDisk
    NameHasOneOwner
PROPERTIES
    AccountsAreKept
    LoneSaveRepairs
    AccountBookImplemented
\* All requests were answered and nothing is dirty.
CHECK_DEADLOCK FALSE
