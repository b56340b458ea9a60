\* One write fails in a process that stays up.
CONSTANTS
    None = None
    User = {u1, u2}
    Request = {r1}
    Node = {n1}
    Here = n1
    DocumentLength <- MCDocumentLength
    Faults = {"save"}
    MaxStarts = 1
SPECIFICATION FairStoreSpec
PROPERTIES
    AutoSaveCatches
\* All requests were answered and nothing is dirty.
CHECK_DEADLOCK FALSE
