\* Payloads up to and over the limit, a header of two bytes.
CONSTANTS
    None = None
    HeaderSize = 2
    MaxPayloadSize = 2
    LengthModulus = 8
    Size = {0, 1, 2, 3}
SPECIFICATION FairWireSpec
INVARIANTS
    WireInv
    FailedForCause
PROPERTIES
    CallImplemented
    CallEnds
    HandlerEnds
\* The call ends.
CHECK_DEADLOCK FALSE
