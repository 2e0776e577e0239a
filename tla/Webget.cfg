\* A request longer than the room for it, a reply longer than a read returns.
CONSTANTS
    Byte = {1, 2, 3, 4, 5, 6, 7, 8}
    Payloads <- MCPayloads
    Request <- MCRequest
    Reply <- MCReply
    Limits = {4}
    BufferSize = 2
    Room = 3
    Modulus = 8
    MaxCalls = 7
SPECIFICATION FairGetSpec
INVARIANT PrintsEverything
PROPERTY Ends
