\* Room for two bytes makes a write of three take two or more turns.
CONSTANTS
    Byte = {1, 2, 3, 7, 8, 9}
    Payloads <- MCPayloads
    Reply <- MCReply
    Limits = {0, 1, 4}
    BufferSize = 2
    Room = 2
    Modulus = 8
    MaxCalls = 2
SPECIFICATION FairSpec
INVARIANTS WriteExact ReturnedWhole CountTellsProgress EofIsTheEnd
PROPERTY WriteEnds
\* The program may stop calling, and the peer may have nothing left to do.
CHECK_DEADLOCK FALSE
