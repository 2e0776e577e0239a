\* As in SegmentLink.cfg.
CONSTANTS
    Base = 64
    Self = Self
    Other = Other
    NoDatagram = NoDatagram
    Address <- MCAddress
    MaxDatagram = 25
    MTUs = {20, 64}
    MaxReceived = 2
    Headers <- MCHeaders
    Payloads <- MCPayloads
    Foreign <- MCForeign
    Pseudos <- MCPseudos
    Damages = {63}
    ISN = 16777214
    MaxSent = 2
SPECIFICATION Spec
INVARIANT ShortHeaderRefused
\* The bound MaxSent ends every behaviour.
CHECK_DEADLOCK FALSE
