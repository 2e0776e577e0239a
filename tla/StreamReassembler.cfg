CONSTANTS
    Byte <- MCByte
    Stream <- MCStream
    Capacity = 4
SPECIFICATION FairSpec
INVARIANTS
    OutputIsStream
    WithinCapacity
    OnlyGapsWait
    EndExact
    DiscardsOnlyHeld
PROPERTIES
    HeldForever
    WindowKept
    ImplementsDelivery
    EverythingArrives
