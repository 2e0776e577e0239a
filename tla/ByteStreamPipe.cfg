CONSTANTS
    Byte = {b0, b1}
    Capacity = 2
    MaxWrite = 3
    MaxRead = 3
    MaxTotal = 4
SPECIFICATION FairPipeSpec
INVARIANTS
    Fifo
    Accounting
    PeekStable
PROPERTIES
    EndIsFinal
    EndReachesReader
