CONSTANTS
    Byte <- MCByte
    Stream <- MCStream
    Capacity = 3
SPECIFICATION EofSpec
INVARIANT AnnouncedEndIsSeen
