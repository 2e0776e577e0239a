CONSTANTS
    Byte = {1, 2, 3}
    List = {l1, l2}
    Strings <- MCStrings
    Storage = {1, 2}
    MaxBuffers = 2
SPECIFICATION Spec
INVARIANT FreedWhenDiscarded
PROPERTY ImplementsStrings
