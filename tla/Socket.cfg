\* Fewer numbers than wrappers, so that numbers are handed out again.
CONSTANTS
    f = f
    s1 = s1
    s2 = s2
    u = u
    l = l
    t = t
    n1 = n1
    n2 = n2
    Handle <- MCHandle
    Class <- MCClass
    PlainKinds <- MCPlainKinds
    Number <- MCNumber
    MaxOpen = 3
SYMMETRY MCSymmetry
VIEW MCView
SPECIFICATION SocketSpec
INVARIANTS Owned NoLeak KindHolds
\* The bound MaxOpen ends every behaviour.
CHECK_DEADLOCK FALSE
