\* UDP: the two crafted datagrams; the second is read with the first's
\* stale length fields and an unsigned wrap of len - point_offset.
CONSTANTS
    FrameSet <- MCFrames
    MaxFrames = 1
    MaxConns = 2
    Datagrams <- MCHostile
    MaxDatagrams = 2
    BufCap = 10
    InitTokens = {0}
SPECIFICATION Spec
INVARIANT AcceptsExactlyWellFormed
