\* TCP: a socket left open by a failed connect.
CONSTANTS
    FrameSet <- MCFrames
    MaxFrames = 1
    MaxConns = 2
    Datagrams <- MCDatagrams
    MaxDatagrams = 1
    BufCap = 10
    InitTokens = {0}
SPECIFICATION Spec
INVARIANT NoSocketLeak
