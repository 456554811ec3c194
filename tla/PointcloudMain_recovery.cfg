\* TCP: a mismatched cframe ends the connection.
CONSTANTS
    FrameSet <- MCFrames
    MaxFrames = 2
    MaxConns = 2
    Datagrams <- MCDatagrams
    MaxDatagrams = 1
    BufCap = 10
    InitTokens = {0}
SPECIFICATION Spec
INVARIANT FramingErrorRecoverable
