\* Both readers: TCP reassembly, framing checks and session termination;
\* UDP datagrams, honest and malformed, three per run.
CONSTANTS
    FrameSet <- MCFrames
    MaxFrames = 2
    MaxConns = 2
    Datagrams <- MCDatagrams
    MaxDatagrams = 3
    BufCap = 10
    InitTokens = {0}
SPECIFICATION Spec
INVARIANTS
    TypeOK
    AcceptedAreSent
    AcceptsExactlyWellFormed
PROPERTIES
    SessionTerminates
