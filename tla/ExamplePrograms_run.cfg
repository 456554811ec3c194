\* Both example programs: example1's supervisor keeps handles[] and
\* is_alive[] consistent; example2's read loop frees each cframe once,
\* ends cleanly on an error, and leaves nothing open.
CONSTANTS
    Instances <- MCInstances
    Repeat = 2
    MaxPolls = 2
    MaxAlarms = 2
    MaxHandles <- MCMaxHandles
    MaxReads = 4
    MaxItems = 5
SPECIFICATION Spec
INVARIANTS
    TypeOK
    AliveMeansRunning
    NothingOpenAtExit
    PrintsFirstAndLast
PROPERTY ReadErrorEndsProgram
