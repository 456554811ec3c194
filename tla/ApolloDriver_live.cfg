\* The driver with a live sensor and two restarts, and the component over
\* every config with three cframes, a status string and its destruction:
\* the lifecycle invariants of both, destruction terminating,
\* and the driver implementing the SDK session contract. The driver's
\* owner legitimately stops for good after a graceful stop or once its
\* restarts are spent, so deadlock is not an error.
CONSTANTS
    MaxRestarts = 2
    MaxPauses = 1
    Replay = FALSE
    YamlGiven = TRUE
    Levels <- MCLevels
    Codes <- MCCodes
    MaxFrames = 3
    MaxStatus = 1
    Channels <- MCChannels
SPECIFICATION Spec
INVARIANTS
    TypeOK
    NoLeakedHandle
    CallbackOnLiveHandle
    RunStateOfCurrentHandle
    OneMessagePerCpointFrame
    NoCallbackAfterFree
PROPERTIES
    SessionSpec
    DestructionCompletes
CHECK_DEADLOCK FALSE
