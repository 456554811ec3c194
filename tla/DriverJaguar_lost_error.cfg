\* A critical alarm must lead the supervisor to stop the handle; a later
\* benign alarm overwrites is_running_ = -1 with 1 before the supervisor
\* wakes (message_callback_s_ else branch).
CONSTANTS
    MaxRestarts = 1
    MaxPauses = 1
    Replay = FALSE
    YamlGiven = TRUE
    Levels <- MCLevels
    Codes <- MCCodes
SPECIFICATION Spec
PROPERTY ErrorLeadsToStop
CHECK_DEADLOCK FALSE
