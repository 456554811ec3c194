\* An alarm after the last poll: the clean-up skips that instance.
CONSTANTS
    Instances <- MCInstances
    Repeat = 2
    MaxPolls = 2
    MaxAlarms = 2
    MaxHandles <- MCMaxHandles
SPECIFICATION Spec
INVARIANTS
    NoHandleLeak
