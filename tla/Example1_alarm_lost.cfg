\* Expected to be violated: see PROJECT.json.
CONSTANTS
    Instances <- MCInstances
    Repeat = 2
    MaxPolls = 2
    MaxAlarms = 2
    MaxHandles <- MCMaxHandles
SPECIFICATION Spec
INVARIANTS
    AlarmNotLost
