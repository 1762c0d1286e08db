\* Commands are finite in number: when the last one ends, the system stops.
SPECIFICATION FairSpec
CONSTANTS
    Person = {p1}
    TypeOf <- MCTypeOf
    MaxCommands = 3
    MaxFailures = 1
    DoubleReadingThreshold = 1
CHECK_DEADLOCK FALSE
INVARIANTS
    ScannedAfterStart
    SerialQuitOrCompleted
    SerialCompletedAtFinish
    NoCompletionLost
PROPERTIES
    EventuallyStarted
