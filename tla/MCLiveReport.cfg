\* Commands are finite in number: when the last one ends, the system stops.
SPECIFICATION Spec
CONSTANTS
    Person = {p1}
    TypeOf <- MCTypeOf
    OthersKinds = {"StartScan", "Scan", "Quit"}
    Minute = 3
    MaxCommands = 5
    MaxLosses = 1
    DoubleReadingThreshold = 1
CONSTRAINT FewWait
CHECK_DEADLOCK FALSE
INVARIANTS
    ReloadShowsTheSame
    TopicStuckOnlyBy
    ExpectedHasLeft
