\* Commands are finite in number: when the last one ends, the system stops.
SPECIFICATION Spec
CONSTANTS
    MaxCommands = 2
    Person = {p1}
    TypedTime = {1, 2}
    DoubleReadingThreshold = 2
CHECK_DEADLOCK FALSE
INVARIANTS
    OutRefusedOnlyBeforeIn
