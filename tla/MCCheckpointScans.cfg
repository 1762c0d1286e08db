\* Commands are finite in number: when the last one ends, the system stops.
SPECIFICATION Spec
CONSTANTS
    MaxCommands = 4
    Person = {p1}
    TypedTime = {4}
    DoubleReadingThreshold = 2
CONSTRAINT FewerWhenOverlapped
CHECK_DEADLOCK FALSE
INVARIANTS
    TypeOK
    SerialOneReading
    SerialOutAfterIn
    SerialTypedOutAfterIn
    PassthroughInStep
    StreamReplays
