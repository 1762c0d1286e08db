\* Requests are finite in number: when the last one ends, the system stops.
SPECIFICATION Spec
CONSTANTS
    Request = {r1, r2, r3}
    Key <- MCKey
    Fold <- MCFold
    InitialStreams <- MCInitialStreams
    InitialClock = 2
SYMMETRY Symmetry
CHECK_DEADLOCK FALSE
INVARIANTS
    TypeOK
    UniqueKeys
    AtMostOneDefault
    NoResurrection
    SerialStreamsReplay
    SerialKeysUnique
PROPERTIES
    DefaultIsKept
