\* Commands, time and page loads are bounded: when all are used up, the system
\* stops.
SPECIFICATION Spec
CONSTANTS
    Person = {"p1", "n1", "n2"}
    Existing = {"p1"}
    Registration = {"r1", "r2"}
    FirstRow = "r1"
    Unconfirmed = {}
    NewPerson <- MCNewPerson
    Errors <- MCErrors
    Delay = 1
    Lead = 2
    Within = 0
    Others = {"LinkPersonToHappening"}
    FirstTick = 2
    MaxClock = 4
    MaxCommands = 4
    MaxLoads = 1
CONSTRAINT LittleTrouble
CHECK_DEADLOCK FALSE
INVARIANTS
    CreatedFirst
    ListAgrees
    RowsAgree
