\* The page may stop sending: when nothing is queued, nothing happens.
SPECIFICATION Spec
CONSTANTS
    m1 = m1
    m2 = m2
    m3 = m3
    Message = {m1, m3}
    Poison = {}
    Unknown = {m3}
    MaxLoops = 2
    MaxConnections = 2
    MaxFailures = 1
CHECK_DEADLOCK FALSE
INVARIANTS
    TypeOK
    OneCopy
    NoLostCommand
    SavedTookEffect
    RepeatedOnlyInTrouble
    NoLoopWaitsForNothing
PROPERTY JournalSpec
