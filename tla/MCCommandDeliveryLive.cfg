\* The page may stop sending: when nothing is queued, nothing happens.
SPECIFICATION FairSpec
CONSTANTS
    m1 = m1
    m2 = m2
    m3 = m3
    Message = {m1, m2}
    Poison = {m2}
    Unknown = {}
    MaxLoops = 1
    MaxConnections = 2
    MaxFailures = 2
VIEW NoHistory
CHECK_DEADLOCK FALSE
PROPERTIES
    EventuallyHandled
    EventuallyForgotten
