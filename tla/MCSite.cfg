\* Addresses, pages and commands are bounded: when all are used up, the page rests.
SPECIFICATION Spec
CONSTANTS
    Current = "h"
    Old <- MCOld
    Key = {"h1", "h2", "h3"}
    Document <- MCDocument
    MaxCommands = 2
    Walker = {"w1", "w2"}
    Address <- MCAddress
    Entry <- MCEntry
    MaxRetries = 3
    MaxOpens = 3
    MaxPages = 2
CONSTRAINT OneThing
CHECK_DEADLOCK FALSE
INVARIANTS
    PageAgrees
    PathIsLine
    AddressShown
    MenuLeads
