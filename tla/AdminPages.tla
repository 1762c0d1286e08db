------------------------------ MODULE AdminPages ------------------------------
(***************************************************************************)
(* An administrator's pages for registrations and for people, beside the   *)
(* server of Attendance and what other administrators do to it.  A person  *)
(* is linked to a registration by two commands that nothing but time keeps *)
(* in order: the link is sent Delay later than the creation and stamped    *)
(* Lead later.  What the pages show is changed at once, and never          *)
(* corrected.  Commands are neither lost nor kept in order, see            *)
(* CommandDelivery.                                                        *)
(***************************************************************************)
EXTENDS Attendance, FiniteSets

CONSTANTS
    FirstRow,    \* the registration that is listed first
    Unconfirmed, \* the registrations without a confirmation
    NewPerson,   \* NewPerson[n][r]: the person that row r would create on load n
    Errors,      \* by how much the server's time may be misjudged on the client
    Delay, Lead, \* 500 ms, 1000 ms
    Within,      \* a command that takes longer to be handled is late
    Others,      \* the kinds of commands that other administrators give
    FirstTick,   \* when it all begins
    MaxClock, MaxCommands, MaxLoads \* bounds

ASSUME PageAssumption ==
    /\ FirstRow \in Registration /\ Unconfirmed \subseteq Registration
    /\ NewPerson \in [1 .. MaxLoads -> [Registration -> Person \ Existing]]
    /\ Errors \subseteq Int /\ Delay \in Nat /\ Lead \in Nat /\ Within \in Nat
    /\ FirstTick \in Nat /\ \A e \in Errors : FirstTick + e > 0
    /\ Others \subseteq {"LinkPersonToHappening", "UnlinkPersonFromHappening", "DeletePerson"}
    /\ MaxClock \in Nat /\ MaxCommands \in Nat /\ MaxLoads \in Nat

\* The server draws a barcode for every registration of every answer; none comes twice.
ASSUME NewPersonAssumption ==
    \A m, n \in 1 .. MaxLoads, r, s \in Registration :
        NewPerson[m][r] = NewPerson[n][s] => m = n /\ r = s

VARIABLES
    clock,    \* the server's, in ticks
    sent,     \* the commands on their way
    later,    \* the links that wait for their timer
    estimate, \* Offset, in so far as it is wrong
    given,    \* how many commands have been given
    page,     \* the registrations page, see RegistrationPage
    loads,    \* how often it was loaded
    people,   \* the people page, see PeoplePage
    news,     \* PersonLinkedToHappening events on their way to the page
    past      \* history: what has happened, see Happened

adminVars == <<clock, sent, later, estimate, given, page, loads, people, news, past>>

vars == <<attendanceVars, adminVars>>

\* late: a command took longer than Within. hasty: the page gave a command about a
\* person while an earlier one was on its way. back: a row was stored before one of another time.
\* refused: a link or an unlink was ignored. fails: a command failed. else: the
\* page was asked for before all commands were handled, or while others had linked two
\* people to one registration, or another administrator has given a command since.
Happened == {"late", "hasty", "back", "refused", "fails", "else"}

\* rows: RegistrationRow.linkedToPerson of the rows shown. newPerson: the person
\* that each would create. available: the array that all rows share. offered: what
\* it was at first, which is what the lists of all rows but the first go on showing.
Closed == [state |-> "closed", rows |-> <<>>, newPerson |-> <<>>,
           available |-> {}, offered |-> {}]

\* shown: the rows of the table, which stay those of the first load. free: who of
\* them could be deleted. bound: the table still shows the array of people.
NotLoaded == [loaded |-> FALSE, shown |-> {}, free |-> {}, bound |-> TRUE]

Init ==
    /\ AttendanceInit
    /\ clock = FirstTick
    /\ sent = {}
    /\ later = {}
    /\ estimate = 0
    /\ given = 0
    /\ page = Closed
    /\ loads = 0
    /\ people = NotLoaded
    /\ news = {}
    /\ past = {}

-----------------------------------------------------------------------------
(* Commands.                                                               *)

\* The client's idea of the server's time: its own clock and Offset.
ServerTime == clock + estimate

\* The date of every answer sets Offset anew, for all pages of the browser.
OffsetHeard == estimate' \in Errors

\* createCommand
Command(kind, p, r) ==
    [kind |-> kind, person |-> p, registration |-> r, at |-> ServerTime,
     since |-> clock]

\* linkCommand.timestamp = AddMs(ServerTime, 1000)
Stamped(c) == [c EXCEPT !.at = @ + Lead]

\* Mutant: the timer is left out.
DueNow(c) == clock

\* setTimeout
Due(c) == clock + Delay

\* A timer may fire late, never early.
SendLater ==
    /\ \E l \in later :
          /\ l.due <= clock
          /\ later' = later \ {l}
          /\ sent' = sent \cup {[l.command EXCEPT !.since = clock]}
    /\ UNCHANGED <<attendanceVars, clock, estimate, given, page, loads, people, news, past>>

-----------------------------------------------------------------------------
(* The registrations page.                                                 *)

\* RegistrationQueryController, LinkPeopleQueryController: asked for side by side,
\* answered one after the other.
LinkedBy(r) == {p \in DOMAIN links : links[p] = r}

\* A RegistrationRow for each registration of the n-th answer
RegistrationRows(n) ==
    [state |-> "asked",
     rows |-> [r \in Registration |->
                 IF LinkedBy(r) = {} THEN NoOne ELSE CHOOSE p \in LinkedBy(r) : TRUE],
     newPerson |-> NewPerson[n],
     available |-> {}, offered |-> {}]

\* A LinkPerson for each person of the other answer
LinkPeople == {p \in DOMAIN links : links[p] = NoOne}

AskRegistrations ==
    /\ page.state = "closed"
    /\ loads < MaxLoads
    /\ loads' = loads + 1
    /\ page' = RegistrationRows(loads')
    /\ UNCHANGED <<attendanceVars, clock, sent, later, estimate, given, people, news>>
    /\ past' = IF sent = {} /\ \A r \in Registration : \A p, q \in LinkedBy(r) : p = q
                 THEN past \ {"else"} ELSE past \cup {"else"}

LoadRegistrations ==
    /\ page.state = "asked"
    /\ page' = [page EXCEPT !.state = "open", !.available = LinkPeople,
                            !.offered = LinkPeople]
    /\ OffsetHeard
    /\ UNCHANGED <<attendanceVars, clock, sent, later, given, loads, people, news, past>>

\* The page is closed or loaded again. What waits for a timer is lost.
Leave ==
    /\ page.state = "open"
    /\ page' = Closed
    /\ people' = NotLoaded
    /\ later' = {}
    /\ news' = {}
    /\ UNCHANGED <<attendanceVars, clock, sent, estimate, given, loads, past>>

Offered(r) == IF r = FirstRow THEN page.available ELSE page.offered

CanLink(r) ==
    /\ page.state = "open" /\ r \in DOMAIN page.rows
    /\ page.rows[r] = NoOne /\ r \notin Unconfirmed

HastyWith(p) ==
    IF \E c \in sent \cup {l.command : l \in later} : c.person = p THEN {"hasty"} ELSE {}

\* Mutant: the row shows the person that it would create.
LinkToShownNew(r, p) ==
    LET c == Stamped(Command("LinkPersonToHappening", p, r))
    IN  /\ later' = later \cup {[command |-> c, due |-> Due(c)]}
        /\ page' = [page EXCEPT !.rows[r] = page.newPerson[r]]
        /\ UNCHANGED <<attendanceVars, clock, estimate, loads, people, news>>

LinkTo(r, p) ==
    LET c == Stamped(Command("LinkPersonToHappening", p, r))
    IN  /\ later' = later \cup {[command |-> c, due |-> Due(c)]}
        /\ page' = [page EXCEPT !.rows[r] = p]
        /\ UNCHANGED <<attendanceVars, clock, estimate, loads, people, news>>

LinkToNewPerson(r) ==
    /\ CanLink(r)
    /\ given + 2 <= MaxCommands
    /\ given' = given + 2
    /\ sent' = sent \cup {Command("CreatePerson", page.newPerson[r], r)}
    /\ LinkTo(r, page.newPerson[r])
    /\ UNCHANGED past

\* The command that overwrites the person's data is left out with the data.
LinkToExistingPerson(r) ==
    /\ CanLink(r)
    /\ given < MaxCommands
    /\ given' = given + 1
    /\ \E p \in Offered(r) : LinkTo(r, p) /\ past' = past \cup HastyWith(p)
    /\ UNCHANGED sent

Unlink(r) ==
    /\ page.state = "open" /\ r \in DOMAIN page.rows
    /\ page.rows[r] # NoOne
    /\ given < MaxCommands
    /\ given' = given + 1
    /\ LET p == page.rows[r]
       IN  /\ sent' = sent \cup {Command("UnlinkPersonFromHappening", p, r)}
           /\ past' = past \cup HastyWith(p)
    /\ page' = [page EXCEPT !.rows[r] = NoOne]
    /\ UNCHANGED <<attendanceVars, clock, later, estimate, loads, people, news>>

\* The command for the registration's own table is of no account here.
Remove(r) ==
    /\ page.state = "open" /\ r \in DOMAIN page.rows
    /\ page.rows[r] = NoOne
    /\ page' = [page EXCEPT !.rows = [s \in DOMAIN page.rows \ {r} |-> page.rows[s]]]
    /\ UNCHANGED <<attendanceVars, clock, sent, later, estimate, given, loads, people, news, past>>

\* The first row takes the person out of the array; the others find nobody to take
\* out and leave their lists as they are. The event may be lost on the way.
Hear ==
    /\ \E p \in news :
          /\ news' = news \ {p}
          /\ page' \in {page, [page EXCEPT !.available = @ \ {p}]}
    /\ UNCHANGED <<attendanceVars, clock, sent, later, estimate, given, loads, people, past>>

-----------------------------------------------------------------------------
(* The people page.                                                        *)

LoadPeople ==
    /\ page.state = "open" /\ ~people.loaded
    /\ people' = [loaded |-> TRUE, shown |-> DOMAIN attended,
                  free |-> {p \in DOMAIN attended : attended[p] = 0}, bound |-> TRUE]
    /\ OffsetHeard
    /\ UNCHANGED <<attendanceVars, clock, sent, later, given, page, loads, news, past>>

\* The array is replaced; the table stays bound to the one before.
RefreshData ==
    /\ people.loaded
    /\ people' = [people EXCEPT !.bound = FALSE]
    /\ OffsetHeard
    /\ UNCHANGED <<attendanceVars, clock, sent, later, given, page, loads, news, past>>

GiveDelete ==
    /\ given < MaxCommands
    /\ given' = given + 1
    /\ \E p \in people.shown \cap people.free :
          /\ sent' = sent \cup {Command("DeletePerson", p, NoOne)}
          /\ people' = IF people.bound
                         THEN [people EXCEPT !.shown = @ \ {p}] ELSE people
    /\ UNCHANGED <<attendanceVars, clock, later, estimate, page, loads, news, past>>

-----------------------------------------------------------------------------
(* The server.                                                             *)

\* Another administrator's page, with a clock that is right.
OthersGive ==
    /\ given < MaxCommands
    /\ given' = given + 1
    /\ \E kind \in Others, p \in DOMAIN links, r \in Registration :
          /\ kind = "UnlinkPersonFromHappening" => links[p] = r
          /\ kind = "LinkPersonToHappening" => links[p] = NoOne
          /\ sent' = sent \cup {[Command(kind, p, r) EXCEPT
                                    !.at = IF kind = "LinkPersonToHappening"
                                             THEN clock - Delay + Lead ELSE clock]}
    /\ past' = past \cup {"else"}
    /\ UNCHANGED <<attendanceVars, clock, later, estimate, page, loads, people, news>>

\* The command fails: its page sends it again.
Fails(c) ==
    \/ c.kind = "CreatePerson" /\ CreateFails(c.person)
    \/ c.kind = "LinkPersonToHappening" /\ LinksToHappening(c.person) /\ LinkThrows(c.person)

Ignores(c) ==
    \/ c.kind = "LinkPersonToHappening" /\ ~LinksToHappening(c.person)
    \/ c.kind = "UnlinkPersonFromHappening" /\ (started \/ ~Unlinks(c.person))

Execute(c) ==
    CASE c.kind = "CreatePerson" -> CreatePerson(c.person, c.at)
      [] c.kind = "LinkPersonToHappening" -> LinkToHappening(c.person, c.registration, c.at)
      [] c.kind = "UnlinkPersonFromHappening" -> UnlinkFromHappening(c.person, clock)
      [] c.kind = "DeletePerson" -> DeletePerson(c.person, clock)

Nothing(c) ==
    \/ c.kind = "CreatePerson" /\ CreateFails(c.person)
    \/ c.kind = "LinkPersonToHappening" /\ ~LinksToHappening(c.person)
    \/ c.kind = "UnlinkPersonFromHappening" /\ started

PastOf(c) ==
    {h \in Happened :
       \/ h = "fails" /\ Fails(c)
       \/ h = "refused" /\ Ignores(c)
       \/ h = "back" /\ \E i \in DOMAIN stream'[c.person] :
                           /\ i \in DOMAIN stream[c.person]
                           /\ stream'[c.person][i] # stream[c.person][i]}

Handle ==
    /\ \E c \in sent :
          /\ sent' = IF Fails(c) THEN sent ELSE sent \ {c}
          /\ \/ ~Nothing(c) /\ Execute(c)
             \/ Nothing(c) /\ UNCHANGED attendanceVars
          /\ news' = IF c.kind = "LinkPersonToHappening" /\ links' # links
                       THEN news \cup {c.person} ELSE news
          /\ past' = past \cup PastOf(c)
    /\ UNCHANGED <<clock, later, estimate, given, page, loads, people>>

\* A command that is under way for too long is late, unless all it does is fail.
Tick ==
    /\ clock < MaxClock
    /\ clock' = clock + 1
    /\ past' = IF \E c \in sent : clock' - c.since > Within /\ ~Fails(c)
                 THEN past \cup {"late"} ELSE past
    /\ UNCHANGED <<attendanceVars, sent, later, estimate, given, page, loads, people, news>>

Start == StartHappening /\ UNCHANGED adminVars

Next ==
    \/ Tick
    \/ SendLater
    \/ AskRegistrations
    \/ LoadRegistrations
    \/ Leave
    \/ \E r \in Registration :
          LinkToNewPerson(r) \/ LinkToExistingPerson(r) \/ Unlink(r) \/ Remove(r)
    \/ Hear
    \/ LoadPeople
    \/ RefreshData
    \/ GiveDelete
    \/ OthersGive
    \/ Handle
    \/ Start

Spec == Init /\ [][Next]_vars

-----------------------------------------------------------------------------
(* Properties.                                                             *)

\* The delay and the lead do what they are for: a person is created before they
\* are linked, both when the commands are handled and when the stream is replayed,
\* unless a command took longer than the delay allows for, or the row was unlinked
\* while the creation was on its way, which is sent without a delay.
CreatedFirst ==
    past \cap {"late", "hasty"} = {} =>
        \A p \in Person : \A i \in DOMAIN stream[p] : stream[p][i].type = "Linked" =>
            /\ p \in DOMAIN links
            /\ \E j \in 1 .. i - 1 : stream[p][j].type = "Created"

\* LinkPeople, which is told event by event, knows what a replay of each stream
\* says, unless a row took a place before one that was there already.
ListAgrees ==
    past \cap {"back", "fails"} = {} =>
        \A p \in Person : Attends(p) = (p \in DOMAIN links /\ links[p] # NoOne)

\* The page shows as links what it hopes for. When all its commands have been
\* handled it is right, as far as only this administrator has been at work and
\* nothing was ignored, given too soon or handled too late.
RowsAgree ==
    page.state = "open" /\ sent = {} /\ later = {} /\ past = {} =>
        \A r \in DOMAIN page.rows :
            LinkedBy(r) = IF page.rows[r] = NoOne THEN {} ELSE {page.rows[r]}

=============================================================================
