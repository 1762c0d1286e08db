------------------------------- MODULE Dashboard -------------------------------
(***************************************************************************)
(* The dashboard of one happening as the server keeps it: DashboardDenor-  *)
(* malizer projects the events of the checkpoints and of the happening to  *)
(* who has visited which checkpoint, and who is expected where.  What the  *)
(* report page loads is this, not the aggregates.                          *)
(***************************************************************************)
EXTENDS Checkpoint

CONSTANTS
    Person,
    TypeOf  \* the types of the checkpoints, in the order of the route

Place == DOMAIN TypeOf

ASSUME TypeOfAssumption == TypeOf \in Seq(CheckpointType)

\* A time is a natural number; null is 0, which the page takes for no time too.
Null == 0

\* DashboardVisit
Visit == [person : Person, in : Nat, out : Nat, quit : BOOLEAN]

NewVisit(p, in, out) == [person |-> p, in |-> in, out |-> out, quit |-> FALSE]

Empty == [visits |-> [c \in Place |-> {}], expected |-> [c \in Place |-> {}]]

VisitsBy(visits, p) == {v \in visits : v.person = p}

HasVisit(visits, p) == VisitsBy(visits, p) # {}

TheVisit(visits, p) == CHOOSE v \in visits : v.person = p

\* visit.TimeIn = timeIn ?? visit.TimeIn
Given(time, old) == IF time = Null THEN old ELSE time

AddOrUpdateVisit(visits, p, in, out) ==
    IF HasVisit(visits, p)
      THEN {IF v.person = p THEN [v EXCEPT !.in = Given(in, @), !.out = Given(out, @)]
                            ELSE v : v \in visits}
      ELSE visits \cup {NewVisit(p, in, out)}

\* An event as it is published: what the aggregate applied, and where.
Published(c, e) == [name |-> e.type, place |-> c, person |-> e.person, time |-> e.time]

ApplyScan(D, e, in, out) ==
    [D EXCEPT !.visits[e.place] = AddOrUpdateVisit(@, e.person, in, out)]

HasNext(c) == c + 1 \in Place

AddExpectedAt(D, p, c) ==
    IF HasNext(c) /\ TypeOf[c + 1] # "Start"
      THEN [D EXCEPT !.expected[c + 1] = @ \cup {p}] ELSE D

RemoveExpectedHere(D, p, c) == [D EXCEPT !.expected[c] = @ \ {p}]

\* Mutant: the expectation at the next checkpoint stays.
KeepExpected(D, p, c) == D

RemoveExpected(D, p, c) == IF HasNext(c) THEN RemoveExpectedHere(D, p, c + 1) ELSE D

\* GetPreviousCheckpoint finds none for the second checkpoint: prevIndex > 0.
HasPrevious(c) == c > 2

ScanInRemoved(D, e) ==
    LET removed == [D EXCEPT !.visits[e.place] = @ \ VisitsBy(@, e.person)]
        before == D.visits[e.place - 1]
    IN  IF /\ HasPrevious(e.place)
           /\ HasVisit(before, e.person)
           /\ TheVisit(before, e.person).out # Null
          THEN AddExpectedAt(removed, e.person, e.place - 1)
          ELSE removed

ScanOutRemoved(D, e) ==
    LET v == TheVisit(D.visits[e.place], e.person)
        left == {[v EXCEPT !.out = Null] : w \in {x \in {v} : x.in # Null}}
    IN  IF HasVisit(D.visits[e.place], e.person)
          THEN RemoveExpected(
                 [D EXCEPT !.visits[e.place] = (@ \ {v}) \cup left], e.person, e.place)
          ELSE D

QuitAt(D, e) ==
    LET v == TheVisit(D.visits[e.place], e.person)
    IN  IF HasVisit(D.visits[e.place], e.person)
          THEN RemoveExpected(
                 [D EXCEPT !.visits[e.place] = (@ \ {v}) \cup {[v EXCEPT !.quit = TRUE]}],
                 e.person, e.place)
          ELSE D

\* When(...): an event without a handler, AttendeeQuitRemoved among them,
\* changes nothing.
Projected(D, e) ==
    CASE e.name = "AttendeeScanIn" ->
           RemoveExpectedHere(ApplyScan(D, e, e.time, Null), e.person, e.place)
      [] e.name = "AttendeeScanOut" ->
           AddExpectedAt(ApplyScan(D, e, Null, e.time), e.person, e.place)
      [] e.name = "AttendeePassthroughScan" ->
           RemoveExpectedHere(
             AddExpectedAt(ApplyScan(D, e, e.time, e.time), e.person, e.place),
             e.person, e.place)
      [] e.name = "AttendeeScanInTimeChanged" -> ApplyScan(D, e, e.time, Null)
      [] e.name = "AttendeeScanOutTimeChanged" -> ApplyScan(D, e, Null, e.time)
      [] e.name = "AttendeePassthroughScanTimeChanged" -> ApplyScan(D, e, e.time, e.time)
      [] e.name = "AttendeeScanInRemoved" -> ScanInRemoved(D, e)
      [] e.name = "AttendeeScanOutRemoved" -> ScanOutRemoved(D, e)
      [] e.name = "AttendeeQuit" -> QuitAt(D, e)
      [] OTHER -> D

\* The events of one operation at c, one after the other.
AllProjected(D, c, events) ==
    LET after[n \in 0 .. Len(events)] ==
          IF n = 0 THEN D ELSE Projected(after[n - 1], Published(c, events[n]))
    IN  after[Len(events)]

=============================================================================
