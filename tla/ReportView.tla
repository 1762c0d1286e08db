------------------------------ MODULE ReportView ------------------------------
(***************************************************************************)
(* The report page's own copy of the dashboard: made once from the data of *)
(* the server, then kept up to date by the events that the server sends.   *)
(* ReportViewModel, with the Checkpoint, Visit, Quitter, Expected and      *)
(* Attendee objects it is made of, as operators on a view                  *)
(* [visits, waitingFor, hasQuit]; LiveReport runs them.                    *)
(***************************************************************************)
EXTENDS Dashboard, Integers, FiniteSets

\* Date.parse(undefined): no number, and as false as 0 is.
NaN == -1

IsTime(t) == t > 0

\* Visit. held: it is the quitVisit of an Attendee, whose walking time and kilometres are
\* computed anew whenever its quit changes.
PageVisit(p, in, out, quit, held) ==
    [person |-> p, in |-> in, out |-> out, quit |-> quit, held |-> held]

\* new Visit: a time that is not given is 0.
Parsed(t) == IF IsTime(t) THEN t ELSE 0

\* A view is [visits, waitingFor, hasQuit]; visits[c] and waitingFor[c] are what the
\* Checkpoint c has, hasQuit is those Attendees that say so.
Blanked == [visits |-> [c \in Place |-> {}], waitingFor |-> [c \in Place |-> {}],
            hasQuit |-> {}]

QuitPlaces(visits, p) == {c \in Place : \E v \in visits[c] : v.person = p /\ v.quit}

\* Attendee: the last of a person's visits with a quit becomes its quitVisit.
IsQuitVisit(visits, c, p) ==
    c \in QuitPlaces(visits, p) /\ \A d \in QuitPlaces(visits, p) : d <= c

MapVisits(visits, c) ==
    {PageVisit(v.person, Parsed(v.in), Parsed(v.out), v.quit, IsQuitVisit(visits, c, v.person)) :
        v \in visits[c]}

\* A map from people to times becomes a list of people.
MapWaitingFor(expected, c) == {p \in Person : p \in expected[c]}

\* Found out once, since "this information never changes".
HasQuit(visits) == {p \in Person : QuitPlaces(visits, p) # {}}

\* dataInit.
DataInit(D) ==
    [visits     |-> [c \in Place |-> MapVisits(D.visits, c)],
     waitingFor |-> [c \in Place |-> MapWaitingFor(D.expected, c)],
     hasQuit    |-> HasQuit(D.visits)]

-----------------------------------------------------------------------------
(* Events from the server.                                                 *)

\* An event of a change of time carries newTime and no scanTimestamp. (The
\* handler copies newTime to ScanTimestamp, which nobody reads.)
ScanTimestamp(e) ==
    IF e.name \in {"AttendeeScanInTimeChanged", "AttendeeScanOutTimeChanged",
                   "AttendeePassthroughScanTimeChanged"} THEN NaN ELSE e.time

ScanType(e) ==
    CASE e.name \in {"AttendeeScanIn", "AttendeeScanInTimeChanged"} -> "in"
      [] e.name \in {"AttendeeScanOut", "AttendeeScanOutTimeChanged"} -> "out"
      [] e.name \in {"AttendeePassthroughScan",
                     "AttendeePassthroughScanTimeChanged"} -> "passthrough"
      [] e.name = "AttendeeQuit" -> "quit"
      [] OTHER -> "none"

RemovedType(e) ==
    CASE e.name = "AttendeeScanInRemoved" -> "in"
      [] e.name = "AttendeeScanOutRemoved" -> "out"
      [] e.name = "AttendeeQuitRemoved" -> "quit"
      [] OTHER -> "none"

IsApplied(e) == ScanType(e) # "none" \/ RemovedType(e) # "none"

\* Mutant: a reading gives a new visit both times.
NewPassedVisit(e) ==
    LET t == Parsed(ScanTimestamp(e))
    IN  PageVisit(e.person, t, t, FALSE, FALSE)

NewPageVisit(e) ==
    LET t == Parsed(ScanTimestamp(e))
    IN  PageVisit(e.person, IF ScanType(e) = "out" THEN 0 ELSE t,
                  IF ScanType(e) \in {"out", "passthrough"} THEN t ELSE 0, FALSE, FALSE)

\* Mutant: a visit that is there is changed by a quit only.
VisitKept(v, e) == IF ScanType(e) = "quit" THEN [v EXCEPT !.quit = TRUE] ELSE v

\* A passthrough changes no visit that is there.
VisitApplied(v, e) ==
    CASE ScanType(e) = "in"   -> [v EXCEPT !.in = ScanTimestamp(e)]
      [] ScanType(e) = "out"  -> [v EXCEPT !.out = ScanTimestamp(e)]
      [] ScanType(e) = "quit" -> [v EXCEPT !.quit = TRUE]
      [] OTHER                -> v

ApplyScanFromServer(V, e) ==
    IF HasVisit(V.visits[e.place], e.person)
      THEN [V EXCEPT !.visits[e.place] =
              {IF v.person = e.person THEN VisitApplied(v, e) ELSE v : v \in @}]
      ELSE [V EXCEPT !.visits[e.place] = @ \cup {NewPageVisit(e)},
                     !.waitingFor[e.place] = @ \ {e.person}]

\* What is left of a visit: a quit taken back leaves it, and so does an out
\* reading removed if there is an in reading that is a time.
VisitLeft(v, e) ==
    CASE RemovedType(e) = "quit" -> {[v EXCEPT !.quit = FALSE]}
      [] RemovedType(e) = "out" /\ IsTime(v.in) -> {[v EXCEPT !.out = 0]}
      [] OTHER -> {}

ApplyRemoveScanFromServer(V, e) ==
    [V EXCEPT !.visits[e.place] =
       UNION {IF v.person = e.person THEN VisitLeft(v, e) ELSE {v} : v \in @}]

ViewApplied(V, e) ==
    CASE ScanType(e) # "none"    -> ApplyScanFromServer(V, e)
      [] RemovedType(e) # "none" -> ApplyRemoveScanFromServer(V, e)
      [] OTHER                   -> V

\* Mutant: a quit throws as well, when it is heard of once more.
AttendeeThrowsOnQuit(V, e) ==
    /\ RemovedType(e) = "quit" \/ ScanType(e) = "quit"
    /\ \E v \in V.visits[e.place] : v.person = e.person /\ v.held

\* A visit without its quit makes the kilometres of the Attendee that holds it
\* throw: quitVisit.quit() is null.
AttendeeThrows(V, e) ==
    /\ RemovedType(e) = "quit"
    /\ \E v \in V.visits[e.place] : v.person = e.person /\ v.held

-----------------------------------------------------------------------------
(* What the page shows.                                                    *)

IsFinish(c) == TypeOf[c] = "Finish"

Inside(V, c) ==
    IF IsFinish(c) THEN 0
    ELSE Cardinality({v \in V.visits[c] : ~IsTime(v.out) /\ ~v.quit})

Duration(v) ==
    CASE v.in = 0 \/ v.out = 0 -> 0
      [] IsTime(v.in) /\ IsTime(v.out) ->
           IF v.out > v.in THEN v.out - v.in ELSE v.in - v.out
      [] OTHER -> NaN

\* A row of the list of a checkpoint, and its heading without the numbers of
\* those who have quit and who are waited for.
ShownRow(v) == [person |-> v.person, in |-> v.in, out |-> v.out, duration |-> Duration(v)]

Shown(V, c) == [rows |-> {ShownRow(v) : v \in V.visits[c]}, inside |-> Inside(V, c)]

-----------------------------------------------------------------------------
(* checkpointForScanRequest: where is a person scanned next?               *)

VisitedPlaces(V, p) == {c \in Place : HasVisit(V.visits[c], p)}

LastVisited(V, p) ==
    CHOOSE c \in VisitedPlaces(V, p) : \A d \in VisitedPlaces(V, p) : d <= c

CanInfer(V, p) == VisitedPlaces(V, p) # {}

NoPlace == 0

InferredPlace(V, p) ==
    LET c == LastVisited(V, p)
    IN  CASE ~IsTime(TheVisit(V.visits[c], p).out) -> c
          [] IsTime(TheVisit(V.visits[c], p).out) /\ HasNext(c) -> c + 1
          [] OTHER -> NoPlace

=============================================================================
