---------------------------- MODULE ScanPage_proofs ----------------------------
(***************************************************************************)
(* Theorems about the report page, its server and the page that scans, for *)
(* any checkpoints, people, codes and bounds: what stops a page from       *)
(* hearing anything, whom the dashboard expects, what a reload of the page *)
(* would show, what becomes of the keys that are typed, and when a page    *)
(* that scans knows as much as the server.  ScanPage has the variables and *)
(* the steps of LiveReport, so that the first part is about both.          *)
(*                                                                         *)
(* The second needs to know what the aggregates know: an expectation is    *)
(* taken back by events that find the visit they are about, and the        *)
(* dashboard finds it because its visits are the readings of the           *)
(* checkpoints (OutIsRead).                                                *)
(*                                                                         *)
(* For the third the dashboard and the page are cut into cells, what each  *)
(* knows of one person at one checkpoint.  An event changes one cell of    *)
(* the dashboard and one of the page, by the same function.  The events    *)
(* on their way lead each cell of the page to the one of the dashboard     *)
(* (Leads); those that are on their way before the answer leave the cells  *)
(* of the answer as they are (Settles), because what an event writes is    *)
(* what the dashboard has written already.  That the events find what      *)
(* they need follows from what the aggregates know (CellInv).              *)
(***************************************************************************)
EXTENDS ScanPage, Checkpoint_proofs


\* A command as the server gets it: nobody is read at no time.
AnyCommand ==
    [kind : OthersKinds \cup {"StartScan", "Scan", "Unknown", "In", "Out", "Quit", "RemoveQuit",
                              "RemoveScan"},
     person : Person, place : Place, at : Nat, time : Nat \ {0}]

DashboardState ==
    [visits : [Place -> SUBSET Visit], expected : [Place -> SUBSET Person]]

ViewVisit == [person : Person, in : Int, out : Int, quit : BOOLEAN, held : BOOLEAN]

ViewState ==
    [visits : [Place -> SUBSET ViewVisit], waitingFor : [Place -> SUBSET Person],
     hasQuit : SUBSET Person]

\* The names of what the server sends, the acknowledgement of a command (ScanPage) included.
ServerEventName == EventType \cup {"AttendeeQuit", "AttendeeQuitRemoved", "ack"}

ServerEvent == [name : ServerEventName, place : Place, person : Person, time : Nat]

TypeInv ==
    /\ now \in Nat
    /\ \A c \in sent : c \in AnyCommand
    /\ readings \in [Place -> State(Person)]
    /\ dashboard \in DashboardState
    /\ data \in DashboardState
    /\ view \in ViewState
    /\ wire \in Seq(ServerEvent)

OneEach(visits) == \A v, w \in visits : v.person = w.person => v = w

\* Nobody has two visits at a checkpoint.
OneVisit(D) == \A c \in Place : OneEach(D.visits[c])

\* Whom the dashboard shows to have left has a reading out.
OutIsRead(D, R) ==
    \A c \in Place : TypeOf[c] # "Passthrough" =>
        \A v \in D.visits[c] : v.out # Null => IsRead(R[c].out, v.person)

HasLeft(D) ==
    \A c \in Place : \A p \in D.expected[c] :
        /\ c - 1 \in Place
        /\ \/ TypeOf[c - 1] = "Passthrough"
           \/ \E v \in D.visits[c - 1] : v.person = p /\ v.out # Null

DashboardInv(D, R) == OneVisit(D) /\ OutIsRead(D, R) /\ HasLeft(D)

\* The dashboard agrees with the readings of the checkpoints.
ServerInv == DashboardInv(dashboard, readings)

\* An event that takes a quit back is on its way only after a quit was taken back.
QuitBackOnWire ==
    \A i \in DOMAIN wire : wire[i].name = "AttendeeQuitRemoved" => "quitBack" \in past

\* The inductive invariant for whom the dashboard expects.
IInv == TypeInv /\ ServerInv

\* The inductive invariant for what stops the topic.
TopicInv == QuitBackOnWire /\ TopicStuckOnlyBy

-----------------------------------------------------------------------------
(* Events one after the other.                                             *)

\* A recursion that leaves things as they are but for one step, or for none.
LEMMA OneStep ==
    ASSUME NEW N \in Nat, NEW f, NEW E, \A n \in 1 .. N : n \in E => f[n] = f[n - 1]
    PROVE  /\ (\A n \in 1 .. N : n \in E) => f[N] = f[0]
           /\ \A m \in 1 .. N : (\A n \in 1 .. N : n # m => n \in E) =>
                 f[N] = f[m] /\ f[m - 1] = f[0]
<1>1. ASSUME NEW l \in 0 .. N, NEW m \in l .. N, \A n \in l + 1 .. m : n \in E
      PROVE  f[m] = f[l]
  <2>. DEFINE S == {n \in 0 .. m : n < l \/ f[n] = f[l]}
  <2>1. m \in Nat /\ 0 \in S
    OBVIOUS
  <2>2. ASSUME NEW n \in 0 .. m, n \in S, n < m
        PROVE  n + 1 \in S
    <3>1. CASE n + 1 < l
      BY <2>2, <3>1
    <3>2. CASE n + 1 = l
      BY <2>2, <3>2
    <3>3. CASE l <= n
      <4>1. n + 1 \in l + 1 .. m /\ n + 1 \in 1 .. N /\ (n + 1) - 1 = n
        BY <2>2, <3>3
      <4>2. f[n + 1] = f[n] /\ f[n] = f[l]
        BY <1>1, <2>2, <3>3, <4>1
      <4>. QED  BY <2>2, <4>2
    <3>. QED  BY <2>2, <3>1, <3>2, <3>3
  <2>. HIDE DEF S
  <2>3. \A n \in 0 .. m : n \in S
    BY <2>1, <2>2, UpTo
  <2>4. m \in S
    BY <2>1, <2>3
  <2>. QED  BY <2>4 DEF S
<1>2. ASSUME \A n \in 1 .. N : n \in E PROVE f[N] = f[0]
  <2>1. 0 \in 0 .. N /\ N \in 0 .. N /\ \A n \in 0 + 1 .. N : n \in E
    BY <1>2
  <2>. QED  BY <1>1, <2>1
<1>3. ASSUME NEW m \in 1 .. N, \A n \in 1 .. N : n # m => n \in E
      PROVE  f[N] = f[m] /\ f[m - 1] = f[0]
  <2>. DEFINE l == m - 1
  <2>1. /\ 0 \in 0 .. N /\ l \in 0 .. N /\ N \in m .. N /\ m \in 0 .. N
        /\ \A n \in 0 + 1 .. l : n \in E
        /\ \A n \in m + 1 .. N : n \in E
    BY <1>3
  <2>. HIDE DEF l
  <2>2. f[l] = f[0]
    BY <1>1, <2>1
  <2>3. f[N] = f[m]
    BY <1>1, <2>1
  <2>. QED  BY <2>2, <2>3 DEF l
<1>. QED  BY <1>2, <1>3

\* A change of time leaves readings, even if there is none to change.
LEMMA ChangedIsReadings ==
    ASSUME NEW P, NEW list \in Seq(Reading(P)), NEW e \in EventRow(P)
    PROVE  Changed(list, e) \in Seq(Reading(P))
<1>. DEFINE k == FirstIndex(list, e.person)
            row == [list[k] EXCEPT !.at = e.time, !.shown = e.time]
<1>. HIDE DEF k
<1>1. Changed(list, e) = [list EXCEPT ![k] = row]
  BY DEF Changed, k
<1>2. CASE k \in DOMAIN list
  <2>1. k \in 1 .. Len(list)
    BY <1>2
  <2>2. list[k] \in Reading(P) /\ e.time \in Nat
    BY <2>1 DEF EventRow
  <2>3. row \in Reading(P)
    BY <2>2 DEF Reading
  <2>. HIDE DEF row
  <2>. QED  BY <1>1, <2>1, <2>3, ExceptSeq
<1>3. CASE k \notin DOMAIN list
  <2>1. list = [i \in DOMAIN list |-> list[i]]
    OBVIOUS
  <2>2. [list EXCEPT ![k] = row] = [i \in DOMAIN list |-> list[i]]
    <3>. HIDE DEF row
    <3>. QED  BY ONLY <1>3
  <2>. QED  BY <1>1, <2>1, <2>2
<1>. QED  BY <1>2, <1>3

\* A row makes readings of readings, even if its replay would throw.
LEMMA AppliedIsState ==
    ASSUME NEW P, NEW S \in State(P), NEW e \in EventRow(P)
    PROVE  Applied(S, e) \in State(P)
<1>. DEFINE T == Seq(Reading(P))
<1>1. S.in \in T /\ S.out \in T
  BY DEF State
<1>2. NewReading(e) \in Reading(P)
  BY DEF NewReading, EventRow, Reading
<1>3. ASSUME NEW list \in T
      PROVE  /\ Append(list, NewReading(e)) \in T
             /\ Removed(list, e.person) \in T
             /\ Changed(list, e) \in T
  BY <1>2, RemovedPicks, ChangedIsReadings
<1>. HIDE DEF T
<1>4. Applied(S, e).in \in T
  BY <1>1, <1>3 DEF Applied
<1>5. Applied(S, e).out \in T
  BY <1>1, <1>3 DEF Applied
<1>. QED  BY <1>4, <1>5 DEF Applied, State, T
\* What the events of an operation make of the readings.
AppliesTo(new, S, events) ==
    /\ NoneDoes(events) => new = S
    /\ \A e : OnlyDoes(events, e) => new = Applied(S, e)
    /\ Len(events) = 2 => new = Applied(Applied(S, events[1]), events[2])

\* Events that a replay does nothing with leave the readings.
LEMMA AppliesOneByOne ==
    ASSUME NEW P, NEW S \in State(P), NEW events \in Seq(EventRow(P))
    PROVE  AllApplied(S, events) \in State(P) /\ AppliesTo(AllApplied(S, events), S, events)
<1>. DEFINE N == Len(events)
            T == State(P)
            step == [n \in 1 .. N |-> [x \in T |-> Applied(x, events[n])]]
            Eq(f) == f = [n \in 0 .. N |-> IF n = 0 THEN S ELSE Applied(f[n - 1], events[n])]
<1>1. N \in Nat /\ \A n \in 1 .. N : events[n] \in EventRow(P)
  OBVIOUS
<1>2. step \in [1 .. N -> [T -> T]]
  <2>1. \A n \in 1 .. N, x \in T : Applied(x, events[n]) \in T
    BY <1>1, AppliedIsState
  <2>. HIDE DEF T, N
  <2>. QED  BY <2>1
<1>3. PICK f : Recurs(f, N, T, S, step)
  <2>. HIDE DEF step, T, N
  <2>. QED  BY <1>1, <1>2, Recursion DEF T
<1>4. \A n \in 1 .. N, x \in T : step[n][x] = Applied(x, events[n])
  <2>. HIDE DEF T, N
  <2>. QED  OBVIOUS
<1>. HIDE DEF step
<1>5. Eq(f)
  <2>1. f \in [0 .. N -> T] /\ f[0] = S
    BY <1>3 DEF Recurs
  <2>2. ASSUME NEW n \in 1 .. N PROVE f[n] = Applied(f[n - 1], events[n])
    <3>1. f[n] = step[n][f[n - 1]] /\ f[n - 1] \in T
      BY <1>1, <1>3, <2>1 DEF Recurs
    <3>. QED  BY <1>4, <3>1
  <2>3. \A n \in 0 .. N : n = 0 \/ n \in 1 .. N
    BY <1>1
  <2>. HIDE DEF N, T
  <2>. QED  BY <2>1, <2>2, <2>3
<1>. DEFINE after == CHOOSE g : Eq(g)
<1>6. Eq(after)
  <2>. HIDE DEF Eq
  <2>. QED  BY <1>5
<1>7. AllApplied(S, events) = after[N]
  BY DEF AllApplied
<1>. HIDE DEF after
<1>8. after[0] = S /\ \A n \in 1 .. N : after[n] = Applied(after[n - 1], events[n])
  <2>. HIDE DEF N
  <2>1. 0 \in 0 .. N /\ \A n \in 1 .. N : n \in 0 .. N /\ n # 0
    BY <1>1
  <2>. QED  BY <1>6, <2>1
<1>9. \A n \in 0 .. N : after[n] \in T
  <2>. DEFINE W == {n \in 0 .. N : after[n] \in T}
  <2>1. 0 \in W
    BY <1>1, <1>8
  <2>2. ASSUME NEW n \in 0 .. N, n \in W, n < N
        PROVE  n + 1 \in W
    <3>1. n + 1 \in 1 .. N /\ (n + 1) - 1 = n /\ after[n] \in T
      BY <1>1, <2>2
    <3>. QED  BY <1>1, <1>8, <3>1, AppliedIsState
  <2>. HIDE DEF W
  <2>3. \A n \in 0 .. N : n \in W
    BY <1>1, <2>1, <2>2, UpTo
  <2>. QED  BY <2>3 DEF W
<1>. DEFINE E == {n \in 1 .. N : ChangesNothing(events[n])}
<1>10. \A n \in 1 .. N : n \in E => after[n] = after[n - 1]
  <2>. SUFFICES ASSUME NEW n \in 1 .. N, ChangesNothing(events[n]) PROVE after[n] = after[n - 1]
    OBVIOUS
  <2>1. after[n - 1] \in T
    BY <1>1, <1>9
  <2>. QED  BY <1>8, <2>1 DEF ChangesNothing, Applied, State
<1>11. /\ (\A n \in 1 .. N : n \in E) => after[N] = after[0]
       /\ \A m \in 1 .. N : (\A n \in 1 .. N : n # m => n \in E) =>
             after[N] = after[m] /\ after[m - 1] = after[0]
  <2>. HIDE DEF E, N
  <2>. QED  BY <1>1, <1>10, OneStep
<1>12. NoneDoes(events) => after[N] = S
  BY <1>8, <1>11 DEF NoneDoes
<1>13. ASSUME NEW e, OnlyDoes(events, e) PROVE after[N] = Applied(S, e)
  <2>1. PICK m \in 1 .. N : events[m] = e /\ \A n \in 1 .. N : n # m => ChangesNothing(events[n])
    BY <1>13 DEF OnlyDoes
  <2>. QED  BY <1>8, <1>11, <2>1
<1>14. N = 2 => after[N] = Applied(Applied(S, events[1]), events[2])
  <2>. HIDE DEF N
  <2>. QED  BY <1>8
<1>15. N \in 0 .. N
  BY <1>1
<1>. QED  BY <1>7, <1>9, <1>12, <1>13, <1>14, <1>15 DEF AppliesTo

-----------------------------------------------------------------------------
(* The dashboard.                                                          *)

\* A state whose visits and expectations are changed at one place.
LEMMA ChangedAt ==
    ASSUME NEW D \in DashboardState, NEW c \in Place
    PROVE  /\ D.visits[c] \in SUBSET Visit /\ D.expected[c] \in SUBSET Person
           /\ \A V \in SUBSET Visit :
                 /\ [D EXCEPT !.visits[c] = V] \in DashboardState
                 /\ [D EXCEPT !.visits[c] = V].expected = D.expected
                 /\ [D EXCEPT !.visits[c] = V].visits = [D.visits EXCEPT ![c] = V]
           /\ \A X \in SUBSET Person :
                 /\ [D EXCEPT !.expected[c] = X] \in DashboardState
                 /\ [D EXCEPT !.expected[c] = X].visits = D.visits
                 /\ [D EXCEPT !.expected[c] = X].expected = [D.expected EXCEPT ![c] = X]
<1>. HIDE DEF Place, Visit
<1>1. /\ D = [visits |-> D.visits, expected |-> D.expected]
      /\ D.visits \in [Place -> SUBSET Visit] /\ D.expected \in [Place -> SUBSET Person]
  BY DEF DashboardState
<1>2. ASSUME NEW V \in SUBSET Visit
      PROVE  /\ [D EXCEPT !.visits[c] = V] = [visits |-> [D.visits EXCEPT ![c] = V],
                                              expected |-> D.expected]
             /\ [D.visits EXCEPT ![c] = V] \in [Place -> SUBSET Visit]
  BY <1>1
<1>3. ASSUME NEW X \in SUBSET Person
      PROVE  /\ [D EXCEPT !.expected[c] = X] = [visits |-> D.visits,
                                                expected |-> [D.expected EXCEPT ![c] = X]]
             /\ [D.expected EXCEPT ![c] = X] \in [Place -> SUBSET Person]
  BY <1>1
<1>. QED  BY <1>1, <1>2, <1>3 DEF DashboardState

\* A visit is updated or there is a new one.
LEMMA VisitsUpdated ==
    ASSUME NEW visits \in SUBSET Visit, NEW p \in Person, NEW in \in Nat, NEW out \in Nat
    PROVE  AddOrUpdateVisit(visits, p, in, out) \in SUBSET Visit
<1>1. NewVisit(p, in, out) \in Visit
  BY DEF NewVisit, Visit
<1>2. ASSUME NEW v \in visits
      PROVE  [v EXCEPT !.in = Given(in, @), !.out = Given(out, @)] \in Visit
  BY DEF Visit, Given, Null
<1>. QED  BY <1>1, <1>2 DEF AddOrUpdateVisit

\* The visit of somebody who has one.
LEMMA TheVisitIs ==
    ASSUME NEW visits, NEW p, HasVisit(visits, p)
    PROVE  TheVisit(visits, p) \in visits /\ TheVisit(visits, p).person = p
<1>1. \E v \in visits : v.person = p
  BY DEF HasVisit, VisitsBy
<1>. QED  BY <1>1 DEF TheVisit

\* Somebody is expected at the next checkpoint.
LEMMA AddExpectedIs ==
    ASSUME NEW D \in DashboardState, NEW p \in Person, NEW c \in Place
    PROVE  LET E == AddExpectedAt(D, p, c)
           IN  /\ E \in DashboardState /\ E.visits = D.visits
               /\ \A d \in Place : \A q \in E.expected[d] :
                     q \in D.expected[d] \/ (q = p /\ d = c + 1)
<1>. DEFINE E == AddExpectedAt(D, p, c)
            X == D.expected[c + 1] \cup {p}
            F == [D EXCEPT !.expected[c + 1] = X]
<1>1. CASE HasNext(c) /\ TypeOf[c + 1] # "Start"
  <2>1. c + 1 \in Place
    BY <1>1 DEF HasNext
  <2>2. D.expected[c + 1] \in SUBSET Person
    <3>. DEFINE b == c + 1
    <3>. HIDE DEF b
    <3>1. b \in Place
      BY <2>1 DEF b
    <3>2. D.expected[b] \in SUBSET Person
      BY <3>1, ChangedAt
    <3>. QED  BY <3>2 DEF b
  <2>3. X \in SUBSET Person
    BY <2>2
  <2>4. E = F
    BY <1>1 DEF AddExpectedAt
  <2>5. F \in DashboardState /\ F.visits = D.visits /\ F.expected = [D.expected EXCEPT ![c + 1] = X]
    <3>. DEFINE b == c + 1
    <3>. HIDE DEF X, b
    <3>1. b \in Place
      BY <2>1 DEF b
    <3>2. LET G == [D EXCEPT !.expected[b] = X]
          IN  G \in DashboardState /\ G.visits = D.visits /\ G.expected = [D.expected EXCEPT ![b] = X]
      BY <2>3, <3>1, ChangedAt
    <3>. QED  BY <3>2 DEF b
  <2>6. \A d \in Place : F.expected[d] = IF d = c + 1 THEN X ELSE D.expected[d]
    <3>. HIDE DEF X, F
    <3>. QED  BY <2>5 DEF DashboardState
  <2>. HIDE DEF E, F
  <2>. QED  BY <2>4, <2>5, <2>6 DEF E
<1>2. CASE ~(HasNext(c) /\ TypeOf[c + 1] # "Start")
  BY <1>2 DEF AddExpectedAt
<1>. QED  BY <1>1, <1>2

\* Somebody is not expected here any more.
LEMMA RemoveHereIs ==
    ASSUME NEW D \in DashboardState, NEW p \in Person, NEW c \in Place
    PROVE  LET E == RemoveExpectedHere(D, p, c)
           IN  /\ E \in DashboardState /\ E.visits = D.visits
               /\ \A d \in Place : \A q \in E.expected[d] :
                     q \in D.expected[d] /\ ~(q = p /\ d = c)
<1>. DEFINE E == RemoveExpectedHere(D, p, c)
            X == D.expected[c] \ {p}
            F == [D EXCEPT !.expected[c] = X]
<1>1. X \in SUBSET Person /\ E = F
  BY ChangedAt DEF RemoveExpectedHere
<1>2. F \in DashboardState /\ F.visits = D.visits /\ F.expected = [D.expected EXCEPT ![c] = X]
  <2>. HIDE DEF X
  <2>. QED  BY <1>1, ChangedAt
<1>3. \A d \in Place : F.expected[d] = IF d = c THEN X ELSE D.expected[d]
  <2>. HIDE DEF X, F
  <2>. QED  BY <1>2 DEF DashboardState
<1>. HIDE DEF E, F
<1>. QED  BY <1>1, <1>2, <1>3 DEF E

\* Somebody is not expected at the next checkpoint any more.
LEMMA RemoveNextIs ==
    ASSUME NEW D \in DashboardState, NEW p \in Person, NEW c \in Place
    PROVE  LET E == RemoveExpected(D, p, c)
           IN  /\ E \in DashboardState /\ E.visits = D.visits
               /\ \A d \in Place : \A q \in E.expected[d] :
                     q \in D.expected[d] /\ ~(q = p /\ d = c + 1)
<1>1. ASSUME HasNext(c)
      PROVE  LET E == RemoveExpected(D, p, c)
             IN  /\ E \in DashboardState /\ E.visits = D.visits
                 /\ \A d \in Place : \A q \in E.expected[d] :
                       q \in D.expected[d] /\ ~(q = p /\ d = c + 1)
  <2>. DEFINE b == c + 1
  <2>1. b \in Place /\ RemoveExpected(D, p, c) = RemoveExpectedHere(D, p, b)
    BY <1>1 DEF HasNext, RemoveExpected
  <2>. HIDE DEF b
  <2>2. /\ RemoveExpectedHere(D, p, b) \in DashboardState
        /\ RemoveExpectedHere(D, p, b).visits = D.visits
        /\ \A d \in Place : \A q \in RemoveExpectedHere(D, p, b).expected[d] :
              q \in D.expected[d] /\ ~(q = p /\ d = b)
    BY <2>1, RemoveHereIs
  <2>. QED  BY <2>1, <2>2 DEF b
<1>2. CASE ~HasNext(c)
  BY <1>2 DEF RemoveExpected, HasNext
<1>. QED  BY <1>1, <1>2

\* Has somebody among these visits left?
Left(visits, p) == \E v \in visits : v.person = p /\ v.out # Null

\* A reading that is added or changed makes at most its own person leave.
LEMMA UpdatedVisits ==
    ASSUME NEW visits \in SUBSET Visit, NEW p \in Person, NEW in \in Nat, NEW out \in Nat,
           OneEach(visits)
    PROVE  LET W == AddOrUpdateVisit(visits, p, in, out)
           IN  /\ OneEach(W)
               /\ \A q : Left(W, q) <=> Left(visits, q) \/ (q = p /\ out # Null)
<1>. DEFINE W == AddOrUpdateVisit(visits, p, in, out)
            new(v) == [v EXCEPT !.in = Given(in, @), !.out = Given(out, @)]
            of(v) == IF v.person = p THEN new(v) ELSE v
<1>1. ASSUME NEW v \in visits
      PROVE  /\ of(v).person = v.person
             /\ of(v).out # Null <=> v.out # Null \/ (v.person = p /\ out # Null)
  BY DEF Visit, Given, Null
<1>2. W = IF HasVisit(visits, p) THEN {of(v) : v \in visits} ELSE visits \cup {NewVisit(p, in, out)}
  BY DEF AddOrUpdateVisit
<1>3. HasVisit(visits, p) <=> \E v \in visits : v.person = p
  BY DEF HasVisit, VisitsBy
<1>4. NewVisit(p, in, out).person = p /\ NewVisit(p, in, out).out = out
  BY DEF NewVisit
<1>. HIDE DEF W, of
<1>5. CASE HasVisit(visits, p)
  <2>1. W = {of(v) : v \in visits}
    BY <1>2, <1>5
  <2>2. OneEach(W)
    BY <1>1, <2>1 DEF OneEach
  <2>3. \A q : Left(W, q) <=> \E v \in visits : of(v).person = q /\ of(v).out # Null
    BY <2>1 DEF Left
  <2>4. \A q : Left(W, q) <=> Left(visits, q) \/ (q = p /\ out # Null)
    BY <1>1, <1>3, <1>5, <2>3 DEF Left
  <2>. QED  BY <2>2, <2>4 DEF W
<1>6. CASE ~HasVisit(visits, p)
  <2>1. W = visits \cup {NewVisit(p, in, out)}
    BY <1>2, <1>6
  <2>2. OneEach(W)
    BY <1>3, <1>4, <1>6, <2>1 DEF OneEach
  <2>3. \A q : Left(W, q) <=> Left(visits, q) \/ (q = p /\ out # Null)
    BY <1>4, <2>1 DEF Left
  <2>. QED  BY <2>2, <2>3 DEF W
<1>. QED  BY <1>5, <1>6

\* What an event at c about p, which makes the visits there W and the readings S, has to do
\* to them and to the expectations if the dashboard shall go on agreeing with the readings.
Changes(E, D, S, c, p, W) ==
    /\ E.visits = [D.visits EXCEPT ![c] = W]
    /\ OneEach(W)
    /\ TypeOf[c] # "Passthrough" => \A q : Left(W, q) => IsRead(S.out, q)
    /\ \A q : q # p /\ Left(D.visits[c], q) => Left(W, q)
    /\ \A d \in Place : d # c + 1 => \A q \in E.expected[d] :
          q \in D.expected[d] \/ (d = c /\ c - 1 \in Place /\ Left(D.visits[c - 1], q))
    /\ c + 1 \in Place => \A q \in E.expected[c + 1] :
          IF q = p THEN TypeOf[c] = "Passthrough" \/ Left(W, p) ELSE q \in D.expected[c + 1]

\* An event that does keeps the invariant.
LEMMA DashboardChanged ==
    ASSUME NEW D \in DashboardState, NEW R \in [Place -> State(Person)], DashboardInv(D, R),
           NEW c \in Place, NEW p, NEW W, NEW S, NEW E, Changes(E, D, S, c, p, W)
    PROVE  DashboardInv(E, [R EXCEPT ![c] = S])
<1>. DEFINE T == [R EXCEPT ![c] = S]
<1>1. /\ \A d \in Place : E.visits[d] = IF d = c THEN W ELSE D.visits[d]
      /\ \A d \in Place : T[d] = IF d = c THEN S ELSE R[d]
  BY DEF DashboardState, Changes
<1>2. OneVisit(E)
  BY <1>1 DEF OneVisit, DashboardInv, Changes
<1>. HIDE DEF T
<1>3. OutIsRead(E, T)
  BY <1>1 DEF OutIsRead, DashboardInv, Left, Changes
<1>4. HasLeft(E)
  <2>. SUFFICES ASSUME NEW d \in Place, NEW q \in E.expected[d]
                PROVE  /\ d - 1 \in Place
                       /\ TypeOf[d - 1] = "Passthrough" \/ Left(E.visits[d - 1], q)
    BY DEF HasLeft, Left
  <2>1. /\ d \in Int /\ c \in Int
        /\ d = c + 1 => d - 1 = c
        /\ d # c + 1 => d - 1 # c
    BY TypeOfAssumption DEF Place
  <2>2. q \in D.expected[d] =>
           /\ d - 1 \in Place
           /\ TypeOf[d - 1] = "Passthrough" \/ Left(D.visits[d - 1], q)
    BY DEF DashboardInv, HasLeft, Left
  <2>. HIDE DEF Place
  <2>3. CASE d = c + 1
    BY <1>1, <2>1, <2>2, <2>3 DEF Changes
  <2>4. CASE d # c + 1
    BY <1>1, <2>1, <2>2, <2>4 DEF Changes
  <2>. QED  BY <2>3, <2>4
<1>. QED  BY <1>2, <1>3, <1>4 DEF DashboardInv, T

\* The handlers of readings that are added or changed.
LEMMA ApplyScanIs ==
    ASSUME NEW D \in DashboardState, NEW e \in ServerEvent, NEW in \in Nat, NEW out \in Nat
    PROVE  LET E == ApplyScan(D, e, in, out)
           IN  /\ E \in DashboardState /\ E.expected = D.expected
               /\ E.visits = [D.visits EXCEPT
                                ![e.place] = AddOrUpdateVisit(@, e.person, in, out)]
<1>. DEFINE W == AddOrUpdateVisit(D.visits[e.place], e.person, in, out)
<1>1. e.place \in Place /\ e.person \in Person
  BY DEF ServerEvent
<1>2. D.visits[e.place] \in SUBSET Visit
  BY <1>1, ChangedAt
<1>3. W \in SUBSET Visit
  BY <1>1, <1>2, VisitsUpdated
<1>4. ApplyScan(D, e, in, out) = [D EXCEPT !.visits[e.place] = W]
  BY DEF ApplyScan
<1>5. [D.visits EXCEPT ![e.place] = W] =
         [D.visits EXCEPT ![e.place] = AddOrUpdateVisit(@, e.person, in, out)]
  OBVIOUS
<1>. HIDE DEF W
<1>. QED  BY <1>1, <1>3, <1>4, <1>5, ChangedAt

\* A reading in removed.
LEMMA ScanInRemovedIs ==
    ASSUME NEW D \in DashboardState, NEW e \in ServerEvent
    PROVE  LET E == ScanInRemoved(D, e)
               c == e.place
               p == e.person
           IN  /\ E \in DashboardState
               /\ E.visits = [D.visits EXCEPT ![c] = {v \in @ : v.person # p}]
               /\ \A d \in Place : \A q \in E.expected[d] :
                     \/ q \in D.expected[d]
                     \/ d = c /\ c - 1 \in Place /\ Left(D.visits[c - 1], q)
<1>. DEFINE c == e.place
            p == e.person
            W == D.visits[c] \ VisitsBy(D.visits[c], p)
            E1 == [D EXCEPT !.visits[c] = W]
            before == D.visits[c - 1]
            Again == HasPrevious(c) /\ HasVisit(before, p) /\ TheVisit(before, p).out # Null
<1>1. c \in Place /\ p \in Person
  BY DEF ServerEvent
<1>2. D.visits[c] \in SUBSET Visit
  BY <1>1, ChangedAt
<1>3. W \in SUBSET Visit /\ W = {v \in D.visits[c] : v.person # p}
  BY <1>2 DEF VisitsBy
<1>4. E1 \in DashboardState /\ E1.expected = D.expected /\ E1.visits = [D.visits EXCEPT ![c] = W]
  <2>. HIDE DEF W, c
  <2>. QED  BY <1>1, <1>3, ChangedAt
<1>5. ScanInRemoved(D, e) = IF Again THEN AddExpectedAt(E1, p, c - 1) ELSE E1
  BY DEF ScanInRemoved
<1>6. Again => c - 1 \in Place /\ (c - 1) + 1 = c /\ Left(before, p)
  <2>1. HasPrevious(c) => c - 1 \in Place /\ (c - 1) + 1 = c
    BY <1>1, TypeOfAssumption DEF HasPrevious, Place
  <2>2. HasVisit(before, p) /\ TheVisit(before, p).out # Null => Left(before, p)
    <3>. HIDE DEF before, p
    <3>. QED  BY TheVisitIs DEF Left
  <2>. QED  BY <2>1, <2>2
<1>7. [D.visits EXCEPT ![c] = W] = [D.visits EXCEPT ![c] = {v \in @ : v.person # p}]
  BY <1>3
<1>. DEFINE E == ScanInRemoved(D, e)
<1>. HIDE DEF E1, W, Again, E
<1>8. CASE Again
  <2>1. E = AddExpectedAt(E1, p, c - 1) /\ c - 1 \in Place /\ (c - 1) + 1 = c /\ Left(before, p)
    BY <1>5, <1>6, <1>8 DEF E
  <2>2. /\ E \in DashboardState /\ E.visits = E1.visits
        /\ \A d \in Place : \A q \in E.expected[d] : q \in E1.expected[d] \/ (q = p /\ d = c)
    <3>. DEFINE b == c - 1
    <3>. HIDE DEF c, p, b
    <3>1. b \in Place /\ E = AddExpectedAt(E1, p, b) /\ b + 1 = c
      BY <2>1 DEF b
    <3>2. AddExpectedAt(E1, p, b) \in DashboardState /\ AddExpectedAt(E1, p, b).visits = E1.visits
      BY <1>1, <1>4, <3>1, AddExpectedIs
    <3>3. \A d \in Place : \A q \in AddExpectedAt(E1, p, b).expected[d] :
             q \in E1.expected[d] \/ (q = p /\ d = b + 1)
      <4>1. E1 \in DashboardState /\ b \in Place /\ p \in Person
        BY <1>1, <1>4, <3>1
      <4>. QED  BY ONLY <4>1, AddExpectedIs
    <3>. QED  BY <3>1, <3>2, <3>3
  <2>. QED  BY <1>4, <1>7, <2>1, <2>2 DEF E
<1>9. CASE ~Again
  BY <1>4, <1>5, <1>7, <1>9 DEF E
<1>. QED  BY <1>8, <1>9

\* The one visit of e's person at its place is replaced, and they are not expected next.
Replaced(E, D, e, left) ==
    LET v == TheVisit(D.visits[e.place], e.person)
    IN  /\ E \in DashboardState
        /\ E.visits = [D.visits EXCEPT ![e.place] = (@ \ {v}) \cup left]
        /\ \A d \in Place : \A q \in E.expected[d] :
              q \in D.expected[d] /\ ~(q = e.person /\ d = e.place + 1)

\* A visit that is replaced.
LEMMA ReplacedIs ==
    ASSUME NEW D \in DashboardState, NEW e \in ServerEvent, NEW left \in SUBSET Visit
    PROVE  LET v == TheVisit(D.visits[e.place], e.person)
               E == RemoveExpected([D EXCEPT !.visits[e.place] = (@ \ {v}) \cup left],
                                   e.person, e.place)
           IN  Replaced(E, D, e, left)
<1>. DEFINE c == e.place
            v == TheVisit(D.visits[c], e.person)
            W == (D.visits[c] \ {v}) \cup left
            E1 == [D EXCEPT !.visits[c] = W]
            E == RemoveExpected(E1, e.person, c)
<1>1. c \in Place /\ e.person \in Person
  BY DEF ServerEvent
<1>2. D.visits[c] \in SUBSET Visit
  BY <1>1, ChangedAt
<1>3. W \in SUBSET Visit
  BY <1>2
<1>4. E1 \in DashboardState /\ E1.expected = D.expected /\ E1.visits = [D.visits EXCEPT ![c] = W]
  <2>. HIDE DEF W, c
  <2>. QED  BY <1>1, <1>3, ChangedAt
<1>5. [D.visits EXCEPT ![c] = W] = [D.visits EXCEPT ![c] = (@ \ {v}) \cup left]
  OBVIOUS
<1>6. E1 = [D EXCEPT !.visits[c] = (@ \ {v}) \cup left]
  OBVIOUS
<1>7. /\ E \in DashboardState /\ E.visits = E1.visits
      /\ \A d \in Place : \A q \in E.expected[d] :
            q \in E1.expected[d] /\ ~(q = e.person /\ d = c + 1)
  <2>. DEFINE p == e.person
  <2>. HIDE DEF E1, c, p
  <2>1. p \in Person
    BY <1>1 DEF p
  <2>2. RemoveExpected(E1, p, c) \in DashboardState /\ RemoveExpected(E1, p, c).visits = E1.visits
    BY <1>1, <1>4, <2>1, RemoveNextIs
  <2>3. \A d \in Place : \A q \in RemoveExpected(E1, p, c).expected[d] :
           q \in E1.expected[d] /\ ~(q = p /\ d = c + 1)
    <3>1. E1 \in DashboardState /\ c \in Place /\ p \in Person
      BY <1>1, <1>4, <2>1
    <3>. QED  BY ONLY <3>1, RemoveNextIs
  <2>. QED  BY <2>2, <2>3 DEF p
<1>. QED  BY <1>4, <1>5, <1>6, <1>7 DEF Replaced

\* A reading out removed.
LEMMA ScanOutRemovedIs ==
    ASSUME NEW D \in DashboardState, NEW e \in ServerEvent
    PROVE  LET v == TheVisit(D.visits[e.place], e.person)
               left == {w \in {[v EXCEPT !.out = Null]} : v.in # Null}
           IN  IF HasVisit(D.visits[e.place], e.person)
                 THEN Replaced(ScanOutRemoved(D, e), D, e, left)
                 ELSE ScanOutRemoved(D, e) = D
<1>. DEFINE v == TheVisit(D.visits[e.place], e.person)
            left == {w \in {[v EXCEPT !.out = Null]} : v.in # Null}
            of == {[v EXCEPT !.out = Null] : w \in {x \in {v} : x.in # Null}}
<1>1. left = of
  OBVIOUS
<1>2. CASE HasVisit(D.visits[e.place], e.person)
  <2>1. v \in Visit
    <3>1. v \in D.visits[e.place]
      BY <1>2, TheVisitIs
    <3>2. D.visits[e.place] \in SUBSET Visit
      BY ChangedAt DEF ServerEvent
    <3>. QED  BY <3>1, <3>2
  <2>2. left \in SUBSET Visit
    <3>. HIDE DEF v
    <3>. QED  BY <2>1 DEF Visit, Null
  <2>3. ScanOutRemoved(D, e) =
          RemoveExpected([D EXCEPT !.visits[e.place] = (@ \ {v}) \cup left], e.person, e.place)
    BY <1>1, <1>2 DEF ScanOutRemoved
  <2>. HIDE DEF left
  <2>4. Replaced(ScanOutRemoved(D, e), D, e, left)
    BY <2>2, <2>3, ReplacedIs
  <2>. QED  BY <1>2, <2>4 DEF left
<1>3. CASE ~HasVisit(D.visits[e.place], e.person)
  BY <1>3 DEF ScanOutRemoved
<1>. QED  BY <1>2, <1>3

\* Somebody quits.
LEMMA QuitAtIs ==
    ASSUME NEW D \in DashboardState, NEW e \in ServerEvent
    PROVE  LET v == TheVisit(D.visits[e.place], e.person)
           IN  IF HasVisit(D.visits[e.place], e.person)
                 THEN Replaced(QuitAt(D, e), D, e, {[v EXCEPT !.quit = TRUE]})
                 ELSE QuitAt(D, e) = D
<1>. DEFINE v == TheVisit(D.visits[e.place], e.person)
            left == {[v EXCEPT !.quit = TRUE]}
<1>1. CASE HasVisit(D.visits[e.place], e.person)
  <2>1. v \in Visit
    <3>1. v \in D.visits[e.place]
      BY <1>1, TheVisitIs
    <3>2. D.visits[e.place] \in SUBSET Visit
      BY ChangedAt DEF ServerEvent
    <3>. QED  BY <3>1, <3>2
  <2>2. left \in SUBSET Visit
    <3>. HIDE DEF v
    <3>. QED  BY <2>1 DEF Visit
  <2>3. QuitAt(D, e) =
          RemoveExpected([D EXCEPT !.visits[e.place] = (@ \ {v}) \cup left], e.person, e.place)
    BY <1>1 DEF QuitAt
  <2>. HIDE DEF left
  <2>4. Replaced(QuitAt(D, e), D, e, left)
    BY <2>2, <2>3, ReplacedIs
  <2>. QED  BY <1>1, <2>4 DEF left
<1>2. CASE ~HasVisit(D.visits[e.place], e.person)
  BY <1>2 DEF QuitAt
<1>. QED  BY <1>1, <1>2

\* What remains of the visits when one of them is replaced.
LEMMA ReplacedVisits ==
    ASSUME NEW visits \in SUBSET Visit, NEW p, HasVisit(visits, p),
           OneEach(visits),
           NEW left \in SUBSET Visit,
           \A w \in left : w.person = p, \A v, w \in left : v = w
    PROVE  LET W == (visits \ {TheVisit(visits, p)}) \cup left
           IN  /\ OneEach(W)
               /\ \A q : q # p => (Left(W, q) <=> Left(visits, q))
               /\ Left(W, p) <=> \E w \in left : w.out # Null
<1>. DEFINE t == TheVisit(visits, p)
            W == (visits \ {t}) \cup left
<1>1. t \in visits /\ t.person = p
  BY TheVisitIs
<1>. HIDE DEF t
<1>2. \A w \in W : w.person = p <=> w \in left
  BY <1>1 DEF OneEach
<1>3. OneEach(W)
  BY <1>2 DEF OneEach
<1>4. ASSUME NEW q, q # p PROVE Left(W, q) <=> Left(visits, q)
  BY <1>1, <1>2, <1>4 DEF Left
<1>5. Left(W, p) <=> \E w \in left : w.out # Null
  BY <1>2 DEF Left
<1>. QED  BY <1>3, <1>4, <1>5 DEF t

\* An event makes a dashboard of a dashboard.
LEMMA ProjectedIsState ==
    ASSUME NEW D \in DashboardState, NEW e \in ServerEvent
    PROVE  Projected(D, e) \in DashboardState
<1>. DEFINE c == e.place
            p == e.person
            Scanned(in, out) == ApplyScan(D, e, in, out)
<1>1. c \in Place /\ p \in Person /\ e.time \in Nat /\ Null \in Nat
  BY DEF ServerEvent, Null
<1>2. ASSUME NEW in \in Nat, NEW out \in Nat
      PROVE  /\ Scanned(in, out) \in DashboardState
             /\ RemoveExpectedHere(Scanned(in, out), p, c) \in DashboardState
             /\ AddExpectedAt(Scanned(in, out), p, c) \in DashboardState
             /\ RemoveExpectedHere(AddExpectedAt(Scanned(in, out), p, c), p, c) \in DashboardState
  <2>1. Scanned(in, out) \in DashboardState
    BY <1>2, ApplyScanIs
  <2>. DEFINE E == Scanned(in, out)
  <2>. HIDE DEF E, c, p
  <2>2. E \in DashboardState
    BY <2>1 DEF E
  <2>3. RemoveExpectedHere(E, p, c) \in DashboardState /\ AddExpectedAt(E, p, c) \in DashboardState
    BY <1>1, <2>2, RemoveHereIs, AddExpectedIs
  <2>4. RemoveExpectedHere(AddExpectedAt(E, p, c), p, c) \in DashboardState
    BY <1>1, <2>3, RemoveHereIs
  <2>. QED  BY <2>2, <2>3, <2>4 DEF E
<1>3. ScanInRemoved(D, e) \in DashboardState
  BY ScanInRemovedIs
<1>4. ScanOutRemoved(D, e) \in DashboardState
  BY ScanOutRemovedIs DEF Replaced
<1>5. QuitAt(D, e) \in DashboardState
  BY QuitAtIs DEF Replaced
<1>. QED  BY <1>1, <1>2, <1>3, <1>4, <1>5 DEF Projected

\* What an event finds when it comes: whoever is removed from a checkpoint that they
\* entered has not left it, and there is a reading out if one is changed.
Ready(e, type, S) ==
    /\ e.type = "AttendeeScanInRemoved" => type = "Passthrough" \/ ~IsRead(S.out, e.person)
    /\ e.type = "AttendeeScanOutTimeChanged" => IsRead(S.out, e.person)
    /\ e.type = "AttendeePassthroughScan" => type = "Passthrough"
    /\ e.type # "AttendeePassthroughScanTimeChanged"
    /\ e.time # Null

\* Whose reading out is left by a row.
OutAfter(T, S, e) ==
    \A q : IsRead(T.out, q) <=> \/ AddsOut(e) /\ e.person = q
                                \/ IsRead(S.out, q) /\ ~(RemovesOut(e) /\ e.person = q)

\* What the invariant says of one checkpoint.
LEMMA InvAt ==
    ASSUME NEW D \in DashboardState, NEW R, DashboardInv(D, R), NEW c \in Place
    PROVE  /\ OneEach(D.visits[c])
           /\ TypeOf[c] # "Passthrough" => \A q : Left(D.visits[c], q) => IsRead(R[c].out, q)
           /\ c + 1 \in Place => \A q \in D.expected[c + 1] :
                 TypeOf[c] = "Passthrough" \/ Left(D.visits[c], q)
<1>1. c \in Int /\ (c + 1) - 1 = c
  BY TypeOfAssumption DEF Place
<1>. HIDE DEF Place
<1>2. OneEach(D.visits[c])
  BY DEF DashboardInv, OneVisit
<1>3. TypeOf[c] # "Passthrough" => \A q : Left(D.visits[c], q) => IsRead(R[c].out, q)
  BY DEF DashboardInv, OutIsRead, Left
<1>4. ASSUME c + 1 \in Place, NEW q \in D.expected[c + 1]
      PROVE  TypeOf[c] = "Passthrough" \/ Left(D.visits[c], q)
  BY <1>1, <1>4 DEF DashboardInv, HasLeft, Left
<1>. QED  BY <1>2, <1>3, <1>4

\* A reading that is added or changed.
LEMMA ReadingProjected ==
    ASSUME NEW D \in DashboardState, NEW R \in [Place -> State(Person)], DashboardInv(D, R),
           NEW c \in Place, NEW e \in EventRow(Person), NEW T,
           OutAfter(T, R[c], e), Ready(e, TypeOf[c], R[c]),
           AddsIn(e) \/ AddsOut(e) \/ ChangesIn(e) \/ ChangesOut(e)
    PROVE  DashboardInv(Projected(D, Published(c, e)), [R EXCEPT ![c] = T])
<1>. DEFINE f == Published(c, e)
            p == e.person
            V == D.visits[c]
            in == IF e.type \in {"AttendeeScanIn", "AttendeePassthroughScan",
                                 "AttendeeScanInTimeChanged"} THEN e.time ELSE Null
            out == IF e.type \in {"AttendeeScanOut", "AttendeePassthroughScan",
                                  "AttendeeScanOutTimeChanged"} THEN e.time ELSE Null
            A == ApplyScan(D, f, in, out)
            W == AddOrUpdateVisit(V, p, in, out)
            E == Projected(D, f)
            Expects == e.type \in {"AttendeeScanOut", "AttendeePassthroughScan"}
<1>1. /\ f \in ServerEvent /\ f.place = c /\ f.person = p /\ f.time = e.time /\ f.name = e.type
      /\ p \in Person /\ e.time \in Nat /\ e.time # Null
      /\ e.type \in {"AttendeeScanIn", "AttendeeScanOut", "AttendeePassthroughScan",
                     "AttendeeScanInTimeChanged", "AttendeeScanOutTimeChanged"}
  BY DEF Published, EventRow, ServerEvent, ServerEventName, Ready, AddsIn, AddsOut,
         ChangesIn, ChangesOut
<1>2. in \in Nat /\ out \in Nat
  BY <1>1 DEF Null
<1>3. A \in DashboardState /\ A.expected = D.expected /\ A.visits = [D.visits EXCEPT ![c] = W]
  <2>. HIDE DEF in, out, f
  <2>. QED  BY <1>1, <1>2, ApplyScanIs
<1>4. \/ E = A
      \/ E = RemoveExpectedHere(A, p, c)
      \/ E = AddExpectedAt(A, p, c) /\ Expects
      \/ E = RemoveExpectedHere(AddExpectedAt(A, p, c), p, c) /\ Expects
  BY <1>1 DEF Projected
<1>5. /\ V \in SUBSET Visit /\ OneEach(V)
      /\ TypeOf[c] # "Passthrough" => \A q : Left(V, q) => IsRead(R[c].out, q)
      /\ c + 1 \in Place => \A q \in D.expected[c + 1] : TypeOf[c] = "Passthrough" \/ Left(V, q)
  BY ChangedAt, InvAt
<1>6. out # Null => AddsOut(e) \/ IsRead(R[c].out, p)
  BY DEF Ready, AddsOut
<1>7. ~RemovesOut(e) /\ (Expects => out # Null)
  BY <1>1 DEF RemovesOut
<1>. HIDE DEF in, out, f, A, V, W, E, Expects, p
<1>8. /\ E.visits = A.visits
      /\ \A d \in Place : \A q \in E.expected[d] :
            q \in A.expected[d] \/ (q = p /\ d = c + 1 /\ Expects)
  <2>1. CASE E = A
    BY <2>1
  <2>2. CASE E = RemoveExpectedHere(A, p, c)
    BY <1>1, <1>3, <2>2, RemoveHereIs
  <2>3. ASSUME Expects
        PROVE  /\ AddExpectedAt(A, p, c) \in DashboardState
               /\ AddExpectedAt(A, p, c).visits = A.visits
               /\ \A d \in Place : \A q \in AddExpectedAt(A, p, c).expected[d] :
                     q \in A.expected[d] \/ (q = p /\ d = c + 1)
    BY <1>1, <1>3, AddExpectedIs
  <2>4. CASE E = AddExpectedAt(A, p, c) /\ Expects
    BY <2>3, <2>4
  <2>5. CASE E = RemoveExpectedHere(AddExpectedAt(A, p, c), p, c) /\ Expects
    <3>. DEFINE B == AddExpectedAt(A, p, c)
    <3>1. B \in DashboardState /\ B.visits = A.visits
          /\ \A d \in Place : \A q \in B.expected[d] : q \in A.expected[d] \/ (q = p /\ d = c + 1)
      BY <2>3, <2>5
    <3>. HIDE DEF B
    <3>2. E.visits = B.visits /\ \A d \in Place : \A q \in E.expected[d] : q \in B.expected[d]
      BY <1>1, <2>5, <3>1, RemoveHereIs DEF B
    <3>. QED  BY <2>5, <3>1, <3>2
  <2>. QED  BY <1>4, <2>1, <2>2, <2>4, <2>5
<1>9. /\ OneEach(W)
      /\ \A q : Left(W, q) <=> Left(V, q) \/ (q = p /\ out # Null)
  BY <1>1, <1>2, <1>5, UpdatedVisits DEF W
<1>10. TypeOf[c] # "Passthrough" => \A q : Left(W, q) => IsRead(T.out, q)
  BY <1>5, <1>6, <1>7, <1>9 DEF OutAfter, p
<1>11. \A d \in Place : d # c + 1 => \A q \in E.expected[d] : q \in D.expected[d]
  BY <1>3, <1>8
<1>12. ASSUME c + 1 \in Place, NEW q \in E.expected[c + 1]
       PROVE  IF q = p THEN TypeOf[c] = "Passthrough" \/ Left(W, p) ELSE q \in D.expected[c + 1]
  BY <1>3, <1>5, <1>7, <1>8, <1>9, <1>12
<1>13. E.visits = [D.visits EXCEPT ![c] = W]
  BY <1>3, <1>8
<1>14. \A q : q # p /\ Left(V, q) => Left(W, q)
  BY <1>9
<1>15. Changes(E, D, T, c, p, W)
  BY <1>9, <1>10, <1>11, <1>12, <1>13, <1>14 DEF Changes, V
<1>. QED  BY <1>15, DashboardChanged DEF E, f

\* A reading in that is removed.
LEMMA InRemovedProjected ==
    ASSUME NEW D \in DashboardState, NEW R \in [Place -> State(Person)], DashboardInv(D, R),
           NEW c \in Place, NEW e \in EventRow(Person), NEW T,
           OutAfter(T, R[c], e), Ready(e, TypeOf[c], R[c]), RemovesIn(e)
    PROVE  DashboardInv(Projected(D, Published(c, e)), [R EXCEPT ![c] = T])
<1>. DEFINE f == Published(c, e)
            p == e.person
            V == D.visits[c]
            W == {v \in V : v.person # p}
            E == Projected(D, f)
<1>1. /\ f \in ServerEvent /\ f.place = c /\ f.person = p /\ f.name = "AttendeeScanInRemoved"
      /\ p \in Person /\ ~RemovesOut(e)
      /\ TypeOf[c] = "Passthrough" \/ ~IsRead(R[c].out, p)
  BY DEF Published, EventRow, ServerEvent, ServerEventName, Ready, RemovesIn, RemovesOut
<1>2. E = ScanInRemoved(D, f)
  BY <1>1 DEF Projected
<1>3. /\ OneEach(V)
      /\ TypeOf[c] # "Passthrough" => \A q : Left(V, q) => IsRead(R[c].out, q)
      /\ c + 1 \in Place => \A q \in D.expected[c + 1] : TypeOf[c] = "Passthrough" \/ Left(V, q)
  BY InvAt
<1>. HIDE DEF f, E, p
<1>4. /\ E.visits = [D.visits EXCEPT ![c] = W]
      /\ \A d \in Place : \A q \in E.expected[d] :
            \/ q \in D.expected[d]
            \/ d = c /\ c - 1 \in Place /\ Left(D.visits[c - 1], q)
  BY <1>1, <1>2, ScanInRemovedIs
<1>5. /\ OneEach(W)
      /\ \A q : Left(W, q) <=> Left(V, q) /\ q # p
  BY <1>3 DEF Left, OneEach
<1>. HIDE DEF V, W
<1>6. TypeOf[c] # "Passthrough" => \A q : Left(W, q) => IsRead(T.out, q)
  BY <1>1, <1>3, <1>5 DEF OutAfter
<1>7. ASSUME c + 1 \in Place, NEW q \in E.expected[c + 1]
      PROVE  IF q = p THEN TypeOf[c] = "Passthrough" \/ Left(W, p) ELSE q \in D.expected[c + 1]
  <2>1. c + 1 # c
    BY TypeOfAssumption DEF Place
  <2>2. q \in D.expected[c + 1]
    BY <1>4, <1>7, <2>1
  <2>. QED  BY <1>1, <1>3, <1>7, <2>2
<1>8. \A d \in Place : d # c + 1 =>
         \A q \in E.expected[d] : \/ q \in D.expected[d]
                                  \/ d = c /\ c - 1 \in Place /\ Left(D.visits[c - 1], q)
  BY <1>4
<1>9. \A q : q # p /\ Left(V, q) => Left(W, q)
  BY <1>5
<1>10. E.visits = [D.visits EXCEPT ![c] = W]
  BY <1>4 DEF W, V
<1>11. Changes(E, D, T, c, p, W)
  BY <1>5, <1>6, <1>7, <1>8, <1>9, <1>10 DEF Changes, V
<1>. QED  BY <1>11, DashboardChanged DEF E, f

\* A visit that is replaced by one of somebody who has not left, or has not left any more
\* than before.
LEMMA ReplacedKeeps ==
    ASSUME NEW D \in DashboardState, NEW R \in [Place -> State(Person)], DashboardInv(D, R),
           NEW f \in ServerEvent, NEW T, NEW E, NEW left \in SUBSET Visit, Replaced(E, D, f, left),
           HasVisit(D.visits[f.place], f.person),
           \A w \in left : w.person = f.person, \A v, w \in left : v = w,
           \A q : IsRead(R[f.place].out, q) /\ q # f.person => IsRead(T.out, q),
           TypeOf[f.place] # "Passthrough" /\ (\E w \in left : w.out # Null) =>
              IsRead(T.out, f.person)
    PROVE  DashboardInv(E, [R EXCEPT ![f.place] = T])
<1>. DEFINE c == f.place
            p == f.person
            V == D.visits[c]
            t == TheVisit(V, p)
            W == (V \ {t}) \cup left
<1>1. c \in Place /\ p \in Person
  BY DEF ServerEvent
<1>2. /\ V \in SUBSET Visit /\ OneEach(V)
      /\ TypeOf[c] # "Passthrough" => \A q : Left(V, q) => IsRead(R[c].out, q)
  BY <1>1, ChangedAt, InvAt
<1>3. E.visits = [D.visits EXCEPT ![c] = W]
  BY DEF Replaced
<1>4. \A d \in Place : \A q \in E.expected[d] : q \in D.expected[d] /\ ~(q = p /\ d = c + 1)
  BY DEF Replaced
<1>5. /\ OneEach(W)
      /\ \A q : q # p => (Left(W, q) <=> Left(V, q))
      /\ Left(W, p) <=> \E w \in left : w.out # Null
  <2>. HIDE DEF V, c, p
  <2>. QED  BY <1>2, ReplacedVisits DEF V, c, p
<1>. HIDE DEF V, W, c, p
<1>6. TypeOf[c] # "Passthrough" => \A q : Left(W, q) => IsRead(T.out, q)
  BY <1>2, <1>5 DEF c, p
<1>7. \A q : q # p /\ Left(V, q) => Left(W, q)
  BY <1>5
<1>8. Changes(E, D, T, c, p, W)
  BY <1>3, <1>4, <1>5, <1>6, <1>7 DEF Changes, V
<1>. QED  BY <1>1, <1>8, DashboardChanged DEF c

\* A reading out that is removed. There may be no visit: a passthrough's is gone.
LEMMA OutRemovedProjected ==
    ASSUME NEW D \in DashboardState, NEW R \in [Place -> State(Person)], DashboardInv(D, R),
           NEW c \in Place, NEW e \in EventRow(Person), NEW T,
           OutAfter(T, R[c], e), RemovesOut(e)
    PROVE  DashboardInv(Projected(D, Published(c, e)), [R EXCEPT ![c] = T])
<1>. DEFINE f == Published(c, e)
            p == e.person
            V == D.visits[c]
            t == TheVisit(V, p)
            left == {w \in {[t EXCEPT !.out = Null]} : t.in # Null}
            E == Projected(D, f)
<1>1. /\ f \in ServerEvent /\ f.place = c /\ f.person = p /\ f.name = "AttendeeScanOutRemoved"
      /\ p \in Person /\ ~AddsOut(e)
  BY DEF Published, EventRow, ServerEvent, ServerEventName, RemovesOut, AddsOut
<1>2. E = ScanOutRemoved(D, f)
  BY <1>1 DEF Projected
<1>3. /\ V \in SUBSET Visit /\ OneEach(V)
      /\ TypeOf[c] # "Passthrough" => \A q : Left(V, q) => IsRead(R[c].out, q)
      /\ c + 1 \in Place => \A q \in D.expected[c + 1] : TypeOf[c] = "Passthrough" \/ Left(V, q)
  BY ChangedAt, InvAt
<1>4. \A q : IsRead(R[c].out, q) /\ q # p => IsRead(T.out, q)
  BY DEF OutAfter
<1>5. CASE HasVisit(V, p)
  <2>1. Replaced(E, D, f, left)
    <3>1. HasVisit(D.visits[f.place], f.person)
      BY <1>1, <1>5
    <3>2. LET v == TheVisit(D.visits[f.place], f.person)
              l == {w \in {[v EXCEPT !.out = Null]} : v.in # Null}
          IN  Replaced(ScanOutRemoved(D, f), D, f, l)
      <4>. HIDE DEF f
      <4>. QED  BY <1>1, <3>1, ScanOutRemovedIs
    <3>. QED  BY <1>1, <1>2, <3>2
  <2>2. t \in Visit /\ t.person = p
    BY <1>3, <1>5, TheVisitIs
  <2>3. /\ left \in SUBSET Visit /\ \A w \in left : w.person = p /\ w.out = Null
        /\ \A v, w \in left : v = w
    <3>. HIDE DEF t
    <3>. QED  BY <2>2 DEF Visit, Null
  <2>. HIDE DEF f, E, left, p
  <2>. QED  BY <1>1, <1>4, <1>5, <2>1, <2>3, ReplacedKeeps DEF f, E
<1>6. CASE ~HasVisit(V, p)
  <2>1. E = D
    <3>. HIDE DEF f, E
    <3>. QED  BY <1>1, <1>2, <1>6, ScanOutRemovedIs
  <2>2. ~Left(V, p)
    BY <1>6 DEF Left, HasVisit, VisitsBy
  <2>3. D.visits = [D.visits EXCEPT ![c] = V]
    BY DEF DashboardState
  <2>. HIDE DEF E, V, p
  <2>4. TypeOf[c] # "Passthrough" => \A q : Left(V, q) => IsRead(T.out, q)
    BY <1>3, <1>4, <2>2
  <2>5. Changes(E, D, T, c, p, V)
    BY <1>3, <2>1, <2>3, <2>4 DEF Changes, V
  <2>. QED  BY <2>5, DashboardChanged DEF E
<1>. QED  BY <1>5, <1>6

\* Somebody quits.
LEMMA QuitProjected ==
    ASSUME NEW D \in DashboardState, NEW R \in [Place -> State(Person)], DashboardInv(D, R),
           NEW f \in ServerEvent, f.name = "AttendeeQuit"
    PROVE  DashboardInv(Projected(D, f), R)
<1>. DEFINE c == f.place
            p == f.person
            V == D.visits[c]
            t == TheVisit(V, p)
            left == {[t EXCEPT !.quit = TRUE]}
            E == Projected(D, f)
<1>1. c \in Place /\ p \in Person /\ E = QuitAt(D, f)
  BY DEF ServerEvent, Projected
<1>2. /\ V \in SUBSET Visit
      /\ TypeOf[c] # "Passthrough" => \A q : Left(V, q) => IsRead(R[c].out, q)
  BY <1>1, ChangedAt, InvAt
<1>3. CASE HasVisit(V, p)
  <2>1. Replaced(E, D, f, left)
    BY <1>1, <1>3, QuitAtIs
  <2>2. t \in V /\ t \in Visit /\ t.person = p
    BY <1>2, <1>3, TheVisitIs
  <2>3. /\ left \in SUBSET Visit /\ \A w \in left : w.person = p /\ w.out = t.out
        /\ \A v, w \in left : v = w
    <3>. HIDE DEF t
    <3>. QED  BY <2>2 DEF Visit
  <2>4. TypeOf[c] # "Passthrough" /\ (\E w \in left : w.out # Null) => IsRead(R[c].out, p)
    BY <1>2, <2>2, <2>3 DEF Left
  <2>. HIDE DEF E, left
  <2>5. DashboardInv(E, [R EXCEPT ![c] = R[c]])
    BY <1>3, <2>1, <2>3, <2>4, ReplacedKeeps
  <2>6. [R EXCEPT ![c] = R[c]] = R
    BY <1>1
  <2>. QED  BY <2>5, <2>6 DEF E
<1>4. CASE ~HasVisit(V, p)
  BY <1>1, <1>4, QuitAtIs
<1>. QED  BY <1>3, <1>4

\* A row of a checkpoint that is ready, applied and projected.
LEMMA RowProjected ==
    ASSUME NEW D \in DashboardState, NEW R \in [Place -> State(Person)], DashboardInv(D, R),
           NEW c \in Place, NEW e \in EventRow(Person),
           Ready(e, TypeOf[c], R[c]), ~Throws(R[c], e)
    PROVE  DashboardInv(Projected(D, Published(c, e)), [R EXCEPT ![c] = Applied(@, e)])
<1>. DEFINE T == Applied(R[c], e)
<1>1. OutAfter(T, R[c], e)
  <2>1. R[c] \in State(Person)
    OBVIOUS
  <2>. QED  BY <2>1, AppliedReadings DEF OutAfter
<1>2. [R EXCEPT ![c] = Applied(@, e)] = [R EXCEPT ![c] = T]
  OBVIOUS
<1>3. CASE ChangesNothing(e)
  <2>1. T = R[c]
    BY <1>3 DEF ChangesNothing, Applied, State
  <2>2. Projected(D, Published(c, e)) = D
    BY <1>3 DEF Projected, Published, ChangesNothing, EventRow, EventType, AddsIn, AddsOut,
                RemovesIn, RemovesOut, ChangesIn, ChangesOut
  <2>3. [R EXCEPT ![c] = R[c]] = R
    OBVIOUS
  <2>. QED  BY <1>2, <2>1, <2>2, <2>3
<1>. HIDE DEF T
<1>4. CASE RemovesIn(e)
  BY <1>1, <1>2, <1>4, InRemovedProjected
<1>5. CASE RemovesOut(e)
  BY <1>1, <1>2, <1>5, OutRemovedProjected
<1>6. CASE AddsIn(e) \/ AddsOut(e) \/ ChangesIn(e) \/ ChangesOut(e)
  BY <1>1, <1>2, <1>6, ReadingProjected
<1>. QED  BY <1>3, <1>4, <1>5, <1>6 DEF ChangesNothing

-----------------------------------------------------------------------------
(* The server executes a command.                                          *)

\* An event of the checkpoint or of the happening, before it is published.
ServerRow == [type : ServerEventName, person : Person, at : Nat, time : Nat]

\* What the events of an operation at c make of the dashboard.
ProjectsTo(new, D, c, events) ==
    /\ events \in Seq(EventRow(Person)) =>
          /\ NoneDoes(events) => new = D
          /\ \A e : OnlyDoes(events, e) => new = Projected(D, Published(c, e))
    /\ Len(events) = 1 => new = Projected(D, Published(c, events[1]))
    /\ Len(events) = 2 =>
          new = Projected(Projected(D, Published(c, events[1])), Published(c, events[2]))

\* Events that a replay does nothing with leave the dashboard, too, but for a quit.
LEMMA ProjectsOneByOne ==
    ASSUME NEW D \in DashboardState, NEW c \in Place, NEW events \in Seq(ServerRow)
    PROVE  /\ AllProjected(D, c, events) \in DashboardState
           /\ ProjectsTo(AllProjected(D, c, events), D, c, events)
<1>. DEFINE N == Len(events)
            T == DashboardState
            step == [n \in 1 .. N |-> [x \in T |-> Projected(x, Published(c, events[n]))]]
            Eq(f) == f = [n \in 0 .. N |->
                            IF n = 0 THEN D ELSE Projected(f[n - 1], Published(c, events[n]))]
<1>1. N \in Nat /\ \A n \in 1 .. N : events[n] \in ServerRow
  OBVIOUS
<1>2. \A n \in 1 .. N, x \in T : Projected(x, Published(c, events[n])) \in T
  <2>1. ASSUME NEW n \in 1 .. N PROVE Published(c, events[n]) \in ServerEvent
    BY <1>1 DEF ServerRow, ServerEvent, Published
  <2>. HIDE DEF N
  <2>. QED  BY <2>1, ProjectedIsState
<1>3. step \in [1 .. N -> [T -> T]]
  <2>. HIDE DEF T, N
  <2>. QED  BY <1>2
<1>4. PICK f : Recurs(f, N, T, D, step)
  <2>. HIDE DEF step, T, N
  <2>. QED  BY <1>1, <1>3, Recursion DEF T
<1>5. \A n \in 1 .. N, x \in T : step[n][x] = Projected(x, Published(c, events[n]))
  <2>. HIDE DEF T, N
  <2>. QED  OBVIOUS
<1>. HIDE DEF step
<1>6. Eq(f)
  <2>1. f \in [0 .. N -> T] /\ f[0] = D
    BY <1>4 DEF Recurs
  <2>2. ASSUME NEW n \in 1 .. N PROVE f[n] = Projected(f[n - 1], Published(c, events[n]))
    <3>1. f[n] = step[n][f[n - 1]] /\ f[n - 1] \in T
      BY <1>1, <1>4, <2>1 DEF Recurs
    <3>. QED  BY <1>5, <3>1
  <2>3. \A n \in 0 .. N : n = 0 \/ n \in 1 .. N
    BY <1>1
  <2>. HIDE DEF N, T
  <2>. QED  BY <2>1, <2>2, <2>3
<1>. DEFINE after == CHOOSE g : Eq(g)
<1>7. Eq(after)
  <2>. HIDE DEF Eq
  <2>. QED  BY <1>6
<1>8. AllProjected(D, c, events) = after[N]
  BY DEF AllProjected
<1>. HIDE DEF after
<1>9. after[0] = D /\ \A n \in 1 .. N : after[n] = Projected(after[n - 1], Published(c, events[n]))
  <2>. HIDE DEF N
  <2>1. 0 \in 0 .. N /\ \A n \in 1 .. N : n \in 0 .. N /\ n # 0
    BY <1>1
  <2>. QED  BY <1>7, <2>1
<1>10. \A n \in 0 .. N : after[n] \in T
  <2>. DEFINE W == {n \in 0 .. N : after[n] \in T}
  <2>1. 0 \in W
    BY <1>1, <1>9
  <2>2. ASSUME NEW n \in 0 .. N, n \in W, n < N
        PROVE  n + 1 \in W
    <3>1. n + 1 \in 1 .. N /\ (n + 1) - 1 = n /\ after[n] \in T
      BY <1>1, <2>2
    <3>2. after[n + 1] = Projected(after[n], Published(c, events[n + 1]))
      BY <1>9, <3>1
    <3>. HIDE DEF T, N
    <3>. QED  BY <1>2, <3>1, <3>2
  <2>. HIDE DEF W
  <2>3. \A n \in 0 .. N : n \in W
    BY <1>1, <2>1, <2>2, UpTo
  <2>. QED  BY <2>3 DEF W
<1>11. N \in 0 .. N
  BY <1>1
<1>12. ASSUME events \in Seq(EventRow(Person))
       PROVE  /\ NoneDoes(events) => after[N] = D
              /\ \A e : OnlyDoes(events, e) => after[N] = Projected(D, Published(c, e))
  <2>. DEFINE E == {n \in 1 .. N : ChangesNothing(events[n])}
  <2>1. \A n \in 1 .. N : n \in E => after[n] = after[n - 1]
    <3>. SUFFICES ASSUME NEW n \in 1 .. N, ChangesNothing(events[n]) PROVE after[n] = after[n - 1]
      OBVIOUS
    <3>1. events[n] \in EventRow(Person)
      BY <1>12
    <3>2. Projected(after[n - 1], Published(c, events[n])) = after[n - 1]
      BY <3>1 DEF Projected, Published, ChangesNothing, EventRow, EventType, AddsIn, AddsOut,
                  RemovesIn, RemovesOut, ChangesIn, ChangesOut
    <3>. QED  BY <1>9, <3>2
  <2>2. /\ (\A n \in 1 .. N : n \in E) => after[N] = after[0]
        /\ \A m \in 1 .. N : (\A n \in 1 .. N : n # m => n \in E) =>
              after[N] = after[m] /\ after[m - 1] = after[0]
    <3>. HIDE DEF E, N
    <3>. QED  BY <1>1, <2>1, OneStep
  <2>3. NoneDoes(events) => after[N] = D
    BY <1>9, <2>2 DEF NoneDoes
  <2>4. ASSUME NEW e, OnlyDoes(events, e) PROVE after[N] = Projected(D, Published(c, e))
    <3>1. PICK m \in 1 .. N : events[m] = e /\ \A n \in 1 .. N : n # m => ChangesNothing(events[n])
      BY <2>4 DEF OnlyDoes
    <3>. QED  BY <1>9, <2>2, <3>1
  <2>. QED  BY <2>3, <2>4
<1>13. N = 1 => after[N] = Projected(D, Published(c, events[1]))
  <2>. HIDE DEF N
  <2>. QED  BY <1>9
<1>14. N = 2 => after[N] = Projected(Projected(D, Published(c, events[1])), Published(c, events[2]))
  <2>. HIDE DEF N
  <2>. QED  BY <1>9
<1>. QED  BY <1>8, <1>10, <1>11, <1>12, <1>13, <1>14 DEF ProjectsTo

\* The recursion that PublishedBy is defined by.
PublishedAfter(published, c) ==
    LET events == EventsOf(c)
    IN  /\ published \in [0 .. Len(events) -> Seq(ServerEvent)]
        /\ published[0] = <<>>
        /\ \A n \in 1 .. Len(events) :
              published[n] = IF IsRouted(events[n])
                               THEN Append(published[n - 1], Published(c.place, events[n]))
                               ELSE published[n - 1]
        /\ PublishedBy(c) = published[Len(events)]

\* The recursive function of PublishedBy is one.
LEMMA PublishedRecursion ==
    ASSUME NEW c, c.place \in Place, EventsOf(c) \in Seq(ServerRow)
    PROVE  \E published : PublishedAfter(published, c)
<1>. DEFINE events == EventsOf(c)
            N == Len(events)
            T == Seq(ServerEvent)
            Next1(x, n) == IF IsRouted(events[n]) THEN Append(x, Published(c.place, events[n])) ELSE x
            step == [n \in 1 .. N |-> [x \in T |-> Next1(x, n)]]
            Eq(f) == f = [n \in 0 .. N |->
                            IF n = 0 THEN <<>>
                            ELSE IF IsRouted(events[n])
                                   THEN Append(f[n - 1], Published(c.place, events[n]))
                                   ELSE f[n - 1]]
<1>1. N \in Nat /\ \A n \in 1 .. N : events[n] \in ServerRow
  OBVIOUS
<1>2. \A n \in 1 .. N, x \in T : Next1(x, n) \in T
  <2>1. ASSUME NEW n \in 1 .. N PROVE Published(c.place, events[n]) \in ServerEvent
    BY <1>1 DEF ServerRow, ServerEvent, Published
  <2>. HIDE DEF N, events
  <2>. QED  BY <2>1
<1>3. step \in [1 .. N -> [T -> T]] /\ <<>> \in T
  <2>. HIDE DEF N, Next1
  <2>. QED  BY <1>2
<1>4. PICK f : Recurs(f, N, T, <<>>, step)
  <2>. HIDE DEF step, T, N
  <2>. QED  BY <1>1, <1>3, Recursion
<1>5. \A n \in 1 .. N, x \in T : step[n][x] = Next1(x, n)
  <2>. HIDE DEF T, N, Next1
  <2>. QED  OBVIOUS
<1>. HIDE DEF step
<1>6. Eq(f)
  <2>1. f \in [0 .. N -> T] /\ f[0] = <<>>
    BY <1>4 DEF Recurs
  <2>2. ASSUME NEW n \in 1 .. N PROVE f[n] = Next1(f[n - 1], n)
    <3>1. f[n] = step[n][f[n - 1]] /\ f[n - 1] \in T
      BY <1>1, <1>4, <2>1 DEF Recurs
    <3>. QED  BY <1>5, <3>1
  <2>3. \A n \in 0 .. N : n = 0 \/ n \in 1 .. N
    BY <1>1
  <2>. HIDE DEF N, T, events
  <2>. QED  BY <2>1, <2>2, <2>3
<1>. DEFINE published == CHOOSE g : Eq(g)
<1>7. Eq(published)
  <2>. HIDE DEF Eq
  <2>. QED  BY <1>6
<1>8. PublishedBy(c) = published[N]
  BY DEF PublishedBy
<1>. HIDE DEF published
<1>9. published[0] = <<>> /\ \A n \in 1 .. N : published[n] = Next1(published[n - 1], n)
  <2>. HIDE DEF N, events
  <2>1. 0 \in 0 .. N /\ \A n \in 1 .. N : n \in 0 .. N /\ n # 0
    BY <1>1
  <2>. QED  BY <1>7, <2>1
<1>. DEFINE W == {n \in 0 .. N : published[n] \in T}
<1>10. 0 \in W
  <2>1. 0 \in 0 .. N
    BY <1>1
  <2>. HIDE DEF T, N
  <2>. QED  BY <1>3, <1>9, <2>1
<1>11. ASSUME NEW n \in 0 .. N, n \in W, n < N
       PROVE  n + 1 \in W
  <2>1. n + 1 \in 1 .. N /\ (n + 1) - 1 = n /\ published[n] \in T
    BY <1>1, <1>11
  <2>2. published[n + 1] = Next1(published[n], n + 1)
    BY <1>9, <2>1
  <2>. HIDE DEF T, N, Next1
  <2>. QED  BY <1>2, <2>1, <2>2
<1>12. \A n \in 0 .. N : published[n] \in T
  <2>. HIDE DEF W
  <2>1. \A n \in 0 .. N : n \in W
    BY <1>1, <1>10, <1>11, UpTo
  <2>. QED  BY <2>1 DEF W
<1>13. published \in [0 .. N -> T]
  <2>1. published = [n \in 0 .. N |-> published[n]]
    <3>. HIDE DEF N, events
    <3>. QED  BY <1>7
  <2>. HIDE DEF T, N
  <2>. QED  BY <1>12, <2>1
<1>14. PublishedAfter(published, c)
  BY <1>8, <1>9, <1>13 DEF PublishedAfter
<1>. QED  BY <1>14

\* What goes out to the pages are events.
LEMMA PublishedIsEvents ==
    ASSUME NEW c, c.place \in Place, EventsOf(c) \in Seq(ServerRow)
    PROVE  PublishedBy(c) \in Seq(ServerEvent)
<1>. DEFINE N == Len(EventsOf(c))
<1>1. PICK published : PublishedAfter(published, c)
  BY PublishedRecursion
<1>2. published \in [0 .. N -> Seq(ServerEvent)] /\ PublishedBy(c) = published[N]
  BY <1>1 DEF PublishedAfter
<1>3. N \in 0 .. N
  OBVIOUS
<1>. HIDE DEF N
<1>. QED  BY <1>2, <1>3

\* Times of a passthrough are changed by no scan and no removal.
NeverPassthroughTime(events) ==
    \A n \in 1 .. Len(events) : events[n].type # "AttendeePassthroughScanTimeChanged"

\* AddScan and RemoveScan make no such event.
LEMMA ScanKeepsTimes ==
    ASSUME NEW P, NEW type, NEW S, NEW c, IsInfo(c, P)
    PROVE  /\ NeverPassthroughTime(AddScan(type, S, c))
           /\ NeverPassthroughTime(RemoveScan(type, S, c))
<1>. DEFINE kp == "AttendeePassthroughScanTimeChanged"
<1>1. \A k : Event(k, c).type = k
  BY DEF Event
<1>2. ScanEvent(type, S, c) # kp
  BY ScanEventIs
<1>3. ASSUME NEW f, HasRow(AddScan(type, S, c), f) PROVE f.type # kp
  <2>. DEFINE events == AddScan(type, S, c)
  <2>1. IsInfo(c, P) /\ events = AddScan(type, S, c) /\ events \in Seq(EventRow(P))
    BY AddScanRows
  <2>. HIDE DEF events
  <2>2. \A g : HasRow(events, g) <=>
              \/ /\ type = "Start" /\ S.out = <<>>
                 /\ g = Event("FirstAttendeeForHappeningScanned", c)
              \/ g = Event(ScanEvent(type, S, c), c)
              \/ /\ type = "Start" /\ ScanEvent(type, S, c) = "AttendeeScanOut"
                 /\ g = Event("AttendeeScannedAtStartCheckpoint", c)
              \/ /\ type = "Finish" /\ ScanEvent(type, S, c) = "AttendeeScanIn"
                 /\ g = Event("AttendeeScannedAtFinishCheckpoint", c)
    BY <2>1, AddScanRows
  <2>3. \/ f = Event("FirstAttendeeForHappeningScanned", c)
        \/ f = Event(ScanEvent(type, S, c), c)
        \/ f = Event("AttendeeScannedAtStartCheckpoint", c)
        \/ f = Event("AttendeeScannedAtFinishCheckpoint", c)
    BY <1>3, <2>1, <2>2
  <2>. QED  BY <1>1, <1>2, <2>3
<1>4. ASSUME NEW f, HasRow(RemoveScan(type, S, c), f) PROVE f.type # kp
  <2>1. f = Event("AttendeeScanInRemoved", c) \/ f = Event("AttendeeScanOutRemoved", c)
    BY <1>4, RemoveScanRows
  <2>. QED  BY <1>1, <2>1
<1>5. \A events : \A n \in 1 .. Len(events) : HasRow(events, events[n])
  BY DEF HasRow
<1>. QED  BY <1>3, <1>4, <1>5 DEF NeverPassthroughTime

\* What a command does at its checkpoint: never a change of a passthrough's time,
\* for no command of any page asks for that.
DoesAt(events, type, S, c) ==
    /\ Does(events, Person, type, S, c)
    /\ NeverPassthroughTime(events)

\* The events of a checkpoint are what it does.
LEMMA CheckpointDoes ==
    ASSUME NEW c \in AnyCommand, readings \in [Place -> State(Person)]
    PROVE  /\ IsInfo(c, Person) /\ c.place \in Place /\ c.time # Null
           /\ DoesAt(CheckpointEvents(c), TypeOf[c.place], readings[c.place], c)
<1>. DEFINE type == TypeOf[c.place]
            S == readings[c.place]
<1>1. /\ IsInfo(c, Person) /\ c.place \in Place /\ c.time # Null
      /\ S \in State(Person)
  BY DEF AnyCommand, IsInfo, Null
<1>2. \A k : Event(k, c).type = k
  BY DEF Event
<1>3. Does(<<>>, Person, type, S, c) /\ NeverPassthroughTime(<<>>)
  BY DEF Does, NoneDoes, NeverPassthroughTime
<1>4. Does(AddScan(type, S, c), Person, type, S, c) /\ NeverPassthroughTime(AddScan(type, S, c))
  BY <1>1, AddScanDone, ScanKeepsTimes
<1>5. /\ Does(RemoveScan(type, S, c), Person, type, S, c)
      /\ NeverPassthroughTime(RemoveScan(type, S, c))
  BY <1>1, RemoveScanDone, ScanKeepsTimes
<1>6. ASSUME NEW kind \in {"In", "Out"}
      PROVE  /\ Does(ChangeScanTime(type, S, c, kind), Person, type, S, c)
             /\ NeverPassthroughTime(ChangeScanTime(type, S, c, kind))
  <2>1. Does(ChangeScanTime(type, S, c, kind), Person, type, S, c)
    BY <1>1, ChangeScanTimeDone
  <2>. HIDE DEF S, type
  <2>2. NeverPassthroughTime(ChangeScanTime(type, S, c, kind))
    BY <1>2 DEF ChangeScanTime, NeverPassthroughTime
  <2>. QED  BY <2>1, <2>2
<1>. HIDE DEF S, type
<1>7. /\ Does(CheckpointEvents(c), Person, type, S, c)
      /\ NeverPassthroughTime(CheckpointEvents(c))
  <2>1. \/ CheckpointEvents(c) \in {<<>>, AddScan(type, S, c), RemoveScan(type, S, c)}
        \/ c.kind \in {"In", "Out"} /\ CheckpointEvents(c) = ChangeScanTime(type, S, c, c.kind)
    BY DEF CheckpointEvents, S, type
  <2>. QED  BY <1>3, <1>4, <1>5, <1>6, <2>1
<1>. QED  BY <1>1, <1>7 DEF DoesAt, S, type
\* A command does something at the checkpoint, or to the happening only.
LEMMA EventsOfIs ==
    ASSUME NEW c \in AnyCommand, readings \in [Place -> State(Person)]
    PROVE  /\ EventsOf(c) \in Seq(ServerRow)
           /\ \/ EventsOf(c) = CheckpointEvents(c)
              \/ /\ CheckpointEvents(c) = <<>>
                 /\ \E k \in {"AttendeeQuit", "AttendeeQuitRemoved"} :
                       EventsOf(c) = <<Event(k, c)>>
<1>. DEFINE s == CheckpointEvents(c)
            u == HappeningEvents(c)
<1>1. s \in Seq(EventRow(Person)) /\ IsInfo(c, Person)
  BY CheckpointDoes DEF DoesAt, Does
<1>2. s \in Seq(ServerRow)
  <2>1. \A r \in EventRow(Person) : r \in ServerRow
    BY DEF EventRow, ServerRow, ServerEventName
  <2>. HIDE DEF s
  <2>. QED  BY <1>1, <2>1
<1>3. \A k \in {"AttendeeQuit", "AttendeeQuitRemoved"} : Event(k, c) \in ServerRow
  BY <1>1 DEF IsInfo, Event, ServerRow, ServerEventName
<1>4. CASE u = <<>>
  <2>1. EventsOf(c) = s
    <3>. HIDE DEF s, u
    <3>1. s \o <<>> = s
      BY <1>2
    <3>. QED  BY <1>4, <3>1 DEF EventsOf, s, u
  <2>. QED  BY <1>2, <2>1
<1>5. CASE c.kind \in {"Quit", "RemoveQuit"}
  <2>1. s = <<>>
    BY <1>5 DEF CheckpointEvents
  <2>2. u = <<>> \/ \E k \in {"AttendeeQuit", "AttendeeQuitRemoved"} : u = <<Event(k, c)>>
    BY <1>5 DEF HappeningEvents
  <2>. HIDE DEF s, u
  <2>3. ASSUME NEW k \in {"AttendeeQuit", "AttendeeQuitRemoved"}, u = <<Event(k, c)>>
        PROVE  EventsOf(c) = <<Event(k, c)>> /\ EventsOf(c) \in Seq(ServerRow)
    <3>. DEFINE e == Event(k, c)
    <3>1. e \in ServerRow
      BY <1>3
    <3>. HIDE DEF e
    <3>2. <<>> \o <<e>> = <<e>> /\ <<e>> \in Seq(ServerRow)
      BY <3>1
    <3>3. EventsOf(c) = <<>> \o <<e>>
      BY <2>1, <2>3 DEF EventsOf, s, u, e
    <3>. QED  BY <3>2, <3>3 DEF e
  <2>. QED  BY <1>4, <2>1, <2>2, <2>3 DEF s
<1>6. CASE c.kind \notin {"Quit", "RemoveQuit"}
  <2>1. u = <<>>
    BY <1>6 DEF HappeningEvents
  <2>. QED  BY <1>4, <2>1
<1>. QED  BY <1>5, <1>6

\* The dashboard goes on agreeing with the readings.
LEMMA ExecuteKeeps ==
    ASSUME TypeInv, ServerInv, NEW c \in AnyCommand, Execute(c)
    PROVE  /\ readings' \in [Place -> State(Person)]
           /\ dashboard' \in DashboardState
           /\ ServerInv'
<1>. DEFINE b == c.place
            S == readings[b]
            s == CheckpointEvents(c)
            events == EventsOf(c)
            D == dashboard
            R == readings
            new == AllApplied(S, s)
<1>1. /\ R \in [Place -> State(Person)] /\ D \in DashboardState /\ DashboardInv(D, R)
      /\ b \in Place /\ S \in State(Person) /\ IsInfo(c, Person) /\ c.time # Null
      /\ DoesAt(s, TypeOf[b], S, c)
  BY CheckpointDoes DEF TypeInv, ServerInv
<1>2. /\ events \in Seq(ServerRow) /\ s \in Seq(EventRow(Person))
      /\ \/ events = s
         \/ /\ s = <<>>
            /\ \E k \in {"AttendeeQuit", "AttendeeQuitRemoved"} : events = <<Event(k, c)>>
  BY <1>1, EventsOfIs DEF DoesAt, Does
<1>3. readings' = [R EXCEPT ![b] = new] /\ dashboard' = AllProjected(D, b, events)
  BY DEF Execute
<1>4. new \in State(Person) /\ AppliesTo(new, S, s)
  BY <1>1, <1>2, AppliesOneByOne
<1>5. dashboard' \in DashboardState /\ ProjectsTo(dashboard', D, b, events)
  BY <1>1, <1>2, <1>3, ProjectsOneByOne
<1>. HIDE DEF b, S, s, events, D, R, new
<1>6. readings' \in [Place -> State(Person)]
  BY <1>1, <1>3, <1>4
<1>7. [R EXCEPT ![b] = S] = R
  BY <1>1 DEF S, R
<1>8. ASSUME events = s, NoneDoes(s) PROVE DashboardInv(dashboard', readings')
  <2>1. new = S /\ dashboard' = D
    BY <1>2, <1>4, <1>5, <1>8 DEF AppliesTo, ProjectsTo
  <2>. QED  BY <1>1, <1>3, <1>7, <2>1
<1>9. ASSUME events = s, NEW k \in EventType, Done(k, TypeOf[b], S, c), OnlyDoes(s, Event(k, c)),
             ~ChangesNothing(Event(k, c))
      PROVE  DashboardInv(dashboard', readings')
  <2>. DEFINE e == Event(k, c)
  <2>1. new = Applied(S, e) /\ dashboard' = Projected(D, Published(b, e))
    BY <1>2, <1>4, <1>5, <1>9 DEF AppliesTo, ProjectsTo
  <2>2. e \in EventRow(Person)
    BY <1>1, EventIsRow
  <2>3. k # "AttendeePassthroughScanTimeChanged"
    <3>1. e.type = k
      BY DEF Event
    <3>2. \E n \in 1 .. Len(s) : s[n] = e
      BY <1>9 DEF OnlyDoes
    <3>. QED  BY <1>1, <3>1, <3>2 DEF DoesAt, NeverPassthroughTime
  <2>4. Ready(e, TypeOf[b], S) /\ ~Throws(S, e)
    BY <1>1, <1>9, <2>3 DEF Done, Ready, Throws, ChangesIn, ChangesOut, Event
  <2>. HIDE DEF e
  <2>5. DashboardInv(Projected(D, Published(b, e)), [R EXCEPT ![b] = Applied(@, e)])
    BY <1>1, <2>2, <2>4, RowProjected DEF S, R
  <2>6. [R EXCEPT ![b] = Applied(@, e)] = [R EXCEPT ![b] = Applied(S, e)]
    BY <1>1 DEF S, R
  <2>. QED  BY <1>3, <2>1, <2>5, <2>6
<1>10. ASSUME events = s, TypeOf[b] = "Passthrough", Len(s) = 2,
              s[1] = Event("AttendeeScanInRemoved", c), s[2] = Event("AttendeeScanOutRemoved", c)
       PROVE  DashboardInv(dashboard', readings')
  <2>. DEFINE ei == Event("AttendeeScanInRemoved", c)
              eo == Event("AttendeeScanOutRemoved", c)
              D1 == Projected(D, Published(b, ei))
              R1 == [R EXCEPT ![b] = Applied(@, ei)]
  <2>1. /\ new = Applied(Applied(S, ei), eo)
        /\ dashboard' = Projected(D1, Published(b, eo))
    BY <1>4, <1>5, <1>10 DEF AppliesTo, ProjectsTo
  <2>2. ei \in EventRow(Person) /\ eo \in EventRow(Person)
    <3>1. "AttendeeScanInRemoved" \in EventType /\ "AttendeeScanOutRemoved" \in EventType
      BY DEF EventType
    <3>. QED  BY <1>1, <3>1, EventIsRow
  <2>3. /\ \A T : Ready(ei, TypeOf[b], T) /\ Ready(eo, TypeOf[b], T)
        /\ \A T : ~Throws(T, ei) /\ ~Throws(T, eo)
    BY <1>1, <1>10 DEF Ready, Throws, ChangesIn, ChangesOut, Event
  <2>4. Published(b, ei) \in ServerEvent
    BY <1>1, <2>2 DEF EventRow, Published, ServerEvent, ServerEventName
  <2>. HIDE DEF ei, eo
  <2>5. D1 \in DashboardState
    BY <1>1, <2>4, ProjectedIsState
  <2>6. DashboardInv(D1, R1)
    BY <1>1, <2>2, <2>3, RowProjected
  <2>7. Applied(S, ei) \in State(Person)
    BY <1>1, <2>2, AppliedIsState
  <2>8. R1 = [R EXCEPT ![b] = Applied(S, ei)]
    BY <1>1 DEF S, R
  <2>9. R1 \in [Place -> State(Person)] /\ R1[b] = Applied(S, ei)
    BY <1>1, <2>7, <2>8
  <2>10. [R1 EXCEPT ![b] = Applied(@, eo)] = [R EXCEPT ![b] = new]
    <3>1. [R1 EXCEPT ![b] = Applied(@, eo)] = [R1 EXCEPT ![b] = new]
      BY <2>1, <2>9
    <3>. QED  BY <1>1, <2>8, <3>1
  <2>. HIDE DEF D1, R1
  <2>11. DashboardInv(Projected(D1, Published(b, eo)), [R1 EXCEPT ![b] = Applied(@, eo)])
    BY <1>1, <2>2, <2>3, <2>5, <2>6, <2>9, RowProjected
  <2>. QED  BY <1>3, <2>1, <2>10, <2>11
<1>11. ASSUME s = <<>>, NEW k \in {"AttendeeQuit", "AttendeeQuitRemoved"},
              events = <<Event(k, c)>>
       PROVE  DashboardInv(dashboard', readings')
  <2>. DEFINE e == Event(k, c)
  <2>1. NoneDoes(s)
    BY <1>11 DEF NoneDoes
  <2>2. new = S /\ readings' = R
    BY <1>3, <1>4, <1>7, <2>1 DEF AppliesTo
  <2>3. dashboard' = Projected(D, Published(b, e))
    <3>1. Len(events) = 1 /\ events[1] = e
      <4>. HIDE DEF e
      <4>. QED  BY <1>11 DEF e
    <3>. QED  BY <1>5, <3>1 DEF ProjectsTo
  <2>4. Published(b, e) \in ServerEvent /\ Published(b, e).name = k
    BY <1>1 DEF Published, Event, ServerEvent, ServerEventName, IsInfo
  <2>5. CASE k = "AttendeeQuit"
    BY <1>1, <2>2, <2>3, <2>4, <2>5, QuitProjected
  <2>6. CASE k = "AttendeeQuitRemoved"
    <3>1. Projected(D, Published(b, e)) = D
      BY <2>4, <2>6 DEF Projected
    <3>. QED  BY <1>1, <2>2, <2>3, <3>1
  <2>. QED  BY <2>5, <2>6
<1>12. DashboardInv(dashboard', readings')
  BY <1>1, <1>2, <1>8, <1>9, <1>10, <1>11 DEF DoesAt, Does
<1>. QED  BY <1>5, <1>6, <1>12 DEF ServerInv

-----------------------------------------------------------------------------
(* The page.                                                               *)

\* What the page makes of the data.
LEMMA DataInitIs ==
    ASSUME NEW D \in DashboardState
    PROVE  DataInit(D) \in ViewState
<1>1. /\ \A c \in Place : D.visits[c] \in SUBSET Visit
      /\ \A c \in Place : D.expected[c] \in SUBSET Person
  BY DEF DashboardState
<1>2. ASSUME NEW c \in Place PROVE MapVisits(D.visits, c) \in SUBSET ViewVisit
  <2>1. ASSUME NEW v \in D.visits[c]
        PROVE  PageVisit(v.person, Parsed(v.in), Parsed(v.out), v.quit,
                         IsQuitVisit(D.visits, c, v.person)) \in ViewVisit
    <3>1. v.person \in Person /\ v.in \in Nat /\ v.out \in Nat /\ v.quit \in BOOLEAN
      BY <1>1 DEF Visit
    <3>2. IsQuitVisit(D.visits, c, v.person) \in BOOLEAN
      BY DEF IsQuitVisit
    <3>3. Parsed(v.in) \in Int /\ Parsed(v.out) \in Int
      BY <3>1 DEF Parsed
    <3>. QED  BY <3>1, <3>2, <3>3 DEF PageVisit, ViewVisit
  <2>. QED  BY <2>1 DEF MapVisits
<1>3. \A c \in Place : MapWaitingFor(D.expected, c) \in SUBSET Person
  BY DEF MapWaitingFor
<1>4. HasQuit(D.visits) \in SUBSET Person
  BY DEF HasQuit
<1>. QED  BY <1>2, <1>3, <1>4 DEF DataInit, ViewState

\* What the page makes of an event.
LEMMA ViewAppliedIs ==
    ASSUME NEW V \in ViewState, NEW e \in ServerEvent
    PROVE  ViewApplied(V, e) \in ViewState
<1>. DEFINE c == e.place
            X == V.visits[c]
<1>1. /\ V.visits \in [Place -> SUBSET ViewVisit] /\ V.waitingFor \in [Place -> SUBSET Person]
      /\ V.hasQuit \in SUBSET Person
      /\ c \in Place /\ e.person \in Person /\ e.time \in Nat
      /\ X \in SUBSET ViewVisit /\ V.waitingFor[c] \in SUBSET Person
  BY DEF ViewState, ServerEvent
<1>2. ScanTimestamp(e) \in Int /\ Parsed(ScanTimestamp(e)) \in Int
  BY <1>1 DEF ScanTimestamp, Parsed, NaN
<1>3. ASSUME NEW W \in SUBSET ViewVisit
      PROVE  [V EXCEPT !.visits[c] = W] \in ViewState
  BY <1>1, <1>3 DEF ViewState
<1>4. ASSUME NEW W \in SUBSET ViewVisit, NEW Q \in SUBSET Person
      PROVE  [V EXCEPT !.visits[c] = W, !.waitingFor[c] = Q] \in ViewState
  BY <1>1, <1>4 DEF ViewState
<1>5. ApplyScanFromServer(V, e) \in ViewState
  <2>1. ASSUME NEW v \in X PROVE VisitApplied(v, e) \in ViewVisit
    <3>1. v \in ViewVisit
      BY <1>1
    <3>. QED  BY <1>2, <3>1 DEF VisitApplied, ViewVisit
  <2>2. NewPageVisit(e) \in ViewVisit
    BY <1>1, <1>2 DEF NewPageVisit, PageVisit, ViewVisit
  <2>. DEFINE W == {IF v.person = e.person THEN VisitApplied(v, e) ELSE v : v \in X}
              U == X \cup {NewPageVisit(e)}
              Q == V.waitingFor[c] \ {e.person}
  <2>3. W \in SUBSET ViewVisit
    BY <1>1, <2>1
  <2>4. U \in SUBSET ViewVisit /\ Q \in SUBSET Person
    BY <1>1, <2>2
  <2>5. ApplyScanFromServer(V, e) = IF HasVisit(X, e.person)
                                      THEN [V EXCEPT !.visits[c] = W]
                                      ELSE [V EXCEPT !.visits[c] = U, !.waitingFor[c] = Q]
    BY <1>1 DEF ApplyScanFromServer, ViewState
  <2>. HIDE DEF W, U, Q
  <2>. QED  BY <1>3, <1>4, <2>3, <2>4, <2>5
<1>6. ApplyRemoveScanFromServer(V, e) \in ViewState
  <2>1. ASSUME NEW v \in X PROVE VisitLeft(v, e) \in SUBSET ViewVisit
    <3>1. v \in ViewVisit
      BY <1>1
    <3>2. \A b \in BOOLEAN : [v EXCEPT !.quit = b] \in ViewVisit
      BY <3>1 DEF ViewVisit
    <3>3. \A t \in Int : [v EXCEPT !.out = t] \in ViewVisit
      BY <3>1 DEF ViewVisit
    <3>4. [v EXCEPT !.quit = FALSE] \in ViewVisit
      BY <3>2
    <3>5. [v EXCEPT !.out = 0] \in ViewVisit
      BY <3>3
    <3>6. \/ VisitLeft(v, e) = {}
          \/ VisitLeft(v, e) = {[v EXCEPT !.quit = FALSE]}
          \/ VisitLeft(v, e) = {[v EXCEPT !.out = 0]}
      BY DEF VisitLeft
    <3>. QED  BY <3>4, <3>5, <3>6
  <2>. DEFINE W == UNION {IF v.person = e.person THEN VisitLeft(v, e) ELSE {v} : v \in X}
  <2>2. W \in SUBSET ViewVisit
    BY <1>1, <2>1
  <2>3. ApplyRemoveScanFromServer(V, e) = [V EXCEPT !.visits[c] = W]
    BY <1>1 DEF ApplyRemoveScanFromServer, ViewState
  <2>. HIDE DEF W
  <2>. QED  BY <1>3, <2>2, <2>3
<1>. QED  BY <1>5, <1>6 DEF ViewApplied

\* The beginning of a minute is a time.
LEMMA TypedTime ==
    ASSUME NEW n \in Nat
    PROVE  /\ FormatTime(n + 1) \in Nat
           /\ \A minute \in Nat : ToServerTimeFromInputDate(minute) \in Nat \ {0}
<1>1. Minute \in Nat /\ Minute > 0
  BY BoundsAssumption
<1>2. (n + 1) - 1 = n
  OBVIOUS
<1>3. n \div Minute \in Nat
  BY <1>1
<1>4. \A k \in Nat : k * Minute + 1 \in Nat \ {0}
  BY <1>1
<1>. QED  BY <1>2, <1>3, <1>4 DEF ToServerTimeFromInputDate, FormatTime

\* What is sent is a command.
LEMMA SendKeeps ==
    ASSUME TypeInv, NEW kind, NEW p \in Person, NEW c \in Place, NEW time \in Nat \ {0},
           kind \in OthersKinds \cup {"Scan", "Unknown", "In", "Out", "Quit", "RemoveQuit", "RemoveScan"},
           SendTimed(kind, p, c, time)
    PROVE  TypeInv' /\ UNCHANGED <<serverVars, pageVars, past>>
<1>1. now' \in Nat /\ now' = now + 1
  BY DEF TypeInv, SendTimed
<1>. DEFINE new == [Command(kind, p, c, now') EXCEPT !.time = time]
<1>2. new \in AnyCommand
  BY <1>1 DEF Command, AnyCommand
<1>3. sent' = sent \cup {new}
  BY DEF SendTimed
<1>. HIDE DEF new
<1>4. \A d \in sent' : d \in AnyCommand
  BY <1>2, <1>3 DEF TypeInv
<1>5. UNCHANGED <<serverVars, pageVars, past>>
  BY DEF SendTimed
<1>. QED  BY <1>1, <1>4, <1>5 DEF TypeInv, serverVars, pageVars

\* Whoever gives a command sends it.
LEMMA GivesKeeps ==
    ASSUME TypeInv, OthersGive \/ UserGives
    PROVE  TypeInv' /\ UNCHANGED <<serverVars, pageVars, past>>
<1>. DEFINE Kinds == OthersKinds \cup {"Scan", "Unknown", "In", "Out", "Quit", "RemoveQuit",
                                      "RemoveScan"}
            Sends == \E kind \in Kinds, p \in Person, c \in Place, time \in Nat \ {0} :
                        SendTimed(kind, p, c, time)
<1>1. now \in Nat /\ now + 1 \in Nat \ {0}
  BY DEF TypeInv
<1>2. /\ \A c \in Place : \A v \in view.visits[c] : v.person \in Person
      /\ \A c \in Place : \A p \in view.waitingFor[c] : p \in Person
  BY DEF TypeInv, ViewState, ViewVisit
<1>3. ASSUME NEW kind \in Kinds, NEW p \in Person, NEW c \in Place, Send(kind, p, c)
      PROVE  Sends
  BY <1>1, <1>3 DEF Send
<1>9. ASSUME NEW kind \in Kinds, NEW p \in Person, NEW c \in Place, NEW minute \in Nat,
             SendAtMinute(kind, p, c, minute)
      PROVE  Sends
  BY <1>1, <1>9, TypedTime DEF SendAtMinute
<1>. HIDE DEF Sends
<1>4. ASSUME NEW kind \in Kinds, NEW p \in Person, NEW c \in Place, SendTyped(kind, p, c)
      PROVE  Sends
  BY <1>1, <1>4, <1>9, TypedTime DEF SendTyped
<1>5. ASSUME OthersGive PROVE Sends
  BY <1>3, <1>5 DEF OthersGive
<1>6. ASSUME NEW c \in Place, NEW v \in view.visits[c],
             \/ AddManualScanOut(c, v) \/ GiveChangeScanTime(c, v) \/ AddQuit(c, v)
             \/ RemoveQuit(c, v) \/ GiveRemoveScan(c, v)
      PROVE  Sends
  <2>1. v.person \in Person
    BY <1>2
  <2>2. ChangedTime(v) \subseteq {"Unknown", "In", "Out"}
    BY DEF ChangedTime
  <2>3. CASE AddManualScanOut(c, v)
    BY <1>4, <2>1, <2>3 DEF AddManualScanOut
  <2>4. CASE GiveChangeScanTime(c, v)
    <3>1. PICK kind \in ChangedTime(v), minute \in 0 .. FormatTime(now + 1) :
            SendAtMinute(kind, v.person, c, minute)
      BY <2>4 DEF GiveChangeScanTime
    <3>2. kind \in Kinds /\ minute \in Nat
      BY <1>1, <2>2, <3>1, TypedTime
    <3>. QED  BY <1>9, <2>1, <3>1, <3>2
  <2>5. CASE AddQuit(c, v)
    BY <1>4, <2>1, <2>5 DEF AddQuit
  <2>6. CASE RemoveQuit(c, v)
    BY <1>3, <2>1, <2>6 DEF RemoveQuit
  <2>7. CASE GiveRemoveScan(c, v)
    BY <1>3, <2>1, <2>7 DEF GiveRemoveScan
  <2>. QED  BY <1>6, <2>3, <2>4, <2>5, <2>6, <2>7
<1>7. ASSUME UserGives PROVE Sends
  <2>1. PICK c \in Place :
          \/ AddManualScanIn(c)
          \/ \E v \in view.visits[c] :
                \/ AddManualScanOut(c, v) \/ GiveChangeScanTime(c, v) \/ AddQuit(c, v)
                \/ RemoveQuit(c, v) \/ GiveRemoveScan(c, v)
    BY <1>7 DEF UserGives
  <2>2. CASE AddManualScanIn(c)
    <3>1. PICK p \in view.waitingFor[c] : SendTyped("Scan", p, c)
      BY <2>2 DEF AddManualScanIn
    <3>. QED  BY <1>2, <1>4, <3>1
  <2>. QED  BY <1>6, <2>1, <2>2
<1>8. Sends
  BY <1>5, <1>7
<1>. QED  BY <1>8, SendKeeps DEF Sends

\* Data of nobody, and a page without data.
LEMMA EmptyIs == Empty \in DashboardState /\ Blanked \in ViewState
<1>1. Empty \in DashboardState
  BY DEF Empty, DashboardState
<1>2. Blanked \in ViewState
  BY DEF Blanked, ViewState
<1>. QED  BY <1>1, <1>2

\* What the server executes goes out, and leaves everything in shape.
LEMMA HandleKeeps ==
    ASSUME TypeInv, ServerInv, NEW c \in sent, Handle(c)
    PROVE  TypeInv' /\ ServerInv' /\ PublishedBy(c) \in Seq(ServerEvent)
<1>1. c \in AnyCommand /\ readings \in [Place -> State(Person)] /\ c.place \in Place
  BY DEF TypeInv, AnyCommand
<1>2. PublishedBy(c) \in Seq(ServerEvent)
  BY <1>1, EventsOfIs, PublishedIsEvents
<1>3. /\ readings' \in [Place -> State(Person)]
      /\ dashboard' \in DashboardState
      /\ ServerInv'
  BY <1>1, ExecuteKeeps DEF Handle
<1>4. wire' \in Seq(ServerEvent)
  <2>1. wire \in Seq(ServerEvent) /\ wire \o PublishedBy(c) \in Seq(ServerEvent)
    BY <1>2 DEF TypeInv
  <2>. QED  BY <2>1 DEF Handle
<1>5. \A d \in sent' : d \in AnyCommand
  BY DEF Handle, TypeInv
<1>. QED  BY <1>2, <1>3, <1>4, <1>5 DEF TypeInv, Handle

\* At the start nobody is expected.
LEMMA InitIInv == Init => IInv
<1>. SUFFICES ASSUME Init PROVE IInv
  OBVIOUS
<1>1. Blank \in State(Person)
  BY DEF Blank, State
<1>2. readings \in [Place -> State(Person)] /\ dashboard = Empty
  BY <1>1 DEF Init, ServerInit
<1>3. TypeInv
  BY <1>2, EmptyIs DEF Init, TypeInv
<1>4. \A c \in Place : dashboard.visits[c] = {} /\ dashboard.expected[c] = {}
  BY <1>2 DEF Empty
<1>5. ServerInv
  BY <1>4 DEF ServerInv, DashboardInv, OneVisit, OneEach, OutIsRead, HasLeft
<1>. QED  BY <1>3, <1>5 DEF IInv

\* Every step leaves everything in shape.
LEMMA NextIInv == IInv /\ [Next]_vars => IInv'
<1>. SUFFICES ASSUME IInv, [Next]_vars PROVE IInv'
  OBVIOUS
<1>1. TypeInv /\ ServerInv
  BY DEF IInv
<1>2. ASSUME UNCHANGED <<readings, dashboard>> PROVE ServerInv'
  BY <1>1, <1>2 DEF ServerInv, DashboardInv, OneVisit, OutIsRead, HasLeft
<1>3. CASE OthersGive \/ UserGives
  BY <1>1, <1>2, <1>3, GivesKeeps DEF IInv, serverVars
<1>4. ASSUME NEW c \in sent, Handle(c) PROVE IInv'
  BY <1>1, <1>4, HandleKeeps DEF IInv
<1>5. CASE Answer
  <2>1. TypeInv'
    BY <1>1, <1>5 DEF TypeInv, Answer, serverVars
  <2>. QED  BY <1>2, <1>5, <2>1 DEF IInv, Answer, serverVars
<1>6. CASE Load
  <2>1. TypeInv'
    BY <1>1, <1>6, DataInitIs, EmptyIs DEF TypeInv, Load, serverVars
  <2>. QED  BY <1>2, <1>6, <2>1 DEF IInv, Load, serverVars
<1>7. CASE Fail
  <2>1. TypeInv'
    BY <1>1, <1>7, EmptyIs DEF TypeInv, Fail, serverVars
  <2>. QED  BY <1>2, <1>7, <2>1 DEF IInv, Fail, serverVars
<1>8. CASE Connect
  <2>1. TypeInv'
    BY <1>1, <1>8 DEF TypeInv, Connect, serverVars
  <2>. QED  BY <1>2, <1>8, <2>1 DEF IInv, Connect, serverVars
<1>9. CASE Disconnect
  <2>1. TypeInv'
    BY <1>1, <1>9 DEF TypeInv, Disconnect, serverVars
  <2>. QED  BY <1>2, <1>9, <2>1 DEF IInv, Disconnect, serverVars
<1>10. CASE Deliver
  <2>1. wire \in Seq(ServerEvent) /\ wire # <<>>
    BY <1>1, <1>10 DEF TypeInv, Deliver
  <2>2. Head(wire) \in ServerEvent /\ wire' \in Seq(ServerEvent)
    BY <1>10, <2>1 DEF Deliver
  <2>3. view' = view \/ view' = ViewApplied(view, Head(wire))
    BY <1>10 DEF Deliver
  <2>4. view' \in ViewState
    BY <1>1, <2>2, <2>3, ViewAppliedIs DEF TypeInv
  <2>5. TypeInv'
    BY <1>1, <1>10, <2>2, <2>4 DEF TypeInv, Deliver, serverVars
  <2>. QED  BY <1>2, <1>10, <2>5 DEF IInv, Deliver, serverVars
<1>11. CASE UNCHANGED vars
  <2>1. TypeInv'
    BY <1>1, <1>11 DEF TypeInv, vars, serverVars, pageVars
  <2>. QED  BY <1>2, <1>11, <2>1 DEF IInv, vars, serverVars
<1>. QED  BY <1>3, <1>4, <1>5, <1>6, <1>7, <1>8, <1>9, <1>10, <1>11 DEF Next

\* In every state the dashboard agrees with the readings.
LEMMA Invariant == Spec => []IInv
<1>. QED  BY InitIInv, NextIInv, PTL DEF Spec

\* Whoever is expected at a checkpoint has left the one before, unless that is a
\* passthrough: for any route, any number of people, commands and pages.
THEOREM WhoIsExpectedHasLeft == Spec => []ExpectedHasLeft
<1>1. IInv => ExpectedHasLeft
  BY DEF IInv, ServerInv, DashboardInv, HasLeft, ExpectedHasLeft
<1>. QED  BY <1>1, Invariant, PTL

-----------------------------------------------------------------------------
(* What stops the topic.                                                   *)

\* The page cannot tell: that a quit was taken back is known when it goes out.
LEMMA PublishedIsPast ==
    ASSUME NEW published
    PROVE  \A i \in DOMAIN published :
              published[i].name = "AttendeeQuitRemoved" => "quitBack" \in PastOf(published)
<1>. SUFFICES ASSUME NEW i \in DOMAIN published, published[i].name = "AttendeeQuitRemoved"
              PROVE  "quitBack" \in PastOf(published)
  OBVIOUS
<1>1. "quitBack" \in Happened
  BY DEF Happened
<1>2. published[i] \in {published[j] : j \in DOMAIN published}
  OBVIOUS
<1>. QED  BY <1>1, <1>2 DEF PastOf

\* Every step keeps the reasons for which the topic is stuck.
LEMMA NextTopic == IInv /\ TopicInv /\ [Next]_vars => TopicInv'
<1>. SUFFICES ASSUME IInv, TopicInv, [Next]_vars PROVE TopicInv'
  OBVIOUS
<1>1. TypeInv /\ ServerInv /\ QuitBackOnWire /\ TopicStuckOnlyBy
  BY DEF IInv, TopicInv
<1>2. ASSUME UNCHANGED <<wire, topic, past>> PROVE TopicInv'
  BY <1>1, <1>2 DEF TopicInv, QuitBackOnWire, TopicStuckOnlyBy
<1>3. CASE OthersGive \/ UserGives
  BY <1>1, <1>2, <1>3, GivesKeeps DEF pageVars
<1>4. ASSUME NEW c \in sent, Handle(c) PROVE TopicInv'
  <2>. DEFINE p == PublishedBy(c)
  <2>1. p \in Seq(ServerEvent) /\ wire \in Seq(ServerEvent)
    BY <1>1, <1>4, HandleKeeps DEF TypeInv
  <2>2. /\ past' = past \cup PastOf(p) /\ topic' = topic
        /\ wire' = wire \/ wire' = wire \o p
    BY <1>4 DEF Handle
  <2>. HIDE DEF p
  <2>3. QuitBackOnWire'
    <3>1. ASSUME NEW i \in DOMAIN wire, wire[i].name = "AttendeeQuitRemoved"
          PROVE  "quitBack" \in past'
      BY <1>1, <2>2, <3>1 DEF QuitBackOnWire
    <3>2. ASSUME NEW i \in DOMAIN (wire \o p), (wire \o p)[i].name = "AttendeeQuitRemoved"
          PROVE  "quitBack" \in past'
      <4>1. CASE i <= Len(wire)
        <5>1. i \in DOMAIN wire /\ (wire \o p)[i] = wire[i]
          BY <2>1, <4>1
        <5>. QED  BY <3>1, <3>2, <5>1
      <4>2. CASE ~(i <= Len(wire))
        <5>1. i - Len(wire) \in DOMAIN p /\ (wire \o p)[i] = p[i - Len(wire)]
          BY <2>1, <4>2
        <5>. QED  BY <2>2, <3>2, <5>1, PublishedIsPast
      <4>. QED  BY <4>1, <4>2
    <3>. QED  BY <2>2, <3>1, <3>2 DEF QuitBackOnWire
  <2>4. TopicStuckOnlyBy'
    BY <1>1, <2>2 DEF TopicStuckOnlyBy
  <2>. QED  BY <2>3, <2>4 DEF TopicInv
<1>5. CASE Answer \/ Load \/ Fail \/ Connect
  BY <1>2, <1>5 DEF Answer, Load, Fail, Connect
<1>6. CASE Disconnect
  <2>1. wire' = <<>> /\ topic' = topic /\ past \subseteq past'
    BY <1>6 DEF Disconnect
  <2>. QED  BY <1>1, <2>1 DEF TopicInv, QuitBackOnWire, TopicStuckOnlyBy
<1>7. CASE Deliver
  <2>. DEFINE e == Head(wire)
  <2>1. wire \in Seq(ServerEvent) /\ wire # <<>> /\ wire' = Tail(wire)
    BY <1>1, <1>7 DEF TypeInv, Deliver
  <2>2. past \subseteq past'
    BY <1>7 DEF Deliver
  <2>3. QuitBackOnWire'
    <3>1. \A i \in DOMAIN wire' : i + 1 \in DOMAIN wire /\ wire'[i] = wire[i + 1]
      BY <2>1
    <3>. QED  BY <1>1, <2>2, <3>1 DEF QuitBackOnWire
  <2>4. ASSUME topic' = "stuck" PROVE past' \cap {"early", "quitBack"} # {}
    <3>1. CASE topic = "stuck"
      BY <1>1, <2>2, <3>1 DEF TopicStuckOnlyBy
    <3>2. CASE topic # "stuck" /\ CheckpointsMissing(e)
      BY <1>7, <3>2 DEF Deliver
    <3>3. CASE topic # "stuck" /\ ~CheckpointsMissing(e)
      <4>1. AttendeeThrows(view, e)
        BY <1>7, <2>4, <3>3 DEF Deliver
      <4>2. e.name = "AttendeeQuitRemoved"
        BY <4>1 DEF AttendeeThrows, RemovedType
      <4>3. 1 \in DOMAIN wire /\ e = wire[1]
        BY <2>1
      <4>4. "quitBack" \in past
        BY <1>1, <4>2, <4>3 DEF QuitBackOnWire
      <4>. QED  BY <2>2, <4>4
    <3>. QED  BY <3>1, <3>2, <3>3
  <2>. QED  BY <2>3, <2>4 DEF TopicInv, TopicStuckOnlyBy
<1>8. CASE UNCHANGED vars
  BY <1>2, <1>8 DEF vars, pageVars
<1>. QED  BY <1>3, <1>4, <1>5, <1>6, <1>7, <1>8 DEF Next

\* The topic of all events is stuck only where an event came before the data, or a
\* quit was taken back: for any route, any number of people, commands and losses.
THEOREM TopicIsStuckOnlyBy == Spec => []TopicStuckOnlyBy
<1>1. Init => TopicInv
  BY DEF Init, TopicInv, QuitBackOnWire, TopicStuckOnlyBy
<1>2. TopicInv => TopicStuckOnlyBy
  BY DEF TopicInv
<1>. QED  BY <1>1, <1>2, NextTopic, Invariant, PTL DEF Spec


-----------------------------------------------------------------------------
(* What a reload would show.                                               *)

\* A person's row at one checkpoint, of the dashboard or of the page: nobody's is
\* NoCell.
CellState == [in : Nat, out : Nat, quit : BOOLEAN]

NoCell == [in |-> 0, out |-> 0, quit |-> FALSE]

CellOf(v) == [in |-> v.in, out |-> v.out, quit |-> v.quit]

Cell(visits, p) == IF HasVisit(visits, p) THEN CellOf(TheVisit(visits, p)) ELSE NoCell

IsBlank(x) == x.in = 0 /\ x.out = 0

\* What the page makes of its cell when it hears of an event about it.
CellAfter(x, e) ==
    CASE e.name = "AttendeeScanIn" -> [x EXCEPT !.in = e.time]
      [] e.name = "AttendeeScanOut" -> [x EXCEPT !.out = e.time]
      [] e.name = "AttendeePassthroughScan" ->
           IF IsBlank(x) THEN [in |-> e.time, out |-> e.time, quit |-> FALSE] ELSE x
      [] e.name = "AttendeeScanInRemoved" -> NoCell
      [] e.name = "AttendeeScanOutRemoved" -> IF x.in # 0 THEN [x EXCEPT !.out = 0] ELSE NoCell
      [] e.name = "AttendeeQuit" ->
           IF IsBlank(x) THEN [in |-> e.time, out |-> 0, quit |-> FALSE]
           ELSE [x EXCEPT !.quit = TRUE]
      [] OTHER -> x

CellStep(x, e, c, p) == IF e.place = c /\ e.person = p THEN CellAfter(x, e) ELSE x

\* The events of w lead the cell of p at c from x to y, by way of h.
Trail(h, x, y, w, c, p) ==
    /\ h[0] = x /\ h[Len(w)] = y
    /\ \A n \in 1 .. Len(w) : h[n] = CellStep(h[n - 1], w[n], c, p)

Leads(x, y, w, c, p) == \E h : Trail(h, x, y, w, c, p)

\* A cell stays a cell.
LEMMA CellStepIs ==
    ASSUME NEW x \in CellState, NEW e \in ServerEvent, NEW c, NEW p
    PROVE  CellStep(x, e, c, p) \in CellState
<1>1. e.time \in Nat
  BY DEF ServerEvent
<1>2. \A t \in Nat : [x EXCEPT !.in = t] \in CellState /\ [x EXCEPT !.out = t] \in CellState
  BY DEF CellState
<1>3. \A b \in BOOLEAN : [x EXCEPT !.quit = b] \in CellState
  BY DEF CellState
<1>4. \A s, t \in Nat : [in |-> s, out |-> t, quit |-> FALSE] \in CellState
  BY DEF CellState
<1>5. [x EXCEPT !.quit = TRUE] \in CellState /\ NoCell \in CellState /\ [x EXCEPT !.out = 0] \in CellState
  BY <1>2, <1>3, <1>4 DEF NoCell
<1>6. CellAfter(x, e) \in CellState
  BY <1>1, <1>2, <1>4, <1>5 DEF CellAfter
<1>. QED  BY <1>6 DEF CellStep

\* No events lead nowhere.
LEMMA LeadsNowhere ==
    ASSUME NEW x, NEW y, NEW c, NEW p
    PROVE  Leads(x, y, <<>>, c, p) <=> x = y
<1>1. ASSUME x = y PROVE Leads(x, y, <<>>, c, p)
  <2>1. Trail([n \in {0} |-> x], x, y, <<>>, c, p)
    BY <1>1 DEF Trail
  <2>. QED  BY <2>1 DEF Leads
<1>. QED  BY <1>1 DEF Leads, Trail

\* One event.
LEMMA LeadsOnce ==
    ASSUME NEW x, NEW e, NEW c, NEW p
    PROVE  Leads(x, CellStep(x, e, c, p), <<e>>, c, p)
<1>. DEFINE y == CellStep(x, e, c, p)
            h == [n \in 0 .. 1 |-> IF n = 0 THEN x ELSE y]
<1>. HIDE DEF y
<1>1. h[0] = x /\ h[1] = y /\ Len(<<e>>) = 1 /\ <<e>>[1] = e
  OBVIOUS
<1>2. \A n \in 1 .. 1 : n = 1 /\ n - 1 = 0
  OBVIOUS
<1>. HIDE DEF h
<1>3. Trail(h, x, y, <<e>>, c, p)
  BY <1>1, <1>2 DEF Trail, y
<1>. QED  BY <1>3 DEF Leads, y

\* Further events lead on.
LEMMA LeadsOn ==
    ASSUME NEW w \in Seq(ServerEvent), NEW u \in Seq(ServerEvent), NEW x, NEW y, NEW z,
           NEW c, NEW p, Leads(x, y, w, c, p), Leads(y, z, u, c, p)
    PROVE  Leads(x, z, w \o u, c, p)
<1>. DEFINE m == Len(w)
            k == Len(u)
            both == w \o u
<1>1. PICK f : Trail(f, x, y, w, c, p)
  BY DEF Leads
<1>2. PICK g : Trail(g, y, z, u, c, p)
  BY DEF Leads
<1>. DEFINE h == [n \in 0 .. m + k |-> IF n <= m THEN f[n] ELSE g[n - m]]
<1>3. /\ m \in Nat /\ k \in Nat /\ Len(both) = m + k
      /\ \A n \in 1 .. m : both[n] = w[n]
      /\ \A n \in 1 .. m + k : n > m => n - m \in 1 .. k /\ both[n] = u[n - m]
  OBVIOUS
<1>. HIDE DEF m, k, both
<1>4. /\ \A n \in 0 .. m : h[n] = f[n]
      /\ \A n \in 0 .. m + k : n > m => h[n] = g[n - m]
  BY <1>3
<1>. HIDE DEF h
<1>5. f[0] = x /\ f[m] = y /\ g[0] = y /\ g[k] = z
  BY <1>1, <1>2 DEF Trail, m, k
<1>6. h[0] = x /\ h[m + k] = z
  <2>1. h[0] = x
    BY <1>3, <1>4, <1>5
  <2>2. CASE k = 0
    BY <1>3, <1>4, <1>5, <2>1, <2>2
  <2>3. CASE k > 0
    <3>1. m + k > m /\ m + k \in 0 .. m + k /\ (m + k) - m = k
      BY <1>3, <2>3
    <3>. QED  BY <1>4, <1>5, <2>1, <3>1
  <2>. QED  BY <1>3, <2>2, <2>3
<1>7. ASSUME NEW n \in 1 .. m + k PROVE h[n] = CellStep(h[n - 1], both[n], c, p)
  <2>1. CASE n <= m
    <3>1. n \in 1 .. m /\ n \in 0 .. m /\ n - 1 \in 0 .. m
      BY <1>3, <2>1
    <3>2. f[n] = CellStep(f[n - 1], w[n], c, p)
      BY <1>1, <3>1 DEF Trail, m
    <3>. QED  BY <1>3, <1>4, <3>1, <3>2
  <2>2. CASE n > m
    <3>1. /\ n - m \in 1 .. k /\ both[n] = u[n - m] /\ n \in 0 .. m + k
          /\ (n - m) - 1 = (n - 1) - m
      BY <1>3, <2>2
    <3>2. g[n - m] = CellStep(g[(n - 1) - m], u[n - m], c, p)
      BY <1>2, <3>1 DEF Trail, k
    <3>3. h[n - 1] = g[(n - 1) - m]
      <4>1. CASE n - 1 > m
        <5>1. n - 1 \in 0 .. m + k
          BY <1>3, <4>1
        <5>. QED  BY <1>4, <4>1, <5>1
      <4>2. CASE n - 1 = m
        <5>1. (n - 1) - m = 0 /\ m \in 0 .. m
          BY <1>3, <4>2
        <5>. QED  BY <1>4, <1>5, <4>2, <5>1
      <4>. QED  BY <1>3, <2>2, <4>1, <4>2
    <3>. QED  BY <1>4, <2>2, <3>1, <3>2, <3>3
  <2>. QED  BY <1>3, <2>1, <2>2
<1>8. Trail(h, x, z, both, c, p)
  BY <1>3, <1>6, <1>7 DEF Trail
<1>. QED  BY <1>8 DEF Leads, both

\* The first event leads to where the others lead on from.
LEMMA LeadsAfter ==
    ASSUME NEW w \in Seq(ServerEvent), w # <<>>, NEW x, NEW y, NEW c, NEW p,
           Leads(x, y, w, c, p)
    PROVE  Leads(CellStep(x, Head(w), c, p), y, Tail(w), c, p)
<1>. DEFINE k == Len(w)
            u == Tail(w)
<1>1. PICK f : Trail(f, x, y, w, c, p)
  BY DEF Leads
<1>2. /\ k \in Nat /\ k >= 1 /\ Len(u) = k - 1 /\ Head(w) = w[1]
      /\ \A n \in 1 .. k - 1 : u[n] = w[n + 1]
  OBVIOUS
<1>. DEFINE h == [n \in 0 .. k - 1 |-> f[n + 1]]
<1>. HIDE DEF k, u
<1>3. /\ f[0] = x /\ f[k] = y
      /\ \A n \in 1 .. k : f[n] = CellStep(f[n - 1], w[n], c, p)
  BY <1>1 DEF Trail, k
<1>4. \A n \in 0 .. k - 1 : h[n] = f[n + 1]
  OBVIOUS
<1>. HIDE DEF h
<1>5. h[0] = CellStep(x, Head(w), c, p)
  <2>1. 1 \in 1 .. k /\ 1 - 1 = 0 /\ 0 \in 0 .. k - 1 /\ 0 + 1 = 1
    BY <1>2
  <2>. QED  BY <1>2, <1>3, <1>4, <2>1
<1>6. h[k - 1] = y
  <2>1. k - 1 \in 0 .. k - 1 /\ (k - 1) + 1 = k
    BY <1>2
  <2>. QED  BY <1>3, <1>4, <2>1
<1>7. ASSUME NEW n \in 1 .. k - 1 PROVE h[n] = CellStep(h[n - 1], u[n], c, p)
  <2>1. /\ n + 1 \in 1 .. k /\ (n + 1) - 1 = n /\ n \in 0 .. k - 1 /\ n - 1 \in 0 .. k - 1
        /\ (n - 1) + 1 = n
    BY <1>2
  <2>2. f[n + 1] = CellStep(f[n], w[n + 1], c, p)
    BY <1>3, <2>1
  <2>. QED  BY <1>2, <1>4, <2>1, <2>2
<1>8. Trail(h, CellStep(x, Head(w), c, p), y, u, c, p)
  BY <1>2, <1>5, <1>6, <1>7 DEF Trail
<1>. QED  BY <1>8 DEF Leads, u
\* What is so of a cell at a checkpoint of a type, until a time is changed.
CellOK(type, x) ==
    /\ IsBlank(x) => x = NoCell
    /\ type = "Start" => x.in = 0
    /\ type # "Start" => (x.in = 0 => IsBlank(x))
    /\ type = "Passthrough" => x.in = x.out

\* The fields in W of y, the others of x.
Mixed(x, y, W) ==
    [in   |-> IF "in" \in W THEN y.in ELSE x.in,
     out  |-> IF "out" \in W THEN y.out ELSE x.out,
     quit |-> IF "quit" \in W THEN y.quit ELSE x.quit]

\* The events of w, which have led the server's cell to y, write some fields: whoever
\* hears of them all has these of y, whatever they were before.
SettlesTimed(type, y, w, c, p) ==
    \E W \in SUBSET {"in", "out", "quit"} : \A x \in CellState :
        CellOK(type, x) /\ (y.quit => ~IsBlank(x)) => Leads(x, Mixed(x, y, W), w, c, p)

Twins(y) == {x \in CellState : x.in = y.in /\ x.out = y.out}

\* A passthrough is read by those only who are not there yet: w does nothing or leads to y,
\* from anywhere or from where the times are those of y already.
SettlesPassed(y, w, c, p) ==
    \E X : /\ X = CellState \/ (~IsBlank(y) /\ X = Twins(y))
           /\ \/ \A x \in X : Leads(x, x, w, c, p)
              \/ \A x \in X : Leads(x, y, w, c, p)

Settles(type, y, w, c, p) ==
    IF type = "Passthrough" THEN SettlesPassed(y, w, c, p) ELSE SettlesTimed(type, y, w, c, p)

\* What the server knows of the cell that an event is about.
Fits(type, y, e) ==
    /\ e.time # 0
    /\ e.name = "AttendeeScanIn" => type \notin {"Start", "Passthrough"}
    /\ e.name = "AttendeeScanOut" => type # "Passthrough" /\ (type # "Start" => y.in # 0)
    /\ e.name = "AttendeePassthroughScan" => type = "Passthrough" /\ IsBlank(y)
    /\ e.name = "AttendeeScanInRemoved" => ~y.quit
    /\ e.name = "AttendeeScanOutRemoved" =>
          type # "Passthrough" /\ ~y.quit /\ (type # "Start" => y.in # 0)
    /\ e.name = "AttendeeQuit" => ~IsBlank(y)

\* Such an event leaves a cell in order, and nobody's quit is taken back.
LEMMA CellFits ==
    ASSUME NEW type, NEW y \in CellState, NEW e \in ServerEvent, CellOK(type, y), Fits(type, y, e)
    PROVE  CellOK(type, CellAfter(y, e)) /\ (y.quit => CellAfter(y, e).quit)
<1>. DEFINE z == CellAfter(y, e)
<1>1. y = [in |-> y.in, out |-> y.out, quit |-> y.quit] /\ y.in \in Nat /\ y.out \in Nat
  BY DEF CellState
<1>2. CASE e.name = "AttendeeScanIn"
  <2>1. z.in = e.time /\ z.out = y.out /\ z.quit = y.quit
    BY <1>1, <1>2 DEF CellAfter
  <2>. QED  BY <1>2, <2>1 DEF CellOK, Fits, IsBlank
<1>3. CASE e.name = "AttendeeScanOut"
  <2>1. z.in = y.in /\ z.out = e.time /\ z.quit = y.quit
    BY <1>1, <1>3 DEF CellAfter
  <2>. QED  BY <1>3, <2>1 DEF CellOK, Fits, IsBlank
<1>4. CASE e.name = "AttendeePassthroughScan"
  <2>1. z.in = e.time /\ z.out = e.time
    BY <1>4 DEF CellAfter, Fits
  <2>2. ~y.quit
    BY <1>4 DEF CellOK, Fits, NoCell
  <2>. QED  BY <1>4, <2>1, <2>2 DEF CellOK, Fits, IsBlank
<1>5. CASE e.name = "AttendeeScanInRemoved"
  <2>1. z = NoCell /\ ~y.quit
    BY <1>5 DEF CellAfter, Fits
  <2>. QED  BY <2>1 DEF CellOK, IsBlank, NoCell
<1>6. CASE e.name = "AttendeeScanOutRemoved"
  <2>1. ~y.quit /\ type # "Passthrough"
    BY <1>6 DEF Fits
  <2>2. CASE y.in # 0
    <3>1. z.in = y.in /\ z.out = 0
      BY <1>1, <1>6, <2>2 DEF CellAfter
    <3>. QED  BY <2>1, <2>2, <3>1 DEF CellOK, IsBlank
  <2>3. CASE y.in = 0
    <3>1. z = NoCell
      BY <1>6, <2>3 DEF CellAfter
    <3>. QED  BY <2>1, <3>1 DEF CellOK, IsBlank, NoCell
  <2>. QED  BY <2>2, <2>3
<1>7. CASE e.name = "AttendeeQuit"
  <2>1. z.in = y.in /\ z.out = y.out /\ z.quit = TRUE
    BY <1>1, <1>7 DEF CellAfter, Fits
  <2>. QED  BY <1>7, <2>1 DEF CellOK, Fits, IsBlank
<1>8. CASE e.name \notin {"AttendeeScanIn", "AttendeeScanOut", "AttendeePassthroughScan",
                          "AttendeeScanInRemoved", "AttendeeScanOutRemoved", "AttendeeQuit"}
  <2>1. z = y
    BY <1>8 DEF CellAfter
  <2>. QED  BY <2>1
<1>. HIDE DEF z
<1>. QED  BY <1>2, <1>3, <1>4, <1>5, <1>6, <1>7, <1>8 DEF z

\* An event is heard of by those who have some fields of the server already.
LEMMA MixedAfter ==
    ASSUME NEW type, type # "Passthrough", NEW y \in CellState, NEW e \in ServerEvent,
           CellOK(type, y), Fits(type, y, e), NEW W \in SUBSET {"in", "out", "quit"}
    PROVE  \E U \in SUBSET {"in", "out", "quit"} : \A x \in CellState :
              CellOK(type, x) /\ (CellAfter(y, e).quit => ~IsBlank(x)) =>
                 CellAfter(Mixed(x, y, W), e) = Mixed(x, CellAfter(y, e), U)
<1>. DEFINE F == {"in", "out", "quit"}
            v == CellAfter(y, e)
            Same(U) == \A x \in CellState :
                          CellOK(type, x) /\ (v.quit => ~IsBlank(x)) =>
                             CellAfter(Mixed(x, y, W), e) = Mixed(x, v, U)
<1>1. y = [in |-> y.in, out |-> y.out, quit |-> y.quit] /\ y.quit \in BOOLEAN
  BY DEF CellState
<1>2. ASSUME NEW x \in CellState
      PROVE  LET z == Mixed(x, y, W)
             IN  /\ z.in = (IF "in" \in W THEN y.in ELSE x.in)
                 /\ z.out = (IF "out" \in W THEN y.out ELSE x.out)
                 /\ z.quit = (IF "quit" \in W THEN y.quit ELSE x.quit)
                 /\ \A t : [z EXCEPT !.in = t] = [in |-> t, out |-> z.out, quit |-> z.quit]
                 /\ \A t : [z EXCEPT !.out = t] = [in |-> z.in, out |-> t, quit |-> z.quit]
                 /\ \A b : [z EXCEPT !.quit = b] = [in |-> z.in, out |-> z.out, quit |-> b]
  BY DEF Mixed
<1>3. CASE e.name = "AttendeeScanIn"
  <2>1. v.in = e.time /\ v.out = y.out /\ v.quit = y.quit
    BY <1>1, <1>3 DEF CellAfter
  <2>2. \A z : CellAfter(z, e) = [z EXCEPT !.in = e.time]
    BY <1>3 DEF CellAfter
  <2>. HIDE DEF v
  <2>. DEFINE U == W \cup {"in"}
  <2>3. U \in SUBSET F /\ "in" \in U /\ \A f \in F : f # "in" => (f \in U <=> f \in W)
    OBVIOUS
  <2>. HIDE DEF U
  <2>4. ASSUME NEW x \in CellState PROVE CellAfter(Mixed(x, y, W), e) = Mixed(x, v, U)
    <3>1. CellAfter(Mixed(x, y, W), e) = [Mixed(x, y, W) EXCEPT !.in = e.time]
      BY <2>2
    <3>. QED  BY <1>2, <2>1, <2>3, <3>1 DEF Mixed
  <2>. QED  BY <2>3, <2>4 DEF v
<1>4. CASE e.name = "AttendeeScanOut"
  <2>1. v.in = y.in /\ v.out = e.time /\ v.quit = y.quit
    BY <1>1, <1>4 DEF CellAfter
  <2>2. \A z : CellAfter(z, e) = [z EXCEPT !.out = e.time]
    BY <1>4 DEF CellAfter
  <2>. HIDE DEF v
  <2>. DEFINE U == W \cup {"out"}
  <2>3. U \in SUBSET F /\ "out" \in U /\ \A f \in F : f # "out" => (f \in U <=> f \in W)
    OBVIOUS
  <2>. HIDE DEF U
  <2>4. ASSUME NEW x \in CellState PROVE CellAfter(Mixed(x, y, W), e) = Mixed(x, v, U)
    <3>1. CellAfter(Mixed(x, y, W), e) = [Mixed(x, y, W) EXCEPT !.out = e.time]
      BY <2>2
    <3>. QED  BY <1>2, <2>1, <2>3, <3>1 DEF Mixed
  <2>. QED  BY <2>3, <2>4 DEF v
<1>5. CASE e.name = "AttendeeScanInRemoved"
  <2>1. \A z : CellAfter(z, e) = NoCell
    BY <1>5 DEF CellAfter
  <2>2. v = NoCell
    BY <2>1
  <2>. HIDE DEF v
  <2>3. Same(F)
    BY <2>1, <2>2 DEF Mixed, NoCell
  <2>. QED  BY <2>3 DEF v
<1>6. CASE e.name = "AttendeeScanOutRemoved" /\ type = "Start"
  <2>1. \A z : z.in = 0 => CellAfter(z, e) = NoCell
    BY <1>6 DEF CellAfter
  <2>2. v = NoCell /\ y.in = 0
    BY <1>6, <2>1 DEF CellOK
  <2>. HIDE DEF v
  <2>3. ASSUME NEW x \in CellState, CellOK(type, x) PROVE CellAfter(Mixed(x, y, W), e) = NoCell
    <3>1. x.in = 0
      BY <1>6, <2>3 DEF CellOK
    <3>2. Mixed(x, y, W).in = 0
      BY <1>2, <2>2, <3>1
    <3>. QED  BY <2>1, <3>2
  <2>4. Same(F)
    BY <2>2, <2>3 DEF Mixed, NoCell
  <2>. QED  BY <2>4 DEF v
<1>7. CASE e.name = "AttendeeScanOutRemoved" /\ type # "Start"
  <2>1. y.in # 0 /\ ~y.quit
    BY <1>7 DEF Fits
  <2>2. \A z : z.in # 0 => CellAfter(z, e) = [z EXCEPT !.out = 0]
    BY <1>7 DEF CellAfter
  <2>3. \A z : z.in = 0 => CellAfter(z, e) = NoCell
    BY <1>7 DEF CellAfter
  <2>4. v.in = y.in /\ v.out = 0 /\ v.quit = y.quit
    BY <1>1, <2>1, <2>2
  <2>. HIDE DEF v
  <2>. DEFINE U == W \cup {"out"}
  <2>5. ASSUME NEW x \in CellState, CellOK(type, x)
        PROVE  CellAfter(Mixed(x, y, W), e) = Mixed(x, v, U)
    <3>1. CASE Mixed(x, y, W).in # 0
      <4>1. CellAfter(Mixed(x, y, W), e) = [Mixed(x, y, W) EXCEPT !.out = 0]
        BY <2>2, <3>1
      <4>. QED  BY <1>2, <2>4, <4>1 DEF Mixed
    <3>2. CASE Mixed(x, y, W).in = 0
      <4>1. "in" \notin W /\ x.in = 0
        BY <1>2, <2>1, <3>2
      <4>2. x = NoCell
        BY <1>7, <2>5, <4>1 DEF CellOK
      <4>3. Mixed(x, v, U).in = 0 /\ Mixed(x, v, U).out = 0 /\ Mixed(x, v, U).quit = FALSE
        BY <1>1, <2>1, <2>4, <4>1, <4>2 DEF Mixed, NoCell
      <4>4. Mixed(x, v, U) = NoCell
        BY <4>3 DEF Mixed, NoCell
      <4>. QED  BY <2>3, <3>2, <4>4
    <3>. QED  BY <3>1, <3>2
  <2>6. Same(U) /\ U \in SUBSET F
    <3>. HIDE DEF U
    <3>1. Same(U)
      BY <2>5
    <3>. QED  BY <3>1 DEF U
  <2>. QED  BY <2>6 DEF v
<1>8. CASE e.name = "AttendeeQuit"
  <2>1. ~IsBlank(y)
    BY <1>8 DEF Fits
  <2>2. \A z : ~IsBlank(z) => CellAfter(z, e) = [z EXCEPT !.quit = TRUE]
    BY <1>8 DEF CellAfter
  <2>3. v.in = y.in /\ v.out = y.out /\ v.quit = TRUE
    BY <1>1, <2>1, <2>2
  <2>. HIDE DEF v
  <2>. DEFINE U == W \cup {"quit"}
  <2>0. U \in SUBSET F /\ "quit" \in U /\ \A f \in F : f # "quit" => (f \in U <=> f \in W)
    OBVIOUS
  <2>. HIDE DEF U
  <2>4. ASSUME NEW x \in CellState, CellOK(type, x), ~IsBlank(x)
        PROVE  CellAfter(Mixed(x, y, W), e) = Mixed(x, v, U)
    <3>1. ~IsBlank(Mixed(x, y, W))
      <4>1. CASE type = "Start"
        <5>1. x.out # 0 /\ y.out # 0
          BY <2>1, <2>4, <4>1 DEF CellOK, IsBlank
        <5>. QED  BY <1>2, <5>1 DEF IsBlank
      <4>2. CASE type # "Start"
        <5>1. x.in # 0 /\ y.in # 0
          BY <2>1, <2>4, <4>2 DEF CellOK
        <5>. QED  BY <1>2, <5>1 DEF IsBlank
      <4>. QED  BY <4>1, <4>2
    <3>2. CellAfter(Mixed(x, y, W), e) = [Mixed(x, y, W) EXCEPT !.quit = TRUE]
      BY <2>2, <3>1
    <3>. DEFINE in == IF "in" \in W THEN y.in ELSE x.in
                out == IF "out" \in W THEN y.out ELSE x.out
                quit == IF "quit" \in W THEN y.quit ELSE x.quit
    <3>3. Mixed(x, y, W) = [in |-> in, out |-> out, quit |-> quit]
      BY DEF Mixed
    <3>4. /\ (IF "in" \in U THEN v.in ELSE x.in) = in
          /\ (IF "out" \in U THEN v.out ELSE x.out) = out
          /\ (IF "quit" \in U THEN v.quit ELSE x.quit) = TRUE
      BY <2>0, <2>3
    <3>. HIDE DEF in, out, quit
    <3>5. CellAfter(Mixed(x, y, W), e) = [in |-> in, out |-> out, quit |-> TRUE]
      <4>1. \A b : [[in |-> in, out |-> out, quit |-> quit] EXCEPT !.quit = b] =
                      [in |-> in, out |-> out, quit |-> b]
        OBVIOUS
      <4>2. [[in |-> in, out |-> out, quit |-> quit] EXCEPT !.quit = TRUE] =
               [in |-> in, out |-> out, quit |-> TRUE]
        BY ONLY <4>1, Zenon
      <4>. QED  BY <3>2, <3>3, <4>2, Zenon
    <3>6. Mixed(x, v, U) = [in |-> in, out |-> out, quit |-> TRUE]
      BY <3>4 DEF Mixed
    <3>. QED  BY <3>5, <3>6
  <2>. QED  BY <2>0, <2>3, <2>4 DEF v
<1>9. CASE e.name \notin {"AttendeeScanIn", "AttendeeScanOut", "AttendeeScanInRemoved",
                          "AttendeeScanOutRemoved", "AttendeeQuit"}
  <2>1. e.name # "AttendeePassthroughScan"
    BY DEF Fits
  <2>2. \A z : CellAfter(z, e) = z
    BY <1>9, <2>1 DEF CellAfter
  <2>. QED  BY <2>2
<1>. HIDE DEF Same, v
<1>. QED  BY <1>3, <1>4, <1>5, <1>6, <1>7, <1>8, <1>9 DEF Same, v

\* A mixture of cells is a cell.
LEMMA MixedIs ==
    ASSUME NEW x \in CellState, NEW y \in CellState, NEW W
    PROVE  Mixed(x, y, W) \in CellState
<1>1. /\ x.in \in Nat /\ x.out \in Nat /\ x.quit \in BOOLEAN
      /\ y.in \in Nat /\ y.out \in Nat /\ y.quit \in BOOLEAN
  BY DEF CellState
<1>2. /\ (IF "in" \in W THEN y.in ELSE x.in) \in Nat
      /\ (IF "out" \in W THEN y.out ELSE x.out) \in Nat
      /\ (IF "quit" \in W THEN y.quit ELSE x.quit) \in BOOLEAN
  BY <1>1
<1>. QED  BY <1>2 DEF Mixed, CellState

\* Events lead from everywhere to somewhere.
LEMMA LeadsSomewhere ==
    ASSUME NEW w \in Seq(ServerEvent), NEW x \in CellState, NEW c, NEW p
    PROVE  \E z \in CellState : Leads(x, z, w, c, p)
<1>. DEFINE N == Len(w)
            T == CellState
            step == [n \in 1 .. N |-> [z \in T |-> CellStep(z, w[n], c, p)]]
<1>1. N \in Nat /\ \A n \in 1 .. N : w[n] \in ServerEvent
  OBVIOUS
<1>2. \A n \in 1 .. N, z \in T : CellStep(z, w[n], c, p) \in T
  <2>. HIDE DEF N, T
  <2>. QED  BY <1>1, CellStepIs DEF T
<1>3. step \in [1 .. N -> [T -> T]]
  <2>. HIDE DEF T, N
  <2>. QED  BY <1>2
<1>4. PICK h : Recurs(h, N, T, x, step)
  <2>. HIDE DEF step, T, N
  <2>. QED  BY <1>1, <1>3, Recursion DEF T
<1>5. \A n \in 1 .. N, z \in T : step[n][z] = CellStep(z, w[n], c, p)
  <2>. HIDE DEF T, N
  <2>. QED  OBVIOUS
<1>. HIDE DEF step
<1>6. h \in [0 .. N -> T] /\ h[0] = x
  BY <1>4 DEF Recurs
<1>7. ASSUME NEW n \in 1 .. N PROVE h[n] = CellStep(h[n - 1], w[n], c, p)
  <2>1. h[n] = step[n][h[n - 1]] /\ h[n - 1] \in T
    BY <1>1, <1>4, <1>6 DEF Recurs
  <2>. QED  BY <1>5, <2>1
<1>8. h[N] \in T
  <2>1. N \in 0 .. N
    BY <1>1
  <2>. HIDE DEF T, N
  <2>. QED  BY <1>6, <2>1
<1>9. Trail(h, x, h[N], w, c, p)
  BY <1>6, <1>7 DEF Trail
<1>. QED  BY <1>8, <1>9 DEF Leads

\* An event that u brings to all cells alike keeps what has settled so far.
LEMMA SettlesOn ==
    ASSUME NEW type, NEW y \in CellState, NEW e \in ServerEvent, CellOK(type, y), Fits(type, y, e),
           NEW w \in Seq(ServerEvent), NEW u \in Seq(ServerEvent), NEW c, NEW p,
           Settles(type, y, w, c, p),
           \A z \in CellState : Leads(z, CellAfter(z, e), u, c, p)
    PROVE  Settles(type, CellAfter(y, e), w \o u, c, p)
<1>. DEFINE v == CellAfter(y, e)
            To(x, z) == Leads(x, z, w, c, p)
            On(x, z) == Leads(x, z, w \o u, c, p)
<1>1. \A x, z : z \in CellState /\ To(x, z) => On(x, CellAfter(z, e))
  BY LeadsOn
<1>2. CASE type # "Passthrough"
  <2>1. PICK W \in SUBSET {"in", "out", "quit"} : \A x \in CellState :
           CellOK(type, x) /\ (y.quit => ~IsBlank(x)) => To(x, Mixed(x, y, W))
    BY <1>2 DEF Settles, SettlesTimed
  <2>2. PICK U \in SUBSET {"in", "out", "quit"} : \A x \in CellState :
           CellOK(type, x) /\ (v.quit => ~IsBlank(x)) => CellAfter(Mixed(x, y, W), e) = Mixed(x, v, U)
    BY <1>2, MixedAfter
  <2>3. y.quit => v.quit
    BY CellFits
  <2>. HIDE DEF v, To, On
  <2>4. \A x \in CellState : CellOK(type, x) /\ (v.quit => ~IsBlank(x)) => On(x, Mixed(x, v, U))
    BY <1>1, <2>1, <2>2, <2>3, MixedIs
  <2>. QED  BY <1>2, <2>4 DEF Settles, SettlesTimed, v, On
<1>3. CASE type = "Passthrough"
  <2>1. /\ y.in = y.out /\ (IsBlank(y) => y = NoCell)
        /\ y = [in |-> y.in, out |-> y.out, quit |-> y.quit]
    BY <1>3 DEF CellOK, CellState
  <2>2. e.time # 0 /\ e.name \notin {"AttendeeScanIn", "AttendeeScanOut", "AttendeeScanOutRemoved"}
    BY <1>3 DEF Fits
  <2>3. PICK X : /\ X = CellState \/ (~IsBlank(y) /\ X = Twins(y))
                 /\ (\A x \in X : To(x, x)) \/ (\A x \in X : To(x, y))
    BY <1>3 DEF Settles, SettlesPassed
  <2>4. X \subseteq CellState
    BY <2>3 DEF Twins
  <2>. SUFFICES ASSUME NEW Z, Z = Twins(v)
                PROVE  \E Y : /\ Y = CellState \/ (~IsBlank(v) /\ Y = Z)
                              /\ (\A x \in Y : On(x, x)) \/ (\A x \in Y : On(x, v))
    BY <1>3 DEF Settles, SettlesPassed
  <2>5. CASE e.name = "AttendeeScanInRemoved"
    <3>1. \A z : CellAfter(z, e) = NoCell
      BY <2>5 DEF CellAfter
    <3>2. \A x \in CellState : \E z \in CellState : To(x, z)
      BY LeadsSomewhere
    <3>3. \A x \in CellState : On(x, v)
      BY <1>1, <3>1, <3>2
    <3>. QED  BY <3>3
  <2>6. CASE e.name = "AttendeePassthroughScan"
    <3>1. IsBlank(y) /\ X = CellState
      BY <2>3, <2>6 DEF Fits
    <3>2. CASE \A x \in X : To(x, y)
      <4>1. \A x \in CellState : On(x, v)
        BY <1>1, <3>1, <3>2
      <4>. QED  BY <4>1
    <3>3. CASE \A x \in X : To(x, x)
      <4>1. v.in = e.time /\ v.out = e.time
        BY <2>6, <3>1 DEF CellAfter
      <4>2. \A x \in Z : x \in CellState /\ x.in # 0
        BY <2>2, <4>1 DEF Twins
      <4>3. \A x \in Z : CellAfter(x, e) = x
        BY <2>6, <4>2 DEF CellAfter, IsBlank
      <4>4. \A x \in Z : On(x, x)
        BY <1>1, <3>1, <3>3, <4>2, <4>3
      <4>5. ~IsBlank(v)
        BY <2>2, <4>1 DEF IsBlank
      <4>. QED  BY <4>4, <4>5
    <3>. QED  BY <2>3, <3>2, <3>3
  <2>7. CASE e.name = "AttendeeQuit"
    <3>1. ~IsBlank(y)
      BY <2>7 DEF Fits
    <3>2. \A x : ~IsBlank(x) => CellAfter(x, e) = [x EXCEPT !.quit = TRUE]
      BY <2>7 DEF CellAfter
    <3>3. v.in = y.in /\ v.out = y.out /\ ~IsBlank(v) /\ Z = Twins(y)
      BY <2>1, <3>1, <3>2 DEF Twins, IsBlank
    <3>4. ASSUME NEW x \in Twins(y) PROVE CellAfter(x, e) = v
      <4>1. (\E b : x = [in |-> y.in, out |-> y.out, quit |-> b]) /\ ~IsBlank(x)
        BY <3>1 DEF Twins, CellState, IsBlank
      <4>2. \A z : (\E b : z = [in |-> y.in, out |-> y.out, quit |-> b]) =>
                      [z EXCEPT !.quit = TRUE] = [in |-> y.in, out |-> y.out, quit |-> TRUE]
        <5>1. \A z, d : (\E b : z = [in |-> y.in, out |-> y.out, quit |-> b]) =>
                           [z EXCEPT !.quit = d] = [in |-> y.in, out |-> y.out, quit |-> d]
          BY ONLY TRUE
        <5>. QED  BY ONLY <5>1, Zenon
      <4>3. \E b : y = [in |-> y.in, out |-> y.out, quit |-> b]
        BY <2>1
      <4>. QED  BY <3>1, <3>2, <4>1, <4>2, <4>3
    <3>5. CASE \A x \in X : To(x, y)
      <4>1. \A x \in X : On(x, v)
        BY <1>1, <3>5
      <4>. QED  BY <2>3, <3>3, <4>1
    <3>6. CASE \A x \in X : To(x, x)
      <4>1. Z \subseteq X /\ Z \subseteq CellState
        BY <2>3, <3>3 DEF Twins
      <4>2. \A x \in Z : On(x, v)
        BY <1>1, <3>3, <3>4, <3>6, <4>1
      <4>. QED  BY <3>3, <4>2
    <3>. QED  BY <2>3, <3>5, <3>6
  <2>8. CASE e.name \notin {"AttendeeScanInRemoved", "AttendeePassthroughScan", "AttendeeQuit"}
    <3>1. \A z : CellAfter(z, e) = z
      BY <2>2, <2>8 DEF CellAfter
    <3>2. v = y
      BY <3>1
    <3>3. Z = Twins(y)
      BY <3>2
    <3>4. (\A x \in X : On(x, x)) \/ (\A x \in X : On(x, y))
      BY <1>1, <2>3, <2>4, <3>1
    <3>. QED  BY <2>3, <3>2, <3>3, <3>4
  <2>. QED  BY <2>5, <2>6, <2>7, <2>8
<1>. QED  BY <1>2, <1>3

\* Events that change no cell change nothing.
LEMMA SettlesSame ==
    ASSUME NEW type, NEW y, NEW w \in Seq(ServerEvent), NEW u \in Seq(ServerEvent), NEW c, NEW p,
           y \in CellState, Settles(type, y, w, c, p), \A z \in CellState : Leads(z, z, u, c, p)
    PROVE  Settles(type, y, w \o u, c, p)
<1>1. \A x, z : z \in CellState /\ Leads(x, z, w, c, p) => Leads(x, z, w \o u, c, p)
  BY LeadsOn
<1>2. CASE type # "Passthrough"
  <2>1. PICK W \in SUBSET {"in", "out", "quit"} : \A x \in CellState :
           CellOK(type, x) /\ (y.quit => ~IsBlank(x)) => Leads(x, Mixed(x, y, W), w, c, p)
    BY <1>2 DEF Settles, SettlesTimed
  <2>2. \A x \in CellState : CellOK(type, x) /\ (y.quit => ~IsBlank(x)) =>
           Leads(x, Mixed(x, y, W), w \o u, c, p)
    BY <1>1, <2>1, MixedIs
  <2>. QED  BY <1>2, <2>2 DEF Settles, SettlesTimed
<1>3. CASE type = "Passthrough"
  <2>1. PICK X : /\ X = CellState \/ (~IsBlank(y) /\ X = Twins(y))
                 /\ \/ \A x \in X : Leads(x, x, w, c, p)
                    \/ \A x \in X : Leads(x, y, w, c, p)
    BY <1>3 DEF Settles, SettlesPassed
  <2>2. X \subseteq CellState
    BY <2>1 DEF Twins
  <2>3. (\A x \in X : Leads(x, x, w \o u, c, p)) \/ (\A x \in X : Leads(x, y, w \o u, c, p))
    BY <1>1, <2>1, <2>2
  <2>. QED  BY <1>3, <2>1, <2>3 DEF Settles, SettlesPassed
<1>. QED  BY <1>2, <1>3

\* Without events every cell has settled.
LEMMA SettlesAtFirst ==
    ASSUME NEW type, NEW y, NEW c, NEW p
    PROVE  Settles(type, y, <<>>, c, p)
<1>1. \A x : Leads(x, x, <<>>, c, p)
  BY LeadsNowhere
<1>2. SettlesPassed(y, <<>>, c, p)
  BY <1>1 DEF SettlesPassed
<1>3. \A x \in CellState : Mixed(x, y, {}) = x
  BY DEF Mixed, CellState
<1>4. SettlesTimed(type, y, <<>>, c, p)
  BY <1>1, <1>3 DEF SettlesTimed
<1>. QED  BY <1>2, <1>4 DEF Settles

\* An event that changes no cell may be gone.
LEMMA SettlesAfter ==
    ASSUME NEW type, NEW y \in CellState, NEW w \in Seq(ServerEvent), w # <<>>, NEW c, NEW p,
           Settles(type, y, w, c, p), \A z : CellStep(z, Head(w), c, p) = z
    PROVE  Settles(type, y, Tail(w), c, p)
<1>1. \A x, z : Leads(x, z, w, c, p) => Leads(x, z, Tail(w), c, p)
  <2>1. \A x, z : Leads(x, z, w, c, p) => Leads(CellStep(x, Head(w), c, p), z, Tail(w), c, p)
    BY LeadsAfter
  <2>. QED  BY <2>1
<1>2. SettlesTimed(type, y, w, c, p) => SettlesTimed(type, y, Tail(w), c, p)
  BY <1>1 DEF SettlesTimed
<1>3. SettlesPassed(y, w, c, p) => SettlesPassed(y, Tail(w), c, p)
  BY <1>1 DEF SettlesPassed
<1>. QED  BY <1>2, <1>3 DEF Settles

\* What is on its way does not change what the server has made of it already.
LEMMA SettlesIs ==
    ASSUME NEW type, NEW y \in CellState, NEW w, NEW c, NEW p,
           CellOK(type, y), Settles(type, y, w, c, p)
    PROVE  Leads(y, y, w, c, p)
<1>1. CASE type # "Passthrough"
  <2>1. PICK W \in SUBSET {"in", "out", "quit"} : \A x \in CellState :
           CellOK(type, x) /\ (y.quit => ~IsBlank(x)) => Leads(x, Mixed(x, y, W), w, c, p)
    BY <1>1 DEF Settles, SettlesTimed
  <2>2. y.quit => ~IsBlank(y)
    BY DEF CellOK, NoCell
  <2>3. Mixed(y, y, W) = y
    BY DEF Mixed, CellState
  <2>. QED  BY <2>1, <2>2, <2>3
<1>2. CASE type = "Passthrough"
  <2>1. y \in Twins(y)
    BY DEF Twins
  <2>. QED  BY <1>2, <2>1 DEF Settles, SettlesPassed
<1>. QED  BY <1>1, <1>2

-----------------------------------------------------------------------------
(* Cells and visits.                                                       *)

\* Visits of one each, with a time at least.
VisitsOK(visits) ==
    /\ OneEach(visits)
    /\ \A v \in visits : v.in \in Nat /\ v.out \in Nat /\ (v.in # 0 \/ v.out # 0)

\* A cell is the one visit that there is.
LEMMA CellIs ==
    ASSUME NEW visits, OneEach(visits)
    PROVE  /\ \A v \in visits : Cell(visits, v.person) = CellOf(v)
           /\ \A p : (\A v \in visits : v.person # p) => Cell(visits, p) = NoCell
<1>1. \A p : HasVisit(visits, p) <=> \E v \in visits : v.person = p
  BY DEF HasVisit, VisitsBy
<1>2. ASSUME NEW v \in visits PROVE Cell(visits, v.person) = CellOf(v)
  <2>1. HasVisit(visits, v.person)
    BY <1>1
  <2>2. TheVisit(visits, v.person) = v
    BY <2>1, TheVisitIs DEF OneEach
  <2>. QED  BY <2>1, <2>2 DEF Cell
<1>3. ASSUME NEW p, \A v \in visits : v.person # p PROVE Cell(visits, p) = NoCell
  BY <1>1, <1>3 DEF Cell
<1>. QED  BY <1>2, <1>3

\* Who has a visit has a cell that is not blank.
LEMMA PresentIs ==
    ASSUME NEW visits, VisitsOK(visits), NEW p
    PROVE  /\ HasVisit(visits, p) <=> ~IsBlank(Cell(visits, p))
           /\ HasVisit(visits, p) <=> \E v \in visits : v.person = p
<1>1. HasVisit(visits, p) <=> \E v \in visits : v.person = p
  BY DEF HasVisit, VisitsBy
<1>2. CASE HasVisit(visits, p)
  <2>1. PICK v \in visits : v.person = p
    BY <1>1, <1>2
  <2>2. Cell(visits, p) = CellOf(v) /\ (v.in # 0 \/ v.out # 0)
    BY <2>1, CellIs DEF VisitsOK
  <2>. QED  BY <1>1, <1>2, <2>2 DEF CellOf, IsBlank
<1>3. CASE ~HasVisit(visits, p)
  BY <1>1, <1>3 DEF Cell, NoCell, IsBlank
<1>. QED  BY <1>2, <1>3

\* The visits of p are replaced by those in left, of which there is one at most.
Instead(visits, new, p, left) ==
    /\ \A v : v.person # p => (v \in new <=> v \in visits)
    /\ \A v : v.person = p => (v \in new <=> v \in left)
    /\ \A u, v \in left : u = v
    /\ \A v \in left : /\ v.person = p /\ v.in \in Nat /\ v.out \in Nat
                       /\ v.in # 0 \/ v.out # 0

\* Nobody else's cell is another one then.
LEMMA InsteadIs ==
    ASSUME NEW visits, VisitsOK(visits), NEW new, NEW p, NEW left, Instead(visits, new, p, left)
    PROVE  /\ VisitsOK(new)
           /\ \A q : q # p => Cell(new, q) = Cell(visits, q)
           /\ left = {} => Cell(new, p) = NoCell
           /\ \A v \in left : Cell(new, p) = CellOf(v)
<1>1. \A v \in new : v.person = p => v \in left
  BY DEF Instead
<1>2. \A v \in new : v.person # p => v \in visits
  BY DEF Instead
<1>3. VisitsOK(new)
  <2>1. OneEach(new)
    BY <1>1, <1>2 DEF VisitsOK, OneEach, Instead
  <2>2. ASSUME NEW v \in new PROVE v.in \in Nat /\ v.out \in Nat /\ (v.in # 0 \/ v.out # 0)
    BY <1>1, <1>2 DEF VisitsOK, Instead
  <2>. QED  BY <2>1, <2>2 DEF VisitsOK
<1>4. OneEach(visits) /\ OneEach(new)
  BY <1>3 DEF VisitsOK
<1>5. ASSUME NEW q, q # p PROVE Cell(new, q) = Cell(visits, q)
  <2>1. CASE \E v \in visits : v.person = q
    <3>1. PICK v \in visits : v.person = q
      BY <2>1
    <3>2. v \in new
      BY <1>5, <3>1 DEF Instead
    <3>. QED  BY <1>4, <3>1, <3>2, CellIs
  <2>2. CASE ~\E v \in visits : v.person = q
    <3>1. ~\E v \in new : v.person = q
      BY <1>2, <1>5, <2>2
    <3>. QED  BY <1>4, <2>2, <3>1, CellIs
  <2>. QED  BY <2>1, <2>2
<1>6. left = {} => Cell(new, p) = NoCell
  BY <1>1, <1>4, CellIs
<1>7. \A v \in left : Cell(new, p) = CellOf(v)
  BY <1>4, CellIs DEF Instead
<1>. QED  BY <1>3, <1>5, <1>6, <1>7

\* The visits make, of what an event is about, what the page makes of it, and leave the rest.
Steps(new, visits, e) ==
    /\ VisitsOK(new)
    /\ \A q : q # e.person => Cell(new, q) = Cell(visits, q)
    /\ Cell(new, e.person) = CellAfter(Cell(visits, e.person), e)

\* A visit that is there steps to what is left of it, ...
LEMMA StepsThere ==
    ASSUME NEW visits, VisitsOK(visits), NEW new, NEW e, NEW v \in visits, v.person = e.person,
           NEW left, Instead(visits, new, e.person, left),
           \/ left = {} /\ CellAfter(CellOf(v), e) = NoCell
           \/ \E u : left = {u} /\ CellAfter(CellOf(v), e) = CellOf(u)
    PROVE  Steps(new, visits, e)
<1>1. Cell(visits, e.person) = CellOf(v)
  BY CellIs DEF VisitsOK
<1>2. /\ VisitsOK(new)
      /\ \A q : q # e.person => Cell(new, q) = Cell(visits, q)
      /\ left = {} => Cell(new, e.person) = NoCell
      /\ \A u \in left : Cell(new, e.person) = CellOf(u)
  BY InsteadIs
<1>. QED  BY <1>1, <1>2 DEF Steps

\* ... and nobody to what comes.
LEMMA StepsNew ==
    ASSUME NEW visits, VisitsOK(visits), NEW new, NEW e, \A v \in visits : v.person # e.person,
           NEW left, Instead(visits, new, e.person, left),
           \/ left = {} /\ CellAfter(NoCell, e) = NoCell
           \/ \E u : left = {u} /\ CellAfter(NoCell, e) = CellOf(u)
    PROVE  Steps(new, visits, e)
<1>1. Cell(visits, e.person) = NoCell
  BY CellIs DEF VisitsOK
<1>2. /\ VisitsOK(new)
      /\ \A q : q # e.person => Cell(new, q) = Cell(visits, q)
      /\ left = {} => Cell(new, e.person) = NoCell
      /\ \A u \in left : Cell(new, e.person) = CellOf(u)
  BY InsteadIs
<1>. QED  BY <1>1, <1>2 DEF Steps

\* An event whose time the page and the server read alike, and not that of a quit taken back.
Sound(e) ==
    /\ e.time # 0
    /\ e.name \notin {"AttendeeScanInTimeChanged", "AttendeeScanOutTimeChanged",
                      "AttendeePassthroughScanTimeChanged", "AttendeeQuitRemoved"}

\* All visits of the dashboard or of the page.
AllVisitsOK(D) == \A c \in Place : VisitsOK(D.visits[c])

\* A reading that is added or changed.
LEMMA UpdatedSteps ==
    ASSUME NEW visits \in SUBSET Visit, VisitsOK(visits), NEW e, NEW in \in Nat, NEW out \in Nat,
           in # 0 \/ out # 0,
           LET x == Cell(visits, e.person)
           IN  CellAfter(x, e) = [in |-> Given(in, x.in), out |-> Given(out, x.out), quit |-> x.quit]
    PROVE  Steps(AddOrUpdateVisit(visits, e.person, in, out), visits, e)
<1>. DEFINE p == e.person
            new(v) == [v EXCEPT !.in = Given(in, @), !.out = Given(out, @)]
            W == AddOrUpdateVisit(visits, p, in, out)
<1>1. HasVisit(visits, p) <=> \E v \in visits : v.person = p
  BY DEF HasVisit, VisitsBy
<1>2. W = IF HasVisit(visits, p) THEN {IF v.person = p THEN new(v) ELSE v : v \in visits}
                                 ELSE visits \cup {NewVisit(p, in, out)}
  BY DEF AddOrUpdateVisit
<1>3. ASSUME NEW v \in visits
      PROVE  /\ new(v).person = v.person /\ new(v).quit = v.quit
             /\ new(v).in = Given(in, v.in) /\ new(v).out = Given(out, v.out)
             /\ new(v).in \in Nat /\ new(v).out \in Nat /\ (new(v).in # 0 \/ new(v).out # 0)
  BY DEF Visit, Given, Null
<1>. HIDE DEF new, W
<1>4. CASE HasVisit(visits, p)
  <2>1. PICK v \in visits : v.person = p
    BY <1>1, <1>4
  <2>2. \A u \in visits : u.person = p => u = v
    BY <2>1 DEF VisitsOK, OneEach
  <2>3. W = {IF u.person = p THEN new(u) ELSE u : u \in visits}
    BY <1>2, <1>4
  <2>4. Instead(visits, W, p, {new(v)})
    <3>1. \A u : u.person # p => (u \in W <=> u \in visits)
      BY <1>3, <2>3
    <3>2. \A u : u.person = p => (u \in W <=> u \in {new(v)})
      BY <1>3, <2>1, <2>2, <2>3
    <3>. QED  BY <1>3, <2>1, <3>1, <3>2 DEF Instead
  <2>5. Cell(visits, p) = CellOf(v)
    BY <2>1, CellIs DEF VisitsOK
  <2>6. CellAfter(CellOf(v), e) = CellOf(new(v))
    BY <1>3, <2>5 DEF CellOf, p
  <2>7. \E u : {new(v)} = {u} /\ CellAfter(CellOf(v), e) = CellOf(u)
    BY <2>6
  <2>. QED  BY <2>1, <2>4, <2>7, StepsThere DEF W, p
<1>5. CASE ~HasVisit(visits, p)
  <2>. DEFINE v == NewVisit(p, in, out)
  <2>1. v.person = p /\ CellOf(v) = [in |-> in, out |-> out, quit |-> FALSE]
        /\ v.in = in /\ v.out = out
    BY DEF NewVisit, CellOf
  <2>. HIDE DEF v
  <2>2. \A u \in visits : u.person # p
    BY <1>1, <1>5
  <2>3. W = visits \cup {v}
    BY <1>2, <1>5 DEF v
  <2>4. Instead(visits, W, p, {v})
    BY <2>1, <2>2, <2>3 DEF Instead
  <2>5. Cell(visits, p) = NoCell
    BY <2>2, CellIs DEF VisitsOK
  <2>6. Given(in, NoCell.in) = in /\ Given(out, NoCell.out) = out /\ NoCell.quit = FALSE
    BY DEF Given, NoCell, Null
  <2>7. CellAfter(NoCell, e) = CellOf(v)
    BY <2>1, <2>5, <2>6 DEF p
  <2>8. \E u : {v} = {u} /\ CellAfter(NoCell, e) = CellOf(u)
    BY <2>7
  <2>. QED  BY <2>2, <2>4, <2>8, StepsNew DEF W, p
<1>. QED  BY <1>4, <1>5

\* A visit that is replaced.
LEMMA ReplacedSteps ==
    ASSUME NEW D \in DashboardState, NEW e \in ServerEvent, NEW E, NEW left,
           VisitsOK(D.visits[e.place]), HasVisit(D.visits[e.place], e.person),
           Replaced(E, D, e, left),
           \A v \in left : /\ v.person = e.person /\ v.in \in Nat /\ v.out \in Nat
                           /\ v.in # 0 \/ v.out # 0,
           LET x == CellOf(TheVisit(D.visits[e.place], e.person))
           IN  \/ left = {} /\ CellAfter(x, e) = NoCell
               \/ \E u : left = {u} /\ CellAfter(x, e) = CellOf(u)
    PROVE  /\ Steps(E.visits[e.place], D.visits[e.place], e)
           /\ \A c \in Place : c # e.place => E.visits[c] = D.visits[c]
<1>. DEFINE b == e.place
            p == e.person
            V == D.visits[b]
            v == TheVisit(V, p)
            W == (V \ {v}) \cup left
<1>1. b \in Place
  BY DEF ServerEvent
<1>2. v \in V /\ v.person = p
  BY TheVisitIs
<1>3. E.visits = [D.visits EXCEPT ![b] = W]
  BY DEF Replaced
<1>4. E.visits[b] = W /\ \A c \in Place : c # b => E.visits[c] = D.visits[c]
  <2>. HIDE DEF W, b
  <2>. QED  BY <1>1, <1>3 DEF DashboardState
<1>5. \A u \in V : u.person = p => u = v
  BY <1>2 DEF VisitsOK, OneEach
<1>6. \A u, w \in left : u = w
  OBVIOUS
<1>. HIDE DEF v, V, W
<1>7. Instead(V, W, p, left)
  BY <1>2, <1>5, <1>6 DEF Instead, W
<1>8. Steps(W, V, e)
  BY <1>2, <1>7, StepsThere DEF v, V
<1>. QED  BY <1>4, <1>8 DEF V
\* The dashboard makes of its cells what the page would make of them.
LEMMA ProjectedSteps ==
    ASSUME NEW D \in DashboardState, AllVisitsOK(D), NEW e \in ServerEvent, Sound(e),
           LET x == Cell(D.visits[e.place], e.person)
           IN  /\ e.name = "AttendeePassthroughScan" => IsBlank(x)
               /\ e.name = "AttendeeQuit" => ~IsBlank(x)
    PROVE  /\ Steps(Projected(D, e).visits[e.place], D.visits[e.place], e)
           /\ \A c \in Place : c # e.place => Projected(D, e).visits[c] = D.visits[c]
<1>. DEFINE b == e.place
            p == e.person
            V == D.visits[b]
            x == Cell(V, p)
            E == Projected(D, e)
            Goal(F) == /\ Steps(F.visits[b], V, e)
                       /\ \A c \in Place : c # b => F.visits[c] = D.visits[c]
<1>1. /\ b \in Place /\ p \in Person /\ e.time \in Nat /\ e.time # 0 /\ Null = 0
      /\ V \in SUBSET Visit /\ VisitsOK(V)
  BY ChangedAt DEF ServerEvent, Sound, AllVisitsOK, Null
<1>2. /\ HasVisit(V, p) <=> ~IsBlank(x)
      /\ HasVisit(V, p) => x = CellOf(TheVisit(V, p))
      /\ ~HasVisit(V, p) => x = NoCell
      /\ HasVisit(V, p) => TheVisit(V, p) \in Visit /\ TheVisit(V, p).person = p
  <2>1. HasVisit(V, p) <=> ~IsBlank(x)
    BY <1>1, PresentIs
  <2>2. HasVisit(V, p) => TheVisit(V, p) \in Visit /\ TheVisit(V, p).person = p
    BY <1>1, TheVisitIs
  <2>. QED  BY <2>1, <2>2 DEF Cell
<1>3. \E in, out, quit : x = [in |-> in, out |-> out, quit |-> quit]
  BY DEF Cell, CellOf, NoCell
<1>4. ASSUME NEW in \in Nat, NEW out \in Nat, in # 0 \/ out # 0, NEW F,
             F.visits = ApplyScan(D, e, in, out).visits,
             CellAfter(x, e) = [in |-> Given(in, x.in), out |-> Given(out, x.out), quit |-> x.quit]
      PROVE  Goal(F)
  <2>. DEFINE W == AddOrUpdateVisit(V, p, in, out)
  <2>1. F.visits = [D.visits EXCEPT ![b] = W]
    BY <1>4, ApplyScanIs
  <2>2. Steps(W, V, e)
    BY <1>1, <1>4, UpdatedSteps
  <2>. HIDE DEF W, b
  <2>3. F.visits[b] = W /\ \A c \in Place : c # b => F.visits[c] = D.visits[c]
    BY <1>1, <2>1 DEF DashboardState
  <2>. QED  BY <2>2, <2>3
<1>5. ASSUME NEW F, F.visits = D.visits, CellAfter(x, e) = x PROVE Goal(F)
  <2>1. Steps(V, V, e)
    BY <1>1, <1>5 DEF Steps
  <2>. QED  BY <1>5, <2>1
<1>6. ASSUME NEW F, F \in DashboardState
      PROVE  /\ RemoveExpectedHere(F, p, b).visits = F.visits
             /\ AddExpectedAt(F, p, b).visits = F.visits
             /\ AddExpectedAt(F, p, b) \in DashboardState
             /\ RemoveExpectedHere(AddExpectedAt(F, p, b), p, b).visits = F.visits
  <2>. HIDE DEF b, p
  <2>1. AddExpectedAt(F, p, b).visits = F.visits /\ AddExpectedAt(F, p, b) \in DashboardState
    BY <1>1, <1>6, AddExpectedIs
  <2>. DEFINE G == AddExpectedAt(F, p, b)
  <2>. HIDE DEF G
  <2>2. G \in DashboardState /\ G.visits = F.visits
    BY <2>1 DEF G
  <2>3. RemoveExpectedHere(F, p, b).visits = F.visits
    BY <1>1, <1>6, RemoveHereIs
  <2>4. RemoveExpectedHere(G, p, b).visits = G.visits
    BY <1>1, <2>2, RemoveHereIs
  <2>. QED  BY <2>1, <2>2, <2>3, <2>4 DEF G
<1>7. \A in \in Nat, out \in Nat : ApplyScan(D, e, in, out) \in DashboardState
  BY ApplyScanIs
<1>. HIDE DEF Goal, x, V, b, p
<1>8. CASE e.name = "AttendeeScanIn"
  <2>1. E.visits = ApplyScan(D, e, e.time, Null).visits
    BY <1>1, <1>6, <1>7, <1>8 DEF Projected, b, p
  <2>2. CellAfter(x, e) = [in |-> Given(e.time, x.in), out |-> Given(Null, x.out), quit |-> x.quit]
    BY <1>1, <1>3, <1>8 DEF CellAfter, Given
  <2>. QED  BY <1>1, <1>4, <2>1, <2>2 DEF Goal, b, V, p
<1>9. CASE e.name = "AttendeeScanOut"
  <2>1. E.visits = ApplyScan(D, e, Null, e.time).visits
    BY <1>1, <1>6, <1>7, <1>9 DEF Projected, b, p
  <2>2. CellAfter(x, e) = [in |-> Given(Null, x.in), out |-> Given(e.time, x.out), quit |-> x.quit]
    BY <1>1, <1>3, <1>9 DEF CellAfter, Given
  <2>. QED  BY <1>1, <1>4, <2>1, <2>2 DEF Goal, b, V, p
<1>10. CASE e.name = "AttendeePassthroughScan"
  <2>1. E.visits = ApplyScan(D, e, e.time, e.time).visits
    BY <1>1, <1>6, <1>7, <1>10 DEF Projected, b, p
  <2>2. IsBlank(x) /\ x = NoCell
    BY <1>2, <1>10 DEF x, V, b, p
  <2>3. CellAfter(x, e) =
           [in |-> Given(e.time, x.in), out |-> Given(e.time, x.out), quit |-> x.quit]
    BY <1>1, <1>10, <2>2 DEF CellAfter, Given, NoCell
  <2>. QED  BY <1>1, <1>4, <2>1, <2>3 DEF Goal, b, V, p
<1>11. CASE e.name = "AttendeeScanInRemoved"
  <2>1. E = ScanInRemoved(D, e)
    BY <1>11 DEF Projected
  <2>. DEFINE W == {v \in V : v.person # p}
  <2>2. E.visits = [D.visits EXCEPT ![b] = W]
    BY <2>1, ScanInRemovedIs DEF V, b, p
  <2>3. CellAfter(x, e) = NoCell
    BY <1>11 DEF CellAfter
  <2>4. Instead(V, W, p, {})
    BY DEF Instead
  <2>. HIDE DEF W
  <2>5. E.visits[b] = W /\ \A c \in Place : c # b => E.visits[c] = D.visits[c]
    BY <1>1, <2>2 DEF DashboardState
  <2>6. Steps(W, V, e)
    BY <1>1, <2>3, <2>4, InsteadIs DEF Steps, p, x
  <2>. QED  BY <2>5, <2>6 DEF Goal, b, V, p
<1>12. CASE e.name \in {"AttendeeScanOutRemoved", "AttendeeQuit"} /\ HasVisit(V, p)
  <2>. DEFINE v == TheVisit(V, p)
              new == IF e.name = "AttendeeQuit" THEN [v EXCEPT !.quit = TRUE]
                                                ELSE [v EXCEPT !.out = Null]
              left == {w \in {new} : e.name = "AttendeeQuit" \/ v.in # Null}
  <2>1. v \in Visit /\ v.person = p /\ x = CellOf(v) /\ (v.in # 0 \/ v.out # 0)
    BY <1>1, <1>2, <1>12, TheVisitIs DEF VisitsOK
  <2>2. Replaced(E, D, e, left)
    <3>1. CASE e.name = "AttendeeQuit"
      <4>1. left = {[v EXCEPT !.quit = TRUE]}
        <5>. HIDE DEF v
        <5>. QED  BY <3>1
      <4>2. Replaced(QuitAt(D, e), D, e, {[v EXCEPT !.quit = TRUE]})
        BY <1>12, QuitAtIs DEF V, b, p
      <4>. HIDE DEF left, v
      <4>. QED  BY <3>1, <4>1, <4>2 DEF Projected
    <3>2. CASE e.name = "AttendeeScanOutRemoved"
      <4>1. left = {w \in {[v EXCEPT !.out = Null]} : v.in # Null}
        <5>. HIDE DEF v
        <5>. QED  BY <3>2
      <4>2. Replaced(ScanOutRemoved(D, e), D, e, {w \in {[v EXCEPT !.out = Null]} : v.in # Null})
        BY <1>12, ScanOutRemovedIs DEF V, b, p
      <4>. HIDE DEF left, v
      <4>. QED  BY <3>2, <4>1, <4>2 DEF Projected
    <3>. QED  BY <1>12, <3>1, <3>2
  <2>. HIDE DEF v
  <2>3. /\ new.person = p /\ new.in = v.in
        /\ new.out = (IF e.name = "AttendeeQuit" THEN v.out ELSE 0)
        /\ new.quit = (IF e.name = "AttendeeQuit" THEN TRUE ELSE v.quit)
    <3>1. v = [person |-> v.person, in |-> v.in, out |-> v.out, quit |-> v.quit]
      BY <2>1 DEF Visit
    <3>2. CASE e.name = "AttendeeQuit"
      <4>1. new = [v EXCEPT !.quit = TRUE]
        BY <3>2
      <4>2. new.person = p /\ new.in = v.in /\ new.out = v.out /\ new.quit = TRUE
        BY <2>1, <3>1, <4>1
      <4>. QED  BY <3>2, <4>2
    <3>3. CASE e.name # "AttendeeQuit"
      BY <1>1, <2>1, <3>1, <3>3
    <3>. QED  BY <3>2, <3>3
  <2>4. ~IsBlank(x)
    BY <2>1 DEF CellOf, IsBlank
  <2>5. e.name = "AttendeeQuit" => CellAfter(x, e) = [x EXCEPT !.quit = TRUE]
    BY <2>4 DEF CellAfter
  <2>6. e.name = "AttendeeScanOutRemoved" =>
           CellAfter(x, e) = IF x.in # 0 THEN [x EXCEPT !.out = 0] ELSE NoCell
    BY DEF CellAfter
  <2>. HIDE DEF new
  <2>7. \A w \in left : /\ w.person = e.person /\ w.in \in Nat /\ w.out \in Nat
                        /\ w.in # 0 \/ w.out # 0
    BY <1>1, <1>12, <2>1, <2>3 DEF Visit, p
  <2>8. \/ left = {} /\ CellAfter(x, e) = NoCell
        \/ \E u : left = {u} /\ CellAfter(x, e) = CellOf(u)
    <3>1. CASE e.name = "AttendeeQuit"
      <4>1. left = {new}
        BY <3>1
      <4>2. CellOf(new) = [in |-> v.in, out |-> v.out, quit |-> TRUE]
        BY <2>3, <3>1 DEF CellOf
      <4>3. x = [in |-> v.in, out |-> v.out, quit |-> v.quit]
        BY <2>1 DEF CellOf
      <4>4. \A z, d : (\E q : z = [in |-> v.in, out |-> v.out, quit |-> q]) =>
                         [z EXCEPT !.quit = d] = [in |-> v.in, out |-> v.out, quit |-> d]
        BY ONLY TRUE
      <4>5. (\E q : x = [in |-> v.in, out |-> v.out, quit |-> q]) =>
               [x EXCEPT !.quit = TRUE] = [in |-> v.in, out |-> v.out, quit |-> TRUE]
        BY ONLY <4>4, Zenon
      <4>6. \E q : x = [in |-> v.in, out |-> v.out, quit |-> q]
        BY <4>3
      <4>7. CellAfter(x, e) = CellOf(new)
        BY <2>5, <3>1, <4>2, <4>5, <4>6
      <4>. QED  BY <4>1, <4>7
    <3>2. CASE e.name = "AttendeeScanOutRemoved" /\ v.in # 0
      <4>1. left = {new}
        BY <1>1, <3>2
      <4>2. CellAfter(x, e) = CellOf(new)
        BY <2>1, <2>3, <2>6, <3>2 DEF CellOf
      <4>. QED  BY <4>1, <4>2
    <3>3. CASE e.name = "AttendeeScanOutRemoved" /\ v.in = 0
      <4>1. left = {}
        BY <1>1, <3>3
      <4>2. CellAfter(x, e) = NoCell
        BY <2>1, <2>6, <3>3 DEF CellOf
      <4>. QED  BY <4>1, <4>2
    <3>. QED  BY <1>12, <3>1, <3>2, <3>3
  <2>. HIDE DEF left, E
  <2>9. /\ Steps(E.visits[e.place], D.visits[e.place], e)
        /\ \A c \in Place : c # e.place => E.visits[c] = D.visits[c]
    <3>1. /\ HasVisit(D.visits[e.place], e.person) /\ VisitsOK(D.visits[e.place])
          /\ x = CellOf(TheVisit(D.visits[e.place], e.person))
      BY <1>1, <1>12, <2>1 DEF V, b, p, v
    <3>. HIDE DEF Steps
    <3>. QED  BY <2>2, <2>7, <2>8, <3>1, ReplacedSteps
  <2>. QED  BY <2>9 DEF b, V, p, E
<1>13. CASE e.name \in {"AttendeeScanOutRemoved", "AttendeeQuit"} /\ ~HasVisit(V, p)
  <2>1. x = NoCell /\ IsBlank(x)
    BY <1>2, <1>13
  <2>2. e.name = "AttendeeScanOutRemoved"
    BY <1>13, <2>1 DEF x, V, b, p
  <2>3. E = D
    BY <1>13, <2>2, ScanOutRemovedIs DEF Projected, V, b, p
  <2>4. CellAfter(x, e) = x
    BY <2>1, <2>2 DEF CellAfter, NoCell
  <2>. QED  BY <1>5, <2>3, <2>4 DEF Goal, b, V, p
<1>14. CASE e.name \notin {"AttendeeScanIn", "AttendeeScanOut", "AttendeePassthroughScan",
                           "AttendeeScanInRemoved", "AttendeeScanOutRemoved", "AttendeeQuit"}
  <2>1. E = D
    BY <1>14 DEF Projected, Sound
  <2>2. CellAfter(x, e) = x
    BY <1>14 DEF CellAfter
  <2>. QED  BY <1>5, <2>1, <2>2 DEF Goal, b, V, p
<1>. QED  BY <1>8, <1>9, <1>10, <1>11, <1>12, <1>13, <1>14

\* An event from the server steps the cells of the page.
LEMMA ViewSteps ==
    ASSUME NEW V \in ViewState, AllVisitsOK(V), NEW e \in ServerEvent, Sound(e)
    PROVE  /\ ViewApplied(V, e).hasQuit = V.hasQuit
           /\ Steps(ViewApplied(V, e).visits[e.place], V.visits[e.place], e)
           /\ \A c \in Place : c # e.place => ViewApplied(V, e).visits[c] = V.visits[c]
<1>. DEFINE b == e.place
            p == e.person
            X == V.visits[b]
            E == ViewApplied(V, e)
            Goal == /\ E.hasQuit = V.hasQuit
                    /\ Steps(E.visits[b], X, e)
                    /\ \A c \in Place : c # b => E.visits[c] = V.visits[c]
<1>1. /\ b \in Place /\ p \in Person /\ e.time \in Nat /\ e.time # 0 /\ e.time > 0
      /\ X \in SUBSET ViewVisit /\ VisitsOK(X)
      /\ ScanTimestamp(e) = e.time /\ Parsed(e.time) = e.time
  BY DEF ServerEvent, Sound, AllVisitsOK, ViewState, ScanTimestamp, Parsed, IsTime
<1>2. /\ V = [visits |-> V.visits, waitingFor |-> V.waitingFor, hasQuit |-> V.hasQuit]
      /\ V.visits \in [Place -> SUBSET ViewVisit]
  BY DEF ViewState
<1>3. /\ HasVisit(X, p) <=> \E v \in X : v.person = p
      /\ ScanType(e) # "none" => RemovedType(e) = "none"
  BY <1>1, PresentIs DEF ScanType, RemovedType
<1>4. ASSUME NEW W, \/ E = [V EXCEPT !.visits[b] = W]
                    \/ \E Q : E = [V EXCEPT !.visits[b] = W, !.waitingFor[b] = Q],
             Steps(W, X, e)
      PROVE  Goal
  <2>1. E.hasQuit = V.hasQuit /\ E.visits = [V.visits EXCEPT ![b] = W]
    <3>. HIDE DEF E, b, p
    <3>. QED  BY <1>2, <1>4
  <2>. HIDE DEF E, b
  <2>2. E.visits[b] = W /\ \A c \in Place : c # b => E.visits[c] = V.visits[c]
    BY <1>1, <1>2, <2>1
  <2>. QED  BY <1>4, <2>1, <2>2
<1>5. ASSUME E = V, CellAfter(Cell(X, p), e) = Cell(X, p) PROVE Goal
  <2>1. Steps(X, X, e)
    BY <1>1, <1>5 DEF Steps
  <2>. QED  BY <1>5, <2>1
<1>6. CASE ScanType(e) # "none" /\ HasVisit(X, p)
  <2>. DEFINE W == {IF v.person = p THEN VisitApplied(v, e) ELSE v : v \in X}
  <2>1. E = [V EXCEPT !.visits[b] = W]
    <3>1. E = ApplyScanFromServer(V, e)
      BY <1>3, <1>6 DEF ViewApplied
    <3>. HIDE DEF E
    <3>. QED  BY <1>1, <1>2, <1>6, <3>1 DEF ApplyScanFromServer, ViewState
  <2>2. PICK v \in X : v.person = p
    BY <1>3, <1>6
  <2>3. \A u \in X : u.person = p => u = v
    BY <1>1, <2>2 DEF VisitsOK, OneEach
  <2>. DEFINE new == VisitApplied(v, e)
              x == CellOf(v)
  <2>4. /\ v = [person |-> v.person, in |-> v.in, out |-> v.out, quit |-> v.quit, held |-> v.held]
        /\ v.in \in Nat /\ v.out \in Nat /\ (v.in # 0 \/ v.out # 0)
    BY <1>1, <2>2 DEF ViewVisit, VisitsOK
  <2>5. ~IsBlank(x) /\ x = [in |-> v.in, out |-> v.out, quit |-> v.quit]
    BY <2>4 DEF IsBlank, CellOf
  <2>6. /\ new.person = p /\ new.in \in Nat /\ new.out \in Nat /\ (new.in # 0 \/ new.out # 0)
        /\ CellAfter(x, e) = CellOf(new)
    <3>. HIDE DEF x
    <3>1. CASE e.name = "AttendeeScanIn"
      <4>1. new = [v EXCEPT !.in = e.time]
        BY <1>1, <3>1 DEF VisitApplied, ScanType
      <4>2. new.person = p /\ new.in = e.time /\ new.out = v.out /\ new.quit = v.quit
        BY <2>2, <2>4, <4>1
      <4>3. CellAfter(x, e) = [in |-> e.time, out |-> v.out, quit |-> v.quit]
        BY <2>5, <3>1 DEF CellAfter
      <4>. HIDE DEF new
      <4>. QED  BY <1>1, <2>4, <4>2, <4>3 DEF CellOf
    <3>2. CASE e.name = "AttendeeScanOut"
      <4>1. new = [v EXCEPT !.out = e.time]
        BY <1>1, <3>2 DEF VisitApplied, ScanType
      <4>2. new.person = p /\ new.in = v.in /\ new.out = e.time /\ new.quit = v.quit
        BY <2>2, <2>4, <4>1
      <4>3. CellAfter(x, e) = [in |-> v.in, out |-> e.time, quit |-> v.quit]
        BY <2>5, <3>2 DEF CellAfter
      <4>. HIDE DEF new
      <4>. QED  BY <1>1, <2>4, <4>2, <4>3 DEF CellOf
    <3>3. CASE e.name = "AttendeeQuit"
      <4>1. new = [v EXCEPT !.quit = TRUE]
        BY <3>3 DEF VisitApplied, ScanType
      <4>2. new.person = p /\ new.in = v.in /\ new.out = v.out /\ new.quit = TRUE
        BY <2>2, <2>4, <4>1
      <4>3. \A z, d : (\E q : z = [in |-> v.in, out |-> v.out, quit |-> q]) =>
                         [z EXCEPT !.quit = d] = [in |-> v.in, out |-> v.out, quit |-> d]
        BY ONLY TRUE
      <4>4. (\E q : x = [in |-> v.in, out |-> v.out, quit |-> q]) =>
               [x EXCEPT !.quit = TRUE] = [in |-> v.in, out |-> v.out, quit |-> TRUE]
        BY ONLY <4>3, Zenon
      <4>5. \E q : x = [in |-> v.in, out |-> v.out, quit |-> q]
        BY <2>5
      <4>6. CellAfter(x, e) = [x EXCEPT !.quit = TRUE]
        BY <2>5, <3>3 DEF CellAfter
      <4>7. CellAfter(x, e) = [in |-> v.in, out |-> v.out, quit |-> TRUE]
        BY <4>4, <4>5, <4>6
      <4>. HIDE DEF new
      <4>8. CellOf(new) = [in |-> v.in, out |-> v.out, quit |-> TRUE]
        BY <4>2 DEF CellOf
      <4>. QED  BY <2>4, <4>2, <4>7, <4>8
    <3>4. CASE e.name \notin {"AttendeeScanIn", "AttendeeScanOut", "AttendeeQuit"}
      <4>1. e.name = "AttendeePassthroughScan"
        BY <1>6, <3>4 DEF ScanType, Sound
      <4>2. new = v
        BY <4>1 DEF VisitApplied, ScanType
      <4>3. CellAfter(x, e) = x
        BY <2>5, <4>1 DEF CellAfter
      <4>. QED  BY <2>2, <2>4, <4>2, <4>3 DEF x
    <3>. QED  BY <3>1, <3>2, <3>3, <3>4
  <2>. HIDE DEF new
  <2>7. Instead(X, W, p, {new})
    <3>1. \A u : u.person # p => (u \in W <=> u \in X)
      BY <2>2, <2>3, <2>6 DEF new
    <3>2. \A u : u.person = p => (u \in W <=> u \in {new})
      BY <2>2, <2>3, <2>6 DEF new
    <3>. QED  BY <2>6, <3>1, <3>2 DEF Instead
  <2>8. \E u : {new} = {u} /\ CellAfter(CellOf(v), e) = CellOf(u)
    BY <2>6
  <2>. HIDE DEF W
  <2>9. Steps(W, X, e)
    BY <1>1, <2>2, <2>7, <2>8, StepsThere
  <2>. QED  BY <1>4, <2>1, <2>9
<1>7. CASE ScanType(e) # "none" /\ ~HasVisit(X, p)
  <2>. DEFINE new == NewPageVisit(e)
              W == X \cup {new}
  <2>1. E = [V EXCEPT !.visits[b] = W, !.waitingFor[b] = V.waitingFor[b] \ {p}]
    <3>1. E = ApplyScanFromServer(V, e)
      BY <1>3, <1>7 DEF ViewApplied
    <3>. HIDE DEF E
    <3>. QED  BY <1>1, <1>2, <1>7, <3>1 DEF ApplyScanFromServer, ViewState
  <2>2. \A v \in X : v.person # p
    BY <1>3, <1>7
  <2>3. /\ new.person = p /\ new.quit = FALSE
        /\ new.in = IF ScanType(e) = "out" THEN 0 ELSE e.time
        /\ new.out = IF ScanType(e) \in {"out", "passthrough"} THEN e.time ELSE 0
    BY <1>1 DEF NewPageVisit, PageVisit
  <2>4. new.in \in Nat /\ new.out \in Nat /\ (new.in # 0 \/ new.out # 0)
    BY <1>1, <2>3
  <2>5. CellAfter(NoCell, e) = CellOf(new)
    <3>. HIDE DEF new
    <3>1. IsBlank(NoCell)
      BY DEF IsBlank, NoCell
    <3>2. CASE e.name = "AttendeeScanIn"
      BY <2>3, <3>2 DEF CellAfter, CellOf, NoCell, ScanType
    <3>3. CASE e.name = "AttendeeScanOut"
      BY <2>3, <3>3 DEF CellAfter, CellOf, NoCell, ScanType
    <3>4. CASE e.name = "AttendeePassthroughScan"
      BY <2>3, <3>1, <3>4 DEF CellAfter, CellOf, ScanType
    <3>5. CASE e.name = "AttendeeQuit"
      BY <2>3, <3>1, <3>5 DEF CellAfter, CellOf, ScanType
    <3>. QED  BY <1>7, <3>2, <3>3, <3>4, <3>5 DEF ScanType, Sound
  <2>. HIDE DEF new
  <2>6. Instead(X, W, p, {new})
    BY <2>2, <2>3, <2>4 DEF Instead
  <2>7. \E u : {new} = {u} /\ CellAfter(NoCell, e) = CellOf(u)
    BY <2>5
  <2>. HIDE DEF W
  <2>8. Steps(W, X, e)
    BY <1>1, <2>2, <2>6, <2>7, StepsNew
  <2>. QED  BY <1>4, <2>1, <2>8
<1>8. CASE ScanType(e) = "none" /\ RemovedType(e) # "none"
  <2>. DEFINE W == UNION {IF v.person = p THEN VisitLeft(v, e) ELSE {v} : v \in X}
  <2>1. E = [V EXCEPT !.visits[b] = W]
    BY <1>1, <1>2, <1>8 DEF ViewApplied, ApplyRemoveScanFromServer
  <2>2. e.name \in {"AttendeeScanInRemoved", "AttendeeScanOutRemoved"} /\ RemovedType(e) # "quit"
    BY <1>8 DEF RemovedType, Sound
  <2>3. CASE HasVisit(X, p)
    <3>1. PICK v \in X : v.person = p
      BY <1>3, <2>3
    <3>2. \A u \in X : u.person = p => u = v
      BY <1>1, <3>1 DEF VisitsOK, OneEach
    <3>. DEFINE left == VisitLeft(v, e)
    <3>3. /\ v = [person |-> v.person, in |-> v.in, out |-> v.out, quit |-> v.quit, held |-> v.held]
          /\ v.in \in Nat /\ v.out \in Nat
      BY <1>1, <3>1 DEF ViewVisit, VisitsOK
    <3>4. \/ left = {} /\ CellAfter(CellOf(v), e) = NoCell
          \/ /\ left = {[v EXCEPT !.out = 0]} /\ v.in # 0
             /\ CellAfter(CellOf(v), e) = [in |-> v.in, out |-> 0, quit |-> v.quit]
      <4>1. CASE e.name = "AttendeeScanInRemoved"
        <5>1. left = {}
          BY <4>1 DEF VisitLeft, RemovedType
        <5>2. CellAfter(CellOf(v), e) = NoCell
          BY <4>1 DEF CellAfter
        <5>. QED  BY <5>1, <5>2
      <4>2. CASE e.name = "AttendeeScanOutRemoved" /\ v.in # 0
        <5>1. left = {[v EXCEPT !.out = 0]}
          BY <3>3, <4>2 DEF VisitLeft, RemovedType, IsTime
        <5>2. CellAfter(CellOf(v), e) = [in |-> v.in, out |-> 0, quit |-> v.quit]
          BY <4>2 DEF CellAfter, CellOf
        <5>. QED  BY <4>2, <5>1, <5>2
      <4>3. CASE e.name = "AttendeeScanOutRemoved" /\ v.in = 0
        <5>1. left = {}
          BY <3>3, <4>3 DEF VisitLeft, RemovedType, IsTime
        <5>2. CellAfter(CellOf(v), e) = NoCell
          BY <4>3 DEF CellAfter, CellOf
        <5>. QED  BY <5>1, <5>2
      <4>. QED  BY <2>2, <4>1, <4>2, <4>3
    <3>. DEFINE new == [v EXCEPT !.out = 0]
    <3>5. new.person = p /\ new.in = v.in /\ new.out = 0 /\ new.quit = v.quit
      BY <3>1, <3>3
    <3>. HIDE DEF left, new
    <3>6. left \in {{}, {new}} /\ (left # {} => v.in # 0)
      BY <3>4 DEF new
    <3>7. \A w \in left : /\ w.person = p /\ w.in \in Nat /\ w.out \in Nat
                          /\ w.in # 0 \/ w.out # 0
      BY <3>3, <3>5, <3>6
    <3>8. Instead(X, W, p, left)
      <4>1. \A u : u.person # p => (u \in W <=> u \in X)
        BY <3>1, <3>2, <3>7 DEF left
      <4>2. \A u : u.person = p => (u \in W <=> u \in left)
        BY <3>1, <3>2 DEF left
      <4>. QED  BY <3>6, <3>7, <4>1, <4>2 DEF Instead
    <3>9. \/ left = {} /\ CellAfter(CellOf(v), e) = NoCell
          \/ \E u : left = {u} /\ CellAfter(CellOf(v), e) = CellOf(u)
      <4>1. CellOf(new) = [in |-> v.in, out |-> 0, quit |-> v.quit]
        BY <3>5 DEF CellOf
      <4>. QED  BY <3>4, <4>1 DEF new
    <3>. HIDE DEF W
    <3>10. Steps(W, X, e)
      BY <1>1, <3>1, <3>8, <3>9, StepsThere
    <3>. QED  BY <1>4, <2>1, <3>10
  <2>4. CASE ~HasVisit(X, p)
    <3>1. \A v \in X : v.person # p
      BY <1>3, <2>4
    <3>2. CellAfter(NoCell, e) = NoCell
      BY <2>2 DEF CellAfter, NoCell
    <3>3. Instead(X, W, p, {})
      BY <3>1 DEF Instead
    <3>. HIDE DEF W
    <3>4. Steps(W, X, e)
      BY <1>1, <3>1, <3>2, <3>3, StepsNew
    <3>. QED  BY <1>4, <2>1, <3>4
  <2>. QED  BY <2>3, <2>4
<1>9. CASE ScanType(e) = "none" /\ RemovedType(e) = "none"
  <2>1. E = V
    BY <1>9 DEF ViewApplied
  <2>2. CellAfter(Cell(X, p), e) = Cell(X, p)
    BY <1>9 DEF CellAfter, ScanType, RemovedType
  <2>. QED  BY <1>5, <2>1, <2>2
<1>. QED  BY <1>6, <1>7, <1>8, <1>9

\* The page reads the cells of the data as they are.
LEMMA LoadedCells ==
    ASSUME NEW D \in DashboardState, AllVisitsOK(D)
    PROVE  /\ AllVisitsOK(DataInit(D))
           /\ \A c \in Place : \A p : Cell(DataInit(D).visits[c], p) = Cell(D.visits[c], p)
           /\ \A p : p \in DataInit(D).hasQuit <=>
                        p \in Person /\ \E c \in Place : Cell(D.visits[c], p).quit
<1>1. ASSUME NEW c \in Place
      PROVE  /\ VisitsOK(DataInit(D).visits[c])
             /\ \A p : Cell(DataInit(D).visits[c], p) = Cell(D.visits[c], p)
  <2>. DEFINE X == D.visits[c]
              row(v) == PageVisit(v.person, Parsed(v.in), Parsed(v.out), v.quit,
                                  IsQuitVisit(D.visits, c, v.person))
              Y == {row(v) : v \in X}
  <2>1. DataInit(D).visits[c] = Y
    BY DEF DataInit, MapVisits
  <2>2. VisitsOK(X)
    BY DEF AllVisitsOK
  <2>3. ASSUME NEW v \in X
        PROVE  /\ row(v).person = v.person /\ row(v).in = v.in /\ row(v).out = v.out
               /\ CellOf(row(v)) = CellOf(v)
    <3>1. v.in \in Nat /\ v.out \in Nat
      BY <2>2 DEF VisitsOK
    <3>2. Parsed(v.in) = v.in /\ Parsed(v.out) = v.out
      BY <3>1 DEF Parsed, IsTime
    <3>. QED  BY <3>2 DEF PageVisit, CellOf
  <2>. HIDE DEF row
  <2>4. VisitsOK(Y)
    <3>1. OneEach(Y)
      BY <2>2, <2>3 DEF VisitsOK, OneEach
    <3>2. \A y \in Y : y.in \in Nat /\ y.out \in Nat /\ (y.in # 0 \/ y.out # 0)
      BY <2>2, <2>3 DEF VisitsOK
    <3>. QED  BY <3>1, <3>2 DEF VisitsOK
  <2>5. ASSUME NEW p PROVE Cell(Y, p) = Cell(X, p)
    <3>1. CASE \E v \in X : v.person = p
      <4>1. PICK v \in X : v.person = p
        BY <3>1
      <4>2. Cell(X, p) = CellOf(v)
        BY <2>2, <4>1, CellIs DEF VisitsOK
      <4>3. row(v) \in Y /\ row(v).person = p
        BY <2>3, <4>1
      <4>4. Cell(Y, p) = CellOf(row(v))
        BY <2>4, <4>3, CellIs DEF VisitsOK
      <4>. QED  BY <2>3, <4>2, <4>4
    <3>2. CASE ~\E v \in X : v.person = p
      <4>1. Cell(X, p) = NoCell
        BY <2>2, <3>2, CellIs DEF VisitsOK
      <4>2. \A y \in Y : y.person # p
        BY <2>3, <3>2
      <4>3. Cell(Y, p) = NoCell
        BY <2>4, <4>2, CellIs DEF VisitsOK
      <4>. QED  BY <4>1, <4>3
    <3>. QED  BY <3>1, <3>2
  <2>. QED  BY <2>1, <2>4, <2>5
<1>2. ASSUME NEW p, NEW c \in Place
      PROVE  Cell(D.visits[c], p).quit <=> \E v \in D.visits[c] : v.person = p /\ v.quit
  <2>1. VisitsOK(D.visits[c])
    BY DEF AllVisitsOK
  <2>2. CASE \E v \in D.visits[c] : v.person = p
    <3>1. PICK v \in D.visits[c] : v.person = p
      BY <2>2
    <3>2. Cell(D.visits[c], p) = CellOf(v) /\ \A u \in D.visits[c] : u.person = p => u = v
      BY <2>1, <3>1, CellIs DEF VisitsOK, OneEach
    <3>. QED  BY <3>1, <3>2 DEF CellOf
  <2>3. CASE ~\E v \in D.visits[c] : v.person = p
    <3>1. Cell(D.visits[c], p) = NoCell
      BY <2>1, <2>3, CellIs DEF VisitsOK
    <3>. QED  BY <2>3, <3>1 DEF NoCell
  <2>. QED  BY <2>2, <2>3
<1>3. \A p : p \in DataInit(D).hasQuit <=>
                p \in Person /\ \E c \in Place : Cell(D.visits[c], p).quit
  BY <1>2 DEF DataInit, HasQuit, QuitPlaces
<1>4. AllVisitsOK(DataInit(D))
  BY <1>1 DEF AllVisitsOK
<1>. QED  BY <1>1, <1>3, <1>4

\* A cell that follows the events of a command follows those of them that go out: the page does
\* nothing with the others.
LEMMA LeadsRouted ==
    ASSUME NEW c, c.place \in Place, EventsOf(c) \in Seq(ServerRow), NEW d, NEW p, NEW g,
           \A n \in 1 .. Len(EventsOf(c)) :
              g[n] = CellStep(g[n - 1], Published(c.place, EventsOf(c)[n]), d, p)
    PROVE  Leads(g[0], g[Len(EventsOf(c))], PublishedBy(c), d, p)
<1>. DEFINE events == EventsOf(c)
            N == Len(events)
            T == Seq(ServerEvent)
<1>1. N \in Nat /\ \A n \in 1 .. N : events[n] \in ServerRow
  OBVIOUS
<1>2. PICK f : PublishedAfter(f, c)
  BY PublishedRecursion
<1>. HIDE DEF events
<1>3. /\ f \in [0 .. N -> T] /\ f[0] = <<>> /\ PublishedBy(c) = f[N]
      /\ \A n \in 1 .. N : f[n] = IF IsRouted(events[n])
                                    THEN Append(f[n - 1], Published(c.place, events[n]))
                                    ELSE f[n - 1]
  BY <1>2 DEF PublishedAfter, events
<1>4. \A n \in 1 .. N : g[n] = CellStep(g[n - 1], Published(c.place, events[n]), d, p)
  BY DEF events
<1>5. ASSUME NEW n \in 1 .. N PROVE Published(c.place, events[n]) \in ServerEvent
  BY <1>1 DEF ServerRow, ServerEvent, Published
<1>. DEFINE S == {n \in 0 .. N : Leads(g[0], g[n], f[n], d, p)}
<1>. HIDE DEF N, T
<1>6. 0 \in S
  <2>1. 0 \in 0 .. N
    BY <1>1
  <2>2. Leads(g[0], g[0], f[0], d, p)
    BY <1>3, LeadsNowhere
  <2>. QED  BY <2>1, <2>2
<1>7. ASSUME NEW n \in 0 .. N, n \in S, n < N
      PROVE  n + 1 \in S
  <2>. DEFINE m == n + 1
              e == Published(c.place, events[m])
  <2>1. m \in 1 .. N /\ m - 1 = n /\ m \in 0 .. N
    BY <1>1, <1>7
  <2>2. Leads(g[0], g[n], f[n], d, p) /\ f[n] \in T
    BY <1>3, <1>7
  <2>3. /\ g[m] = CellStep(g[n], e, d, p) /\ e \in ServerEvent
        /\ f[m] = IF IsRouted(events[m]) THEN Append(f[n], e) ELSE f[n]
    BY <1>3, <1>4, <1>5, <2>1
  <2>4. e.name = events[m].type
    BY DEF Published
  <2>. HIDE DEF m, e
  <2>5. CASE IsRouted(events[m])
    <3>1. Leads(g[n], g[m], <<e>>, d, p)
      BY <2>3, LeadsOnce
    <3>2. f[m] = f[n] \o <<e>> /\ <<e>> \in T
      BY <2>2, <2>3, <2>5 DEF T
    <3>3. Leads(g[0], g[m], f[m], d, p)
      BY <2>2, <3>1, <3>2, LeadsOn DEF T
    <3>. QED  BY <2>1, <3>3 DEF m
  <2>6. CASE ~IsRouted(events[m])
    <3>1. g[m] = g[n]
      BY <2>3, <2>4, <2>6 DEF CellStep, CellAfter, IsRouted
    <3>2. f[m] = f[n]
      BY <2>3, <2>6
    <3>. QED  BY <2>1, <2>2, <3>1, <3>2 DEF m
  <2>. QED  BY <2>5, <2>6
<1>. HIDE DEF S
<1>8. \A n \in 0 .. N : n \in S
  BY <1>1, <1>6, <1>7, UpTo
<1>9. N \in S
  BY <1>1, <1>8
<1>. QED  BY <1>3, <1>9 DEF S, N, events

\* What the events of a command make of the cell of p at d, when all that go out are heard of.
LeadsAsEvents(z, c, d, p) ==
    LET events == EventsOf(c)
        At(n) == Published(c.place, events[n])
        To(y) == Leads(z, y, PublishedBy(c), d, p)
    IN  /\ events \in Seq(EventRow(Person)) =>
              /\ NoneDoes(events) => To(z)
              /\ \A e : OnlyDoes(events, e) => To(CellStep(z, Published(c.place, e), d, p))
        /\ Len(events) = 1 => To(CellStep(z, At(1), d, p))
        /\ Len(events) = 2 => To(CellStep(CellStep(z, At(1), d, p), At(2), d, p))

\* The events of a command one after the other.
LEMMA LeadsPublished ==
    ASSUME NEW c, c.place \in Place, EventsOf(c) \in Seq(ServerRow), NEW d, NEW p,
           NEW z \in CellState
    PROVE  LeadsAsEvents(z, c, d, p)
<1>. DEFINE events == EventsOf(c)
            N == Len(events)
            T == CellState
            At(n) == Published(c.place, events[n])
            step == [n \in 1 .. N |-> [x \in T |-> CellStep(x, At(n), d, p)]]
            To(y) == Leads(z, y, PublishedBy(c), d, p)
<1>1. N \in Nat /\ \A n \in 1 .. N : events[n] \in ServerRow
  OBVIOUS
<1>2. \A n \in 1 .. N, x \in T : CellStep(x, At(n), d, p) \in T
  <2>1. ASSUME NEW n \in 1 .. N PROVE At(n) \in ServerEvent
    BY <1>1 DEF ServerRow, ServerEvent, Published
  <2>. HIDE DEF N, T, At
  <2>. QED  BY <2>1, CellStepIs DEF T
<1>3. step \in [1 .. N -> [T -> T]]
  <2>. HIDE DEF T, N, At
  <2>. QED  BY <1>2
<1>4. PICK g : Recurs(g, N, T, z, step)
  <2>. HIDE DEF step, T, N
  <2>. QED  BY <1>1, <1>3, Recursion DEF T
<1>5. \A n \in 1 .. N, x \in T : step[n][x] = CellStep(x, At(n), d, p)
  <2>. HIDE DEF T, N, At
  <2>. QED  OBVIOUS
<1>. HIDE DEF step
<1>6. g \in [0 .. N -> T] /\ g[0] = z
  BY <1>4 DEF Recurs
<1>7. ASSUME NEW n \in 1 .. N PROVE g[n] = CellStep(g[n - 1], At(n), d, p)
  <2>1. g[n] = step[n][g[n - 1]] /\ g[n - 1] \in T
    BY <1>1, <1>4, <1>6 DEF Recurs
  <2>. QED  BY <1>5, <2>1
<1>8. To(g[N])
  BY <1>6, <1>7, LeadsRouted
<1>9. ASSUME events \in Seq(EventRow(Person))
      PROVE  /\ NoneDoes(events) => g[N] = z
             /\ \A e : OnlyDoes(events, e) => g[N] = CellStep(z, Published(c.place, e), d, p)
  <2>. DEFINE E == {n \in 1 .. N : ChangesNothing(events[n])}
  <2>1. \A n \in 1 .. N : n \in E => g[n] = g[n - 1]
    <3>. SUFFICES ASSUME NEW n \in 1 .. N, ChangesNothing(events[n]) PROVE g[n] = g[n - 1]
      OBVIOUS
    <3>1. events[n] \in EventRow(Person)
      BY <1>9
    <3>2. CellAfter(g[n - 1], At(n)) = g[n - 1]
      BY <3>1 DEF CellAfter, Published, ChangesNothing, EventRow, EventType, AddsIn, AddsOut,
                  RemovesIn, RemovesOut
    <3>. QED  BY <1>7, <3>2 DEF CellStep
  <2>2. /\ (\A n \in 1 .. N : n \in E) => g[N] = g[0]
        /\ \A m \in 1 .. N : (\A n \in 1 .. N : n # m => n \in E) =>
              g[N] = g[m] /\ g[m - 1] = g[0]
    <3>. HIDE DEF E, N
    <3>. QED  BY <1>1, <2>1, OneStep
  <2>3. NoneDoes(events) => g[N] = z
    BY <1>6, <2>2 DEF NoneDoes
  <2>4. ASSUME NEW e, OnlyDoes(events, e) PROVE g[N] = CellStep(z, Published(c.place, e), d, p)
    <3>1. PICK m \in 1 .. N : events[m] = e /\ \A n \in 1 .. N : n # m => ChangesNothing(events[n])
      BY <2>4 DEF OnlyDoes
    <3>. QED  BY <1>6, <1>7, <2>2, <3>1
  <2>. QED  BY <2>3, <2>4
<1>10. N = 1 => g[N] = CellStep(z, At(1), d, p)
  <2>. HIDE DEF N, At
  <2>. QED  BY <1>6, <1>7
<1>11. N = 2 => g[N] = CellStep(CellStep(z, At(1), d, p), At(2), d, p)
  <2>. HIDE DEF N, At
  <2>. QED  BY <1>6, <1>7
<1>. HIDE DEF To
<1>. QED  BY <1>8, <1>9, <1>10, <1>11 DEF LeadsAsEvents, To
\* What goes out are the events that are routed.
LEMMA PublishedAre ==
    ASSUME NEW c, c.place \in Place, EventsOf(c) \in Seq(ServerRow)
    PROVE  \A e : HasRow(PublishedBy(c), e) <=>
                     \E n \in 1 .. Len(EventsOf(c)) :
                        IsRouted(EventsOf(c)[n]) /\ e = Published(c.place, EventsOf(c)[n])
<1>. DEFINE events == EventsOf(c)
            N == Len(events)
            T == Seq(ServerEvent)
            At(n) == Published(c.place, events[n])
            By(n, e) == \E k \in 1 .. n : IsRouted(events[k]) /\ e = At(k)
<1>1. N \in Nat /\ \A n \in 1 .. N : events[n] \in ServerRow
  OBVIOUS
<1>2. PICK f : PublishedAfter(f, c)
  BY PublishedRecursion
<1>3. /\ f \in [0 .. N -> T] /\ f[0] = <<>> /\ PublishedBy(c) = f[N]
      /\ \A n \in 1 .. N : f[n] = IF IsRouted(events[n]) THEN Append(f[n - 1], At(n)) ELSE f[n - 1]
  BY <1>2 DEF PublishedAfter
<1>4. \A n \in 1 .. N : At(n) \in ServerEvent
  BY <1>1 DEF ServerRow, ServerEvent, Published
<1>. DEFINE S == {n \in 0 .. N : \A e : HasRow(f[n], e) <=> By(n, e)}
<1>5. \A n \in 0 .. N : \A e : By(n + 1, e) <=> By(n, e) \/ (IsRouted(events[n + 1]) /\ e = At(n + 1))
  <2>. HIDE DEF events, N, At
  <2>1. \A n \in 0 .. N : \A k : k \in 1 .. n + 1 <=> k \in 1 .. n \/ k = n + 1
    BY <1>1
  <2>. QED  BY <2>1
<1>. HIDE DEF N, T, events, At, By
<1>6. 0 \in S
  <2>1. 0 \in 0 .. N
    BY <1>1
  <2>2. \A e : ~HasRow(<<>>, e) /\ ~By(0, e)
    BY DEF HasRow, By
  <2>. QED  BY <1>3, <2>1, <2>2
<1>7. ASSUME NEW n \in 0 .. N, n \in S, n < N
      PROVE  n + 1 \in S
  <2>. DEFINE m == n + 1
  <2>1. m \in 1 .. N /\ m - 1 = n /\ m \in 0 .. N
    BY <1>1, <1>7
  <2>2. (\A e : HasRow(f[n], e) <=> By(n, e)) /\ f[n] \in T
    BY <1>3, <1>7
  <2>3. /\ f[m] = IF IsRouted(events[m]) THEN Append(f[n], At(m)) ELSE f[n]
        /\ At(m) \in ServerEvent
        /\ \A e : By(m, e) <=> By(n, e) \/ (IsRouted(events[m]) /\ e = At(m))
    BY <1>3, <1>4, <1>5, <1>7, <2>1
  <2>. HIDE DEF m
  <2>4. CASE IsRouted(events[m])
    <3>. DEFINE u == <<At(m)>>
    <3>1. f[m] = f[n] \o u /\ u \in T
      BY <2>2, <2>3, <2>4 DEF T
    <3>2. \A e : HasRow(u, e) <=> e = At(m)
      <4>1. Len(u) = 1 /\ u[1] = At(m)
        OBVIOUS
      <4>. HIDE DEF u
      <4>. QED  BY <4>1 DEF HasRow
    <3>. HIDE DEF u
    <3>3. \A e : HasRow(f[m], e) <=> HasRow(f[n], e) \/ HasRow(u, e)
      BY <2>2, <3>1, HasRowConcat DEF T
    <3>. QED  BY <2>1, <2>2, <2>3, <2>4, <3>2, <3>3 DEF m
  <2>5. CASE ~IsRouted(events[m])
    BY <2>1, <2>2, <2>3, <2>5 DEF m
  <2>. QED  BY <2>4, <2>5
<1>. HIDE DEF S
<1>8. \A n \in 0 .. N : n \in S
  BY <1>1, <1>6, <1>7, UpTo
<1>9. N \in S
  BY <1>1, <1>8
<1>. QED  BY <1>3, <1>9 DEF S, N, events, At, By

\* Whoever is said to have quit may not have a scan removed.
CommandRow(c, f) ==
    /\ \E k : f = Event(k, c)
    /\ f.type \in {"AttendeeScanInRemoved", "AttendeeScanOutRemoved"} =>
          c.person \notin Quitters(happening)

\* All events of a command are about its person, at its time.
LEMMA CommandRows ==
    ASSUME NEW c \in AnyCommand, readings \in [Place -> State(Person)]
    PROVE  \A n \in 1 .. Len(EventsOf(c)) : CommandRow(c, EventsOf(c)[n])
<1>. DEFINE type == TypeOf[c.place]
            S == readings[c.place]
            s == CheckpointEvents(c)
<1>1. IsInfo(c, Person)
  BY CheckpointDoes
<1>2. \A k : Event(k, c).type = k
  BY DEF Event
<1>3. ASSUME NEW k, k \notin {"AttendeeScanInRemoved", "AttendeeScanOutRemoved"}
      PROVE  CommandRow(c, Event(k, c))
  BY <1>2, <1>3 DEF CommandRow
<1>. HIDE DEF S, type
<1>4. ASSUME NEW f, HasRow(AddScan(type, S, c), f) PROVE CommandRow(c, f)
  <2>. DEFINE events == AddScan(type, S, c)
  <2>1. IsInfo(c, Person) /\ events = AddScan(type, S, c) /\ events \in Seq(EventRow(Person))
    BY <1>1, AddScanRows
  <2>. HIDE DEF events
  <2>2. \A g : HasRow(events, g) <=>
              \/ /\ type = "Start" /\ S.out = <<>>
                 /\ g = Event("FirstAttendeeForHappeningScanned", c)
              \/ g = Event(ScanEvent(type, S, c), c)
              \/ /\ type = "Start" /\ ScanEvent(type, S, c) = "AttendeeScanOut"
                 /\ g = Event("AttendeeScannedAtStartCheckpoint", c)
              \/ /\ type = "Finish" /\ ScanEvent(type, S, c) = "AttendeeScanIn"
                 /\ g = Event("AttendeeScannedAtFinishCheckpoint", c)
    BY <2>1, AddScanRows
  <2>3. \/ f = Event("FirstAttendeeForHappeningScanned", c)
        \/ f = Event(ScanEvent(type, S, c), c)
        \/ f = Event("AttendeeScannedAtStartCheckpoint", c)
        \/ f = Event("AttendeeScannedAtFinishCheckpoint", c)
    BY <1>4, <2>1, <2>2
  <2>4. ScanEvent(type, S, c) \notin {"AttendeeScanInRemoved", "AttendeeScanOutRemoved"}
    BY ScanEventIs
  <2>. QED  BY <1>3, <2>3, <2>4
<1>5. ASSUME NEW f, HasRow(RemoveScan(type, S, c), f), c.person \notin Quitters(happening)
      PROVE  CommandRow(c, f)
  <2>1. f = Event("AttendeeScanInRemoved", c) \/ f = Event("AttendeeScanOutRemoved", c)
    BY <1>1, <1>5, RemoveScanRows
  <2>. QED  BY <1>5, <2>1 DEF CommandRow
<1>6. ASSUME NEW kind \in {"In", "Out"}, NEW f, HasRow(ChangeScanTime(type, S, c, kind), f)
      PROVE  CommandRow(c, f)
  <2>1. f \in {Event("AttendeeScanOutPreceedsScanIn", c), Event("AttendeeScanInTimeChanged", c),
               Event("AttendeeScanOutTimeChanged", c)}
    BY <1>6 DEF ChangeScanTime, HasRow
  <2>. QED  BY <1>3, <2>1
<1>7. ASSUME NEW f, HasRow(s, f) PROVE CommandRow(c, f)
  <2>1. \/ s = <<>>
        \/ s = AddScan(type, S, c)
        \/ s = RemoveScan(type, S, c) /\ ValidatesRemoveScan(happening, c.person)
        \/ c.kind \in {"In", "Out"} /\ s = ChangeScanTime(type, S, c, c.kind)
    BY DEF CheckpointEvents, S, type
  <2>2. s # <<>>
    BY <1>7 DEF HasRow
  <2>. HIDE DEF s
  <2>. QED  BY <1>4, <1>5, <1>6, <1>7, <2>1, <2>2 DEF ValidatesRemoveScan, OnTheWay
<1>8. CASE EventsOf(c) = s
  <2>. HIDE DEF s
  <2>. QED  BY <1>7, <1>8 DEF HasRow
<1>9. ASSUME NEW k \in {"AttendeeQuit", "AttendeeQuitRemoved"}, EventsOf(c) = <<Event(k, c)>>
      PROVE  \A n \in 1 .. Len(EventsOf(c)) : CommandRow(c, EventsOf(c)[n])
  <2>1. CommandRow(c, Event(k, c))
    BY <1>3
  <2>. DEFINE e == Event(k, c)
  <2>. HIDE DEF e
  <2>2. EventsOf(c) = <<e>> /\ CommandRow(c, e)
    BY <1>9, <2>1 DEF e
  <2>. QED  BY <2>2
<1>. QED  BY <1>8, <1>9, EventsOfIs

-----------------------------------------------------------------------------
(* The cells of the dashboard.                                             *)

\* The dashboard's cell of p at c.
CellAt(D, c, p) == Cell(D.visits[c], p)

\* A cell of the dashboard is one.
LEMMA CellAtIs ==
    ASSUME NEW D \in DashboardState, NEW c \in Place, NEW p
    PROVE  CellAt(D, c, p) \in CellState
<1>1. D.visits[c] \in SUBSET Visit
  BY DEF DashboardState
<1>2. ASSUME HasVisit(D.visits[c], p) PROVE CellOf(TheVisit(D.visits[c], p)) \in CellState
  <2>1. TheVisit(D.visits[c], p) \in D.visits[c]
    BY <1>2, TheVisitIs
  <2>2. TheVisit(D.visits[c], p) \in Visit
    BY <1>1, <2>1
  <2>. QED  BY <2>2 DEF CellOf, CellState, Visit
<1>3. NoCell \in CellState
  BY DEF NoCell, CellState
<1>. QED  BY <1>2, <1>3 DEF CellAt, Cell

\* What has changed of the dashboard when an event has come.
CellsStep(E, D, e) ==
    /\ E \in DashboardState /\ AllVisitsOK(E)
    /\ \A d \in Place : \A p : CellAt(E, d, p) = CellStep(CellAt(D, d, p), e, d, p)

\* A passthrough is read by those who are not there yet, and who is there quits.
Meets(x, e) ==
    /\ e.name = "AttendeePassthroughScan" => IsBlank(x)
    /\ e.name = "AttendeeQuit" => ~IsBlank(x)

\* The cells of the dashboard follow an event.
LEMMA ProjectedCells ==
    ASSUME NEW D \in DashboardState, AllVisitsOK(D), NEW e \in ServerEvent, Sound(e),
           Meets(CellAt(D, e.place, e.person), e)
    PROVE  CellsStep(Projected(D, e), D, e)
<1>. DEFINE E == Projected(D, e)
<1>1. E \in DashboardState /\ e.place \in Place
  BY ProjectedIsState DEF ServerEvent
<1>2. /\ Steps(E.visits[e.place], D.visits[e.place], e)
      /\ \A c \in Place : c # e.place => E.visits[c] = D.visits[c]
  <2>1. LET x == Cell(D.visits[e.place], e.person)
        IN  /\ e.name = "AttendeePassthroughScan" => IsBlank(x)
            /\ e.name = "AttendeeQuit" => ~IsBlank(x)
    BY DEF Meets, CellAt
  <2>. QED  BY <2>1, ProjectedSteps
<1>. HIDE DEF E
<1>3. AllVisitsOK(E)
  BY <1>2 DEF AllVisitsOK, Steps
<1>4. ASSUME NEW d \in Place, NEW p
      PROVE  CellAt(E, d, p) = CellStep(CellAt(D, d, p), e, d, p)
  BY <1>1, <1>2 DEF CellAt, CellStep, Steps
<1>. QED  BY <1>1, <1>3, <1>4 DEF CellsStep, E

-----------------------------------------------------------------------------
(* The cells of the dashboard and the readings of the checkpoints.         *)

\* The cell of p at a checkpoint of a type, where S is read and H has happened.
CellInv(type, S, x, p, H) ==
    LET in == IsRead(S.in, p)
        out == IsRead(S.out, p)
    IN  /\ CellOK(type, x)
        /\ type = "Start" => ~in
        /\ type # "Start" => (in <=> x.in # 0) /\ (out => in)
        /\ type = "Passthrough" => (in => out)
        /\ x.quit => p \in Quitters(H)

NoneQuitBack(H) == \A r \in H : r.type # "AttendeeQuitRemoved"

ServerCells(H, R, D) ==
    /\ NoneQuitBack(H)
    /\ AllVisitsOK(D)
    /\ \A c \in Place : \A p : CellInv(TypeOf[c], R[c], CellAt(D, c, p), p, H)

\* What a checkpoint does fits the cell that it is about.
LEMMA DoneFits ==
    ASSUME NEW k, NEW type, NEW S, NEW c, NEW x, NEW b, NEW H, Done(k, type, S, c),
           CellInv(type, S, x, c.person, H), c.time # 0,
           k \in {"AttendeeScanInRemoved", "AttendeeScanOutRemoved"} => c.person \notin Quitters(H)
    PROVE  Fits(type, x, Published(b, Event(k, c)))
<1>. DEFINE e == Published(b, Event(k, c))
<1>1. e.name = k /\ e.time = c.time
  BY DEF Published, Event
<1>. HIDE DEF e
<1>2. /\ IsBlank(x) => x = NoCell
      /\ type = "Start" => ~IsRead(S.in, c.person)
      /\ type # "Start" => /\ IsRead(S.in, c.person) <=> x.in # 0
                           /\ IsRead(S.out, c.person) => IsRead(S.in, c.person)
                           /\ x.in = 0 => IsBlank(x)
      /\ type = "Passthrough" => (IsRead(S.in, c.person) => IsRead(S.out, c.person))
      /\ x.quit => c.person \in Quitters(H)
  BY DEF CellInv, CellOK
<1>3. k # "AttendeeQuit"
  BY DEF Done
<1>. QED  BY <1>1, <1>2, <1>3 DEF Fits, Done, e

\* Whose readings are in T, which was S, when f has come.
ReadAfter(T, S, f) ==
    \A q : /\ IsRead(T.in, q) <=> \/ AddsIn(f) /\ f.person = q
                                  \/ IsRead(S.in, q) /\ ~(RemovesIn(f) /\ f.person = q)
           /\ IsRead(T.out, q) <=> \/ AddsOut(f) /\ f.person = q
                                   \/ IsRead(S.out, q) /\ ~(RemovesOut(f) /\ f.person = q)

\* The times of a cell and whether it says that somebody has quit, after an event that fits.
LEMMA TimesAfter ==
    ASSUME NEW type, NEW x \in CellState, NEW e \in ServerEvent, Fits(type, x, e), CellOK(type, x)
    PROVE  LET y == CellAfter(x, e)
           IN  /\ e.name = "AttendeeScanIn" => y.in = e.time /\ y.quit = x.quit
               /\ e.name = "AttendeeScanOut" => y.in = x.in /\ y.quit = x.quit
               /\ e.name = "AttendeePassthroughScan" => y.in = e.time /\ y.quit = FALSE
               /\ e.name = "AttendeeScanInRemoved" => y = NoCell
               /\ e.name = "AttendeeScanOutRemoved" => y.in = x.in /\ (y.quit => x.quit)
               /\ e.name = "AttendeeQuit" => y.in = x.in
<1>1. x = [in |-> x.in, out |-> x.out, quit |-> x.quit]
  BY DEF CellState
<1>2. CASE e.name = "AttendeeScanIn"
  BY <1>1, <1>2 DEF CellAfter
<1>3. CASE e.name = "AttendeeScanOut"
  BY <1>1, <1>3 DEF CellAfter
<1>4. CASE e.name = "AttendeePassthroughScan"
  BY <1>4 DEF CellAfter, Fits
<1>5. CASE e.name = "AttendeeScanInRemoved"
  BY <1>5 DEF CellAfter
<1>6. CASE e.name = "AttendeeScanOutRemoved"
  <2>1. CASE x.in # 0
    BY <1>1, <1>6, <2>1 DEF CellAfter
  <2>2. CASE x.in = 0
    BY <1>6, <2>2 DEF CellAfter, NoCell
  <2>. QED  BY <2>1, <2>2
<1>7. CASE e.name = "AttendeeQuit"
  <2>1. CellAfter(x, e) = [x EXCEPT !.quit = TRUE]
    BY <1>7 DEF CellAfter, Fits
  <2>2. [x EXCEPT !.quit = TRUE].in = x.in
    BY <1>1
  <2>. QED  BY <1>7, <2>1, <2>2
<1>. QED  BY <1>2, <1>3, <1>4, <1>5, <1>6, <1>7

\* What a checkpoint does leaves the cell that it is about in order.
LEMMA DoneKeeps ==
    ASSUME NEW k, NEW type, NEW S, NEW c, NEW x \in CellState, NEW b, NEW H, NEW T,
           Done(k, type, S, c), CellInv(type, S, x, c.person, H),
           Published(b, Event(k, c)) \in ServerEvent,
           Fits(type, x, Published(b, Event(k, c))), ReadAfter(T, S, Event(k, c)),
           k \notin {"AttendeeScanInTimeChanged", "AttendeeScanOutTimeChanged",
                     "AttendeePassthroughScanTimeChanged"}
    PROVE  CellInv(type, T, CellAfter(x, Published(b, Event(k, c))), c.person, H)
<1>. DEFINE e == Published(b, Event(k, c))
            y == CellAfter(x, e)
            in == IsRead(S.in, c.person)
            out == IsRead(S.out, c.person)
<1>1. e.name = k /\ e.time = c.time /\ e \in ServerEvent /\ Fits(type, x, e)
  BY DEF Published, Event
<1>2. /\ CellOK(type, x)
      /\ type = "Start" => ~in
      /\ type # "Start" => (in <=> x.in # 0) /\ (out => in)
      /\ type = "Passthrough" => (in => out)
      /\ x.quit => c.person \in Quitters(H)
  BY DEF CellInv
<1>3. CellOK(type, y)
  BY <1>1, <1>2, CellFits
<1>4. /\ IsRead(T.in, c.person) <=> \/ k \in {"AttendeeScanIn", "AttendeePassthroughScan"}
                                    \/ in /\ k # "AttendeeScanInRemoved"
      /\ IsRead(T.out, c.person) <=> \/ k \in {"AttendeeScanOut", "AttendeePassthroughScan"}
                                     \/ out /\ k # "AttendeeScanOutRemoved"
  BY DEF ReadAfter, Event, AddsIn, AddsOut, RemovesIn, RemovesOut
<1>5. /\ e.name = "AttendeeScanIn" => y.in = e.time /\ y.quit = x.quit
      /\ e.name = "AttendeeScanOut" => y.in = x.in /\ y.quit = x.quit
      /\ e.name = "AttendeePassthroughScan" => y.in = e.time /\ y.quit = FALSE
      /\ e.name = "AttendeeScanInRemoved" => y = NoCell
      /\ e.name = "AttendeeScanOutRemoved" => y.in = x.in /\ (y.quit => x.quit)
  <2>1. e \in ServerEvent /\ Fits(type, x, e) /\ CellOK(type, x)
    BY <1>1, <1>2
  <2>. HIDE DEF e
  <2>. QED  BY <2>1, TimesAfter
<1>6. c.time # 0
  BY <1>1 DEF Fits
<1>7. k \in {"AttendeePassthroughScan", "AttendeeScanIn", "AttendeeScanOut",
             "AttendeeScanInRemoved", "AttendeeScanOutRemoved"}
  BY DEF Done
<1>. HIDE DEF e, y, in, out
<1>8. y.quit => x.quit
  <2>1. NoCell.quit = FALSE
    BY DEF NoCell
  <2>2. \/ y.quit = x.quit \/ y.quit = FALSE \/ (y.quit => x.quit)
    BY <1>1, <1>5, <1>7, <2>1
  <2>. QED  BY <2>2, Zenon
<1>9. /\ k = "AttendeeScanIn" => type \notin {"Start", "Passthrough"}
      /\ k = "AttendeePassthroughScan" => type = "Passthrough"
      /\ k = "AttendeeScanOut" => type # "Passthrough" /\ (type # "Start" => x.in # 0)
      /\ k = "AttendeeScanOutRemoved" => type # "Passthrough"
  BY <1>1 DEF Fits
<1>10. k = "AttendeeScanInRemoved" => in /\ ~out
  BY DEF Done, in, out
<1>11. /\ type = "Start" => ~IsRead(T.in, c.person)
       /\ type # "Start" => /\ IsRead(T.in, c.person) <=> y.in # 0
                            /\ IsRead(T.out, c.person) => IsRead(T.in, c.person)
       /\ type = "Passthrough" => (IsRead(T.in, c.person) => IsRead(T.out, c.person))
  <2>1. CASE k = "AttendeeScanIn"
    BY <1>1, <1>2, <1>4, <1>5, <1>6, <1>9, <2>1
  <2>2. CASE k = "AttendeeScanOut"
    BY <1>1, <1>2, <1>4, <1>5, <1>9, <2>2
  <2>3. CASE k = "AttendeePassthroughScan"
    BY <1>1, <1>2, <1>4, <1>5, <1>6, <1>9, <2>3
  <2>4. CASE k = "AttendeeScanInRemoved"
    BY <1>1, <1>2, <1>4, <1>5, <1>10, <2>4 DEF NoCell
  <2>5. CASE k = "AttendeeScanOutRemoved"
    BY <1>1, <1>2, <1>4, <1>5, <1>9, <2>5
  <2>. QED  BY <1>7, <2>1, <2>2, <2>3, <2>4, <2>5
<1>12. CellInv(type, T, y, c.person, H)
  BY <1>2, <1>3, <1>8, <1>11 DEF CellInv
<1>. QED  BY <1>12 DEF y, e

-----------------------------------------------------------------------------
(* A command and the cells of the dashboard.                               *)

\* What goes out is as the page needs it.
AllSound(u, D) ==
    \A e : HasRow(u, e) =>
        Sound(e) /\ (e.name = "AttendeeQuit" => ~IsBlank(CellAt(D, e.place, e.person)))

\* What the page has not to expect when a reload shows the same.
Excluded == {"missed", "retimed", "quitBack", "quitUnseen"}

\* No time is changed, no quit taken back and nobody quits unseen.
LEMMA ClearIsSound ==
    ASSUME TypeInv, AllVisitsOK(dashboard), NEW c \in AnyCommand,
           PastOf(PublishedBy(c)) \cap {"retimed", "quitBack", "quitUnseen"} = {}
    PROVE  AllSound(PublishedBy(c), dashboard)
<1>. DEFINE u == PublishedBy(c)
<1>1. /\ c.place \in Place /\ EventsOf(c) \in Seq(ServerRow) /\ c.time # 0
      /\ \A n \in 1 .. Len(EventsOf(c)) : CommandRow(c, EventsOf(c)[n])
  BY CheckpointDoes, EventsOfIs, CommandRows DEF TypeInv, Null
<1>2. u \in Seq(ServerEvent)
  BY <1>1, PublishedIsEvents
<1>3. \A e : HasRow(u, e) => e.time # 0
  <2>1. SUFFICES ASSUME NEW e, HasRow(u, e) PROVE e.time # 0
    OBVIOUS
  <2>2. PICK n \in 1 .. Len(EventsOf(c)) : e = Published(c.place, EventsOf(c)[n])
    BY <1>1, <2>1, PublishedAre
  <2>3. PICK k : EventsOf(c)[n] = Event(k, c)
    BY <1>1 DEF CommandRow
  <2>. QED  BY <1>1, <2>2, <2>3 DEF Published, Event
<1>. HIDE DEF u
<1>4. ASSUME NEW i \in DOMAIN u
      PROVE  /\ ScanTimestamp(u[i]) # NaN
             /\ u[i].name # "AttendeeQuitRemoved"
             /\ u[i].name = "AttendeeQuit" =>
                   HasVisit(dashboard.visits[u[i].place], u[i].person)
  <2>1. \A h \in {"retimed", "quitBack", "quitUnseen"} : h \in Happened /\ h \notin PastOf(u)
    BY DEF Happened, u
  <2>2. u[i] \in {u[j] : j \in DOMAIN u}
    OBVIOUS
  <2>3. ScanTimestamp(u[i]) # NaN
    BY <2>1, <2>2 DEF PastOf
  <2>4. u[i].name # "AttendeeQuitRemoved"
    BY <2>1, <2>2 DEF PastOf
  <2>5. u[i].name = "AttendeeQuit" => HasVisit(dashboard.visits[u[i].place], u[i].person)
    BY <2>1, <2>2 DEF PastOf
  <2>. QED  BY <2>3, <2>4, <2>5
<1>5. ASSUME NEW e, HasRow(u, e)
      PROVE  Sound(e) /\ (e.name = "AttendeeQuit" =>
                             ~IsBlank(CellAt(dashboard, e.place, e.person)))
  <2>1. PICK i \in DOMAIN u : e = u[i]
    BY <1>2, <1>5 DEF HasRow
  <2>2. e \in ServerEvent
    BY <1>2, <2>1
  <2>3. Sound(e)
    BY <1>3, <1>4, <1>5, <2>1 DEF Sound, ScanTimestamp
  <2>4. VisitsOK(dashboard.visits[e.place])
    BY <2>2 DEF AllVisitsOK, ServerEvent
  <2>. QED  BY <1>4, <2>1, <2>3, <2>4, PresentIs DEF CellAt
<1>. QED  BY <1>5 DEF AllSound, u

\* H has become G: nobody's quit is taken back.
Grows(H, G) == NoneQuitBack(G) /\ Quitters(H) \subseteq Quitters(G)

\* Those who have quit stay so, and those who quit come to them.
LEMMA QuittersGrow ==
    ASSUME TypeInv, NoneQuitBack(happening), AllVisitsOK(dashboard), NEW c \in AnyCommand,
           AllSound(PublishedBy(c), dashboard), happening' = happening \cup RowsOf(EventsOf(c))
    PROVE  /\ Grows(happening, happening')
           /\ EventsOf(c) = <<Event("AttendeeQuit", c)>> => c.person \in Quitters(happening')
<1>. DEFINE G == happening'
            events == EventsOf(c)
<1>1. c.place \in Place /\ events \in Seq(ServerRow)
  BY CheckpointDoes, EventsOfIs DEF TypeInv
<1>2. ASSUME NEW n \in 1 .. Len(events) PROVE events[n].type # "AttendeeQuitRemoved"
  <2>1. SUFFICES ASSUME events[n].type = "AttendeeQuitRemoved" PROVE FALSE
    OBVIOUS
  <2>2. HasRow(PublishedBy(c), Published(c.place, events[n]))
    BY <1>1, <2>1, PublishedAre DEF IsRouted
  <2>. QED  BY <2>1, <2>2 DEF AllSound, Sound, Published
<1>3. NoneQuitBack(G)
  <2>1. ASSUME NEW r \in RowsOf(events) PROVE r.type # "AttendeeQuitRemoved"
    <3>1. \E n \in DOMAIN events :
             \/ events[n].type = "AttendeeQuitRemoved"
             \/ r.type \in {"AttendeeStarted", "AttendeeCompleted", "AttendeeQuit"}
      BY <2>1 DEF RowsOf, Row
    <3>. QED  BY <1>1, <1>2, <3>1
  <2>. QED  BY <2>1 DEF NoneQuitBack
<1>4. \A q : (\E r \in G : r.type = "AttendeeQuit" /\ r.person = q) => q \in Quitters(G)
  BY <1>3 DEF NoneQuitBack, Quitters
<1>5. Quitters(happening) \subseteq Quitters(G)
  <2>1. \A q \in Quitters(happening) :
           \E r \in happening : r.type = "AttendeeQuit" /\ r.person = q
    BY DEF Quitters
  <2>. QED  BY <1>4, <2>1
<1>6. ASSUME events = <<Event("AttendeeQuit", c)>> PROVE c.person \in Quitters(G)
  <2>1. 1 \in DOMAIN events /\ events[1] = Event("AttendeeQuit", c)
    <3>. DEFINE e == Event("AttendeeQuit", c)
    <3>. HIDE DEF e
    <3>. QED  BY <1>6 DEF e
  <2>2. Row("AttendeeQuit", c.person, c.at) \in RowsOf(events)
    BY <2>1 DEF RowsOf, Event
  <2>. QED  BY <1>4, <2>2 DEF Row
<1>. QED  BY <1>3, <1>5, <1>6 DEF Grows

\* The page's cells, wherever they are, follow u as the server's has changed from y to v: not at
\* all, or by an event that fits.
Follows(type, y, v, u, d, p) ==
    \/ v = y /\ \A z \in CellState : Leads(z, z, u, d, p)
    \/ \E e \in ServerEvent :
          /\ Fits(type, y, e) /\ v = CellAfter(y, e)
          /\ \A z \in CellState : Leads(z, CellAfter(z, e), u, d, p)

\* What a command makes of the cells.
CommandDone(H, R, E, D, u) ==
    /\ ServerCells(H, R, E)
    /\ \A d \in Place : \A p : Follows(TypeOf[d], CellAt(D, d, p), CellAt(E, d, p), u, d, p)

\* One event.
LEMMA FollowsOne ==
    ASSUME NEW e \in ServerEvent, NEW d, NEW p, NEW type, NEW y, NEW u,
           e.place = d /\ e.person = p => Fits(type, y, e),
           \A z \in CellState : Leads(z, CellStep(z, e, d, p), u, d, p)
    PROVE  Follows(type, y, CellStep(y, e, d, p), u, d, p)
<1>1. CASE e.place = d /\ e.person = p
  BY <1>1 DEF Follows, CellStep
<1>2. CASE ~(e.place = d /\ e.person = p)
  <2>1. \A z : CellStep(z, e, d, p) = z
    BY <1>2 DEF CellStep
  <2>. QED  BY <2>1 DEF Follows
<1>. QED  BY <1>1, <1>2

\* Readings and quits of other people do not matter.
LEMMA CellInvKept ==
    ASSUME NEW type, NEW S, NEW T, NEW x, NEW p, NEW H, NEW G, CellInv(type, S, x, p, H),
           Grows(H, G), IsRead(T.in, p) <=> IsRead(S.in, p), IsRead(T.out, p) <=> IsRead(S.out, p)
    PROVE  CellInv(type, T, x, p, G)
  BY DEF CellInv, Grows

\* A row of a checkpoint.
LEMMA RowDone ==
    ASSUME NEW D \in DashboardState, NEW R \in [Place -> State(Person)], NEW H, NEW G,
           ServerCells(H, R, D), Grows(H, G), NEW c, IsInfo(c, Person), NEW b \in Place,
           NEW k \in EventType, Done(k, TypeOf[b], R[b], c), CommandRow(c, Event(k, c)),
           k \in {"AttendeeScanInRemoved", "AttendeeScanOutRemoved"} => c.person \notin Quitters(H),
           Sound(Published(b, Event(k, c)))
    PROVE  LET e == Published(b, Event(k, c))
               E == Projected(D, e)
           IN  /\ e \in ServerEvent /\ Fits(TypeOf[b], CellAt(D, b, c.person), e)
               /\ CellsStep(E, D, e)
               /\ ServerCells(G, [R EXCEPT ![b] = Applied(R[b], Event(k, c))], E)
<1>. DEFINE f == Event(k, c)
            e == Published(b, f)
            E == Projected(D, e)
            S == R[b]
            T == Applied(S, f)
            x == CellAt(D, b, c.person)
            Changes3 == {"AttendeeScanInTimeChanged", "AttendeeScanOutTimeChanged",
                         "AttendeePassthroughScanTimeChanged"}
<1>1. /\ f.type = k /\ f.person = c.person /\ f \in EventRow(Person)
      /\ e.name = k /\ e.place = b /\ e.person = c.person /\ e.time = c.time
  BY EventIsRow DEF Event, Published
<1>2. e \in ServerEvent
  BY <1>1 DEF Published, ServerEvent, ServerEventName, EventRow
<1>3. /\ NoneQuitBack(H) /\ AllVisitsOK(D)
      /\ \A d \in Place : \A p : CellInv(TypeOf[d], R[d], CellAt(D, d, p), p, H)
  BY DEF ServerCells
<1>4. Sound(e) /\ c.time # 0 /\ k \notin Changes3
  BY <1>1 DEF Sound
<1>5. x \in CellState /\ CellInv(TypeOf[b], S, x, c.person, H)
  BY <1>3, CellAtIs
<1>6. Fits(TypeOf[b], x, e)
  BY <1>4, <1>5, DoneFits
<1>7. CellsStep(E, D, e)
  <2>1. Meets(x, e) /\ x = CellAt(D, e.place, e.person)
    BY <1>1, <1>6 DEF Fits, Meets
  <2>. HIDE DEF e, x
  <2>. QED  BY <1>2, <1>3, <1>4, <2>1, ProjectedCells
<1>8. ReadAfter(T, S, f)
  <2>1. ~Throws(S, f)
    BY <1>1, <1>4 DEF Throws, ChangesIn, ChangesOut
  <2>2. S \in State(Person)
    OBVIOUS
  <2>. QED  BY <1>1, <2>1, <2>2, AppliedReadings DEF ReadAfter
<1>9. CellInv(TypeOf[b], T, CellAfter(x, e), c.person, G)
  <2>1. CellInv(TypeOf[b], T, CellAfter(x, e), c.person, H)
    BY <1>2, <1>4, <1>5, <1>6, <1>8, DoneKeeps
  <2>. QED  BY <2>1, CellInvKept
<1>10. \A p : p # c.person =>
          (IsRead(T.in, p) <=> IsRead(S.in, p)) /\ (IsRead(T.out, p) <=> IsRead(S.out, p))
  BY <1>1, <1>8 DEF ReadAfter
<1>. HIDE DEF e, f, E, T, S, x
<1>11. ASSUME NEW d \in Place, NEW p
       PROVE  CellInv(TypeOf[d], [R EXCEPT ![b] = T][d], CellAt(E, d, p), p, G)
  <2>. DEFINE y == CellAt(D, d, p)
  <2>1. CellAt(E, d, p) = CellStep(y, e, d, p) /\ CellInv(TypeOf[d], R[d], y, p, H)
    BY <1>3, <1>7 DEF CellsStep
  <2>2. CASE d = b /\ p = c.person
    <3>1. CellAt(E, d, p) = CellAfter(x, e) /\ [R EXCEPT ![b] = T][d] = T
      BY <1>1, <2>1, <2>2 DEF CellStep, x
    <3>. QED  BY <1>9, <2>2, <3>1
  <2>3. CASE d = b /\ p # c.person
    <3>1. CellAt(E, d, p) = y /\ [R EXCEPT ![b] = T][d] = T /\ R[d] = S
      BY <1>1, <2>1, <2>3 DEF CellStep, S
    <3>. HIDE DEF y
    <3>. QED  BY <1>10, <2>1, <2>3, <3>1, CellInvKept
  <2>4. CASE d # b
    <3>1. CellAt(E, d, p) = y /\ [R EXCEPT ![b] = T][d] = R[d]
      BY <1>1, <2>1, <2>4 DEF CellStep
    <3>. HIDE DEF y
    <3>. QED  BY <2>1, <3>1, CellInvKept
  <2>. QED  BY <2>2, <2>3, <2>4
<1>12. ServerCells(G, [R EXCEPT ![b] = T], E)
  BY <1>7, <1>11 DEF ServerCells, CellsStep, Grows
<1>. QED  BY <1>2, <1>6, <1>7, <1>12 DEF e, f, E, T, S, x

\* The two rows of a passthrough's removal.
LEMMA PairDone ==
    ASSUME NEW D \in DashboardState, NEW R \in [Place -> State(Person)], NEW H, NEW G,
           ServerCells(H, R, D), Grows(H, G), NEW c, IsInfo(c, Person), c.time # 0,
           NEW b \in Place, TypeOf[b] = "Passthrough", IsRead(R[b].in, c.person),
           c.person \notin Quitters(H)
    PROVE  LET i == Event("AttendeeScanInRemoved", c)
               o == Event("AttendeeScanOutRemoved", c)
               e == Published(b, i)
               E == Projected(Projected(D, e), Published(b, o))
           IN  /\ e \in ServerEvent /\ Fits(TypeOf[b], CellAt(D, b, c.person), e)
               /\ \A d \in Place : \A p : CellAt(E, d, p) = CellStep(CellAt(D, d, p), e, d, p)
               /\ \A z, d, p : CellStep(CellStep(z, e, d, p), Published(b, o), d, p)
                                  = CellStep(z, e, d, p)
               /\ ServerCells(G, [R EXCEPT ![b] = Applied(Applied(R[b], i), o)], E)
<1>. DEFINE i == Event("AttendeeScanInRemoved", c)
            o == Event("AttendeeScanOutRemoved", c)
            e == Published(b, i)
            f == Published(b, o)
            D1 == Projected(D, e)
            E == Projected(D1, f)
            S == R[b]
            T1 == Applied(S, i)
            T == Applied(T1, o)
            x == CellAt(D, b, c.person)
<1>1. /\ i.type = "AttendeeScanInRemoved" /\ i.person = c.person /\ i \in EventRow(Person)
      /\ o.type = "AttendeeScanOutRemoved" /\ o.person = c.person /\ o \in EventRow(Person)
      /\ e.name = "AttendeeScanInRemoved" /\ e.place = b /\ e.person = c.person /\ e.time # 0
      /\ f.name = "AttendeeScanOutRemoved" /\ f.place = b /\ f.person = c.person /\ f.time # 0
  <2>1. "AttendeeScanInRemoved" \in EventType /\ "AttendeeScanOutRemoved" \in EventType
    BY DEF EventType
  <2>. QED  BY <2>1, EventIsRow DEF Event, Published
<1>2. e \in ServerEvent /\ f \in ServerEvent
  BY <1>1 DEF Published, ServerEvent, ServerEventName, EventRow
<1>3. /\ NoneQuitBack(H) /\ AllVisitsOK(D)
      /\ \A d \in Place : \A p : CellInv(TypeOf[d], R[d], CellAt(D, d, p), p, H)
  BY DEF ServerCells
<1>4. x \in CellState /\ CellInv(TypeOf[b], S, x, c.person, H)
  BY <1>3, CellAtIs
<1>. HIDE DEF i, o, e, f, x
<1>5. Fits(TypeOf[b], x, e)
  BY <1>1, <1>4 DEF Fits, CellInv
<1>6. Sound(e) /\ Sound(f)
  BY <1>1 DEF Sound
<1>7. \A y, z : Meets(y, e) /\ Meets(z, f)
  BY <1>1 DEF Meets
<1>8. CellsStep(D1, D, e)
  BY <1>2, <1>3, <1>6, <1>7, ProjectedCells
<1>. HIDE DEF D1
<1>9. CellsStep(E, D1, f)
  BY <1>2, <1>6, <1>7, <1>8, ProjectedCells DEF CellsStep
<1>. HIDE DEF E
<1>10. \A z, d, p : CellStep(CellStep(z, e, d, p), f, d, p) = CellStep(z, e, d, p)
  <2>1. \A z : CellAfter(z, e) = NoCell
    BY <1>1 DEF CellAfter
  <2>2. CellAfter(NoCell, f) = NoCell
    BY <1>1 DEF CellAfter, NoCell
  <2>. QED  BY <1>1, <2>1, <2>2 DEF CellStep
<1>11. \A d \in Place : \A p : CellAt(E, d, p) = CellStep(CellAt(D, d, p), e, d, p)
  BY <1>8, <1>9, <1>10 DEF CellsStep
<1>12. /\ S \in State(Person)
       /\ \A U : ~Throws(U, i) /\ ~Throws(U, o)
  BY <1>1 DEF Throws, ChangesIn, ChangesOut
<1>. HIDE DEF S
<1>13. T1 \in State(Person) /\ ReadAfter(T1, S, i)
  BY <1>1, <1>12, AppliedReadings DEF ReadAfter
<1>. HIDE DEF T1
<1>14. ReadAfter(T, T1, o)
  BY <1>1, <1>12, <1>13, AppliedReadings DEF ReadAfter
<1>. HIDE DEF T
<1>15. /\ ~AddsIn(i) /\ ~AddsOut(i) /\ RemovesIn(i) /\ ~RemovesOut(i)
       /\ ~AddsIn(o) /\ ~AddsOut(o) /\ ~RemovesIn(o) /\ RemovesOut(o)
  BY <1>1 DEF AddsIn, AddsOut, RemovesIn, RemovesOut
<1>16. \A q : /\ IsRead(T.in, q) <=> IsRead(S.in, q) /\ c.person # q
              /\ IsRead(T.out, q) <=> IsRead(S.out, q) /\ c.person # q
  <2>1. \A q : /\ IsRead(T1.in, q) <=> IsRead(S.in, q) /\ c.person # q
               /\ IsRead(T1.out, q) <=> IsRead(S.out, q)
    BY <1>1, <1>13, <1>15 DEF ReadAfter
  <2>2. \A q : /\ IsRead(T.in, q) <=> IsRead(T1.in, q)
               /\ IsRead(T.out, q) <=> IsRead(T1.out, q) /\ c.person # q
    BY <1>1, <1>14, <1>15 DEF ReadAfter
  <2>. QED  BY <2>1, <2>2
<1>17. ASSUME NEW d \in Place, NEW p
       PROVE  CellInv(TypeOf[d], [R EXCEPT ![b] = T][d], CellAt(E, d, p), p, G)
  <2>. DEFINE y == CellAt(D, d, p)
  <2>1. CellAt(E, d, p) = CellStep(y, e, d, p) /\ CellInv(TypeOf[d], R[d], y, p, H)
    BY <1>3, <1>11
  <2>2. CASE d = b /\ p = c.person
    <3>1. CellAt(E, d, p) = NoCell /\ [R EXCEPT ![b] = T][d] = T
      BY <1>1, <2>1, <2>2 DEF CellStep, CellAfter
    <3>2. ~IsRead(T.in, p) /\ ~IsRead(T.out, p)
      BY <1>16, <2>2
    <3>3. NoCell.in = 0 /\ NoCell.out = 0 /\ NoCell.quit = FALSE
      BY DEF NoCell
    <3>4. CellInv("Passthrough", T, NoCell, p, G)
      BY <3>2, <3>3 DEF CellInv, CellOK, IsBlank
    <3>. QED  BY <2>2, <3>1, <3>4
  <2>3. CASE d = b /\ p # c.person
    <3>1. CellAt(E, d, p) = y /\ [R EXCEPT ![b] = T][d] = T /\ R[d] = S
      BY <1>1, <2>1, <2>3 DEF CellStep, S
    <3>. HIDE DEF y
    <3>. QED  BY <1>16, <2>1, <2>3, <3>1, CellInvKept
  <2>4. CASE d # b
    <3>1. CellAt(E, d, p) = y /\ [R EXCEPT ![b] = T][d] = R[d]
      BY <1>1, <2>1, <2>4 DEF CellStep
    <3>. HIDE DEF y
    <3>. QED  BY <2>1, <3>1, CellInvKept
  <2>. QED  BY <2>2, <2>3, <2>4
<1>18. ServerCells(G, [R EXCEPT ![b] = T], E)
  BY <1>9, <1>17 DEF ServerCells, CellsStep, Grows
<1>. QED  BY <1>2, <1>5, <1>10, <1>11, <1>18 DEF i, o, e, f, x, D1, E, S, T1, T

\* Somebody quits where the dashboard has a visit of theirs.
LEMMA QuitDone ==
    ASSUME NEW D \in DashboardState, NEW R \in [Place -> State(Person)], NEW H, NEW G,
           ServerCells(H, R, D), Grows(H, G), NEW e \in ServerEvent, e.name = "AttendeeQuit",
           e.time # 0, e.person \in Quitters(G), ~IsBlank(CellAt(D, e.place, e.person))
    PROVE  /\ Fits(TypeOf[e.place], CellAt(D, e.place, e.person), e)
           /\ CellsStep(Projected(D, e), D, e)
           /\ ServerCells(G, R, Projected(D, e))
<1>. DEFINE E == Projected(D, e)
            x == CellAt(D, e.place, e.person)
<1>1. e.place \in Place /\ Sound(e) /\ Fits(TypeOf[e.place], x, e) /\ Meets(x, e)
  BY DEF ServerEvent, Sound, Fits, Meets
<1>2. /\ NoneQuitBack(H) /\ AllVisitsOK(D)
      /\ \A d \in Place : \A p : CellInv(TypeOf[d], R[d], CellAt(D, d, p), p, H)
  BY DEF ServerCells
<1>3. CellsStep(E, D, e)
  BY <1>1, <1>2, ProjectedCells
<1>4. x \in CellState /\ CellInv(TypeOf[e.place], R[e.place], x, e.person, H)
  BY <1>1, <1>2, CellAtIs
<1>. HIDE DEF E, x
<1>5. CellInv(TypeOf[e.place], R[e.place], CellAfter(x, e), e.person, G)
  <2>1. CellOK(TypeOf[e.place], x)
    BY <1>4 DEF CellInv
  <2>2. CellOK(TypeOf[e.place], CellAfter(x, e))
    BY <1>1, <1>4, <2>1, CellFits
  <2>3. CellAfter(x, e).in = x.in
    <3>1. x = [in |-> x.in, out |-> x.out, quit |-> x.quit]
      BY <1>4 DEF CellState
    <3>2. CellAfter(x, e) = [x EXCEPT !.quit = TRUE]
      BY <1>1 DEF CellAfter, Fits
    <3>3. [x EXCEPT !.quit = TRUE].in = x.in
      BY <3>1
    <3>. QED  BY <3>2, <3>3
  <2>. QED  BY <1>4, <2>2, <2>3 DEF CellInv
<1>6. ASSUME NEW d \in Place, NEW p PROVE CellInv(TypeOf[d], R[d], CellAt(E, d, p), p, G)
  <2>1. /\ CellAt(E, d, p) = CellStep(CellAt(D, d, p), e, d, p)
        /\ CellInv(TypeOf[d], R[d], CellAt(D, d, p), p, G)
    BY <1>2, <1>3, CellInvKept DEF CellsStep
  <2>2. CASE e.place = d /\ e.person = p
    BY <1>5, <2>1, <2>2 DEF CellStep, x
  <2>3. CASE ~(e.place = d /\ e.person = p)
    BY <2>1, <2>3 DEF CellStep
  <2>. QED  BY <2>2, <2>3
<1>7. ServerCells(G, R, E)
  BY <1>3, <1>6 DEF ServerCells, CellsStep, Grows
<1>. QED  BY <1>1, <1>3, <1>7 DEF E, x

\* What a command makes of the cells of the dashboard, what goes out makes of the page's.
LEMMA CommandStep ==
    ASSUME TypeInv, ServerCells(happening, readings, dashboard), NEW c \in AnyCommand, Execute(c),
           PastOf(PublishedBy(c)) \cap {"retimed", "quitBack", "quitUnseen"} = {}
    PROVE  /\ AllSound(PublishedBy(c), dashboard)
           /\ CommandDone(happening', readings', dashboard', dashboard, PublishedBy(c))
<1>. DEFINE b == c.place
            S == readings[b]
            s == CheckpointEvents(c)
            events == EventsOf(c)
            u == PublishedBy(c)
            H == happening
            G == happening'
            D == dashboard
            R == readings
            new == AllApplied(S, s)
            Goal == CommandDone(G, readings', dashboard', D, u)
            Row1(n) == Published(b, events[n])
<1>1. /\ R \in [Place -> State(Person)] /\ D \in DashboardState /\ ServerCells(H, R, D)
      /\ b \in Place /\ S \in State(Person) /\ IsInfo(c, Person) /\ c.time # 0
      /\ DoesAt(s, TypeOf[b], S, c)
  BY CheckpointDoes DEF TypeInv, Null
<1>2. /\ events \in Seq(ServerRow) /\ s \in Seq(EventRow(Person))
      /\ \/ events = s
         \/ /\ s = <<>>
            /\ \E k \in {"AttendeeQuit", "AttendeeQuitRemoved"} : events = <<Event(k, c)>>
  BY <1>1, EventsOfIs DEF DoesAt, Does
<1>3. /\ readings' = [R EXCEPT ![b] = new] /\ dashboard' = AllProjected(D, b, events)
      /\ G = H \cup RowsOf(events)
  BY DEF Execute
<1>4. new \in State(Person) /\ AppliesTo(new, S, s)
  BY <1>1, <1>2, AppliesOneByOne
<1>5. dashboard' \in DashboardState /\ ProjectsTo(dashboard', D, b, events)
  BY <1>1, <1>2, <1>3, ProjectsOneByOne
<1>6. AllVisitsOK(D) /\ NoneQuitBack(H)
  BY <1>1 DEF ServerCells
<1>7. AllSound(u, D)
  BY <1>6, ClearIsSound
<1>8. Grows(H, G) /\ (events = <<Event("AttendeeQuit", c)>> => c.person \in Quitters(G))
  BY <1>3, <1>6, <1>7, QuittersGrow
<1>9. \A n \in 1 .. Len(events) : CommandRow(c, events[n])
  BY <1>1, CommandRows
<1>10. \A n \in 1 .. Len(events) : IsRouted(events[n]) => HasRow(u, Published(b, events[n]))
  BY <1>1, <1>2, PublishedAre
<1>11. \A z \in CellState : \A d \in Place : \A p : LeadsAsEvents(z, c, d, p)
  BY <1>1, <1>2, LeadsPublished
<1>12. [R EXCEPT ![b] = S] = R
  BY <1>1
<1>13. \A d \in Place : \A p : CellAt(D, d, p) \in CellState
  BY <1>1, CellAtIs
<1>. HIDE DEF S, s, events, H, G, D, R, new, u
<1>14. ASSUME events = s, NoneDoes(s) PROVE Goal
  <2>1. new = S /\ dashboard' = D /\ readings' = R
    BY <1>2, <1>3, <1>4, <1>5, <1>12, <1>14 DEF AppliesTo, ProjectsTo
  <2>2. ServerCells(G, R, D)
    BY <1>1, <1>8, CellInvKept DEF ServerCells, Grows
  <2>3. \A z \in CellState : \A d \in Place : \A p : Leads(z, z, u, d, p)
    BY <1>2, <1>11, <1>14 DEF LeadsAsEvents, events, u
  <2>. QED  BY <2>1, <2>2, <2>3 DEF CommandDone, Follows
<1>15. ASSUME events = s, NEW k \in EventType, Done(k, TypeOf[b], S, c), OnlyDoes(s, Event(k, c)),
              ~ChangesNothing(Event(k, c))
       PROVE  Goal
  <2>. DEFINE f == Event(k, c)
              e == Published(b, f)
  <2>1. new = Applied(S, f) /\ dashboard' = Projected(D, e)
    BY <1>2, <1>4, <1>5, <1>15 DEF AppliesTo, ProjectsTo
  <2>2. PICK n \in 1 .. Len(events) : events[n] = f
    BY <1>15 DEF OnlyDoes
  <2>3. CommandRow(c, f) /\ f.type = k
    BY <1>9, <2>2 DEF Event
  <2>4. IsRouted(f)
    BY <1>15 DEF IsRouted, ChangesNothing, AddsIn, AddsOut, RemovesIn, RemovesOut, ChangesIn,
                 ChangesOut
  <2>5. Sound(e)
    BY <1>7, <1>10, <2>2, <2>4 DEF AllSound
  <2>6. k \in {"AttendeeScanInRemoved", "AttendeeScanOutRemoved"} => c.person \notin Quitters(H)
    BY <2>3 DEF CommandRow, H
  <2>7. /\ e \in ServerEvent /\ Fits(TypeOf[b], CellAt(D, b, c.person), e)
        /\ CellsStep(Projected(D, e), D, e)
        /\ ServerCells(G, [R EXCEPT ![b] = Applied(R[b], f)], Projected(D, e))
    BY <1>1, <1>8, <1>15, <2>3, <2>5, <2>6, RowDone DEF S, R
  <2>8. \A z \in CellState : \A d \in Place : \A p : Leads(z, CellStep(z, e, d, p), u, d, p)
    BY <1>2, <1>11, <1>15 DEF LeadsAsEvents, events, u
  <2>9. e.place = b /\ e.person = c.person
    BY DEF Published, Event
  <2>10. ServerCells(G, readings', dashboard')
    BY <1>3, <2>1, <2>7 DEF S, R
  <2>. HIDE DEF e, f
  <2>11. ASSUME NEW d \in Place, NEW p
         PROVE  Follows(TypeOf[d], CellAt(D, d, p), CellAt(dashboard', d, p), u, d, p)
    <3>1. CellAt(dashboard', d, p) = CellStep(CellAt(D, d, p), e, d, p)
      BY <2>1, <2>7 DEF CellsStep
    <3>2. e.place = d /\ e.person = p => Fits(TypeOf[d], CellAt(D, d, p), e)
      BY <2>7, <2>9
    <3>3. \A z \in CellState : Leads(z, CellStep(z, e, d, p), u, d, p)
      BY <2>8
    <3>4. Follows(TypeOf[d], CellAt(D, d, p), CellStep(CellAt(D, d, p), e, d, p), u, d, p)
      BY <2>7, <3>2, <3>3, FollowsOne
    <3>. QED  BY <3>1, <3>4
  <2>. QED  BY <2>10, <2>11 DEF CommandDone
<1>16. ASSUME events = s, TypeOf[b] = "Passthrough", IsRead(S.in, c.person), Len(s) = 2,
              s[1] = Event("AttendeeScanInRemoved", c), s[2] = Event("AttendeeScanOutRemoved", c)
       PROVE  Goal
  <2>. DEFINE i == Event("AttendeeScanInRemoved", c)
              o == Event("AttendeeScanOutRemoved", c)
              e == Published(b, i)
              f == Published(b, o)
              E == Projected(Projected(D, e), f)
              T == Applied(Applied(S, i), o)
  <2>1. new = T /\ dashboard' = E
    BY <1>4, <1>5, <1>16 DEF AppliesTo, ProjectsTo
  <2>2. c.person \notin Quitters(H)
    <3>1. CommandRow(c, i) /\ i.type = "AttendeeScanInRemoved"
      BY <1>9, <1>16 DEF Event
    <3>. QED  BY <3>1 DEF CommandRow, H
  <2>3. /\ e \in ServerEvent /\ Fits(TypeOf[b], CellAt(D, b, c.person), e)
        /\ \A d \in Place : \A p : CellAt(E, d, p) = CellStep(CellAt(D, d, p), e, d, p)
        /\ \A z, d, p : CellStep(CellStep(z, e, d, p), f, d, p) = CellStep(z, e, d, p)
        /\ ServerCells(G, [R EXCEPT ![b] = T], E)
    BY <1>1, <1>8, <1>16, <2>2, PairDone DEF S, R
  <2>4. \A z \in CellState : \A d \in Place : \A p : Leads(z, CellStep(z, e, d, p), u, d, p)
    <3>1. \A z \in CellState : \A d \in Place : \A p :
             Leads(z, CellStep(CellStep(z, e, d, p), f, d, p), u, d, p)
      BY <1>11, <1>16 DEF LeadsAsEvents, events, u
    <3>. HIDE DEF e, f
    <3>. QED  BY <2>3, <3>1
  <2>5. e.place = b /\ e.person = c.person
    BY DEF Published, Event
  <2>6. ServerCells(G, readings', dashboard')
    BY <1>3, <2>1, <2>3
  <2>. HIDE DEF e, i, o, f, E, T
  <2>7. ASSUME NEW d \in Place, NEW p
        PROVE  Follows(TypeOf[d], CellAt(D, d, p), CellAt(dashboard', d, p), u, d, p)
    <3>1. CellAt(dashboard', d, p) = CellStep(CellAt(D, d, p), e, d, p)
      BY <2>1, <2>3
    <3>2. e.place = d /\ e.person = p => Fits(TypeOf[d], CellAt(D, d, p), e)
      BY <2>3, <2>5
    <3>3. \A z \in CellState : Leads(z, CellStep(z, e, d, p), u, d, p)
      BY <2>4
    <3>4. Follows(TypeOf[d], CellAt(D, d, p), CellStep(CellAt(D, d, p), e, d, p), u, d, p)
      BY <2>3, <3>2, <3>3, FollowsOne
    <3>. QED  BY <3>1, <3>4
  <2>. QED  BY <2>6, <2>7 DEF CommandDone
<1>17. ASSUME s = <<>>, NEW k \in {"AttendeeQuit", "AttendeeQuitRemoved"},
              events = <<Event(k, c)>>
       PROVE  Goal
  <2>. DEFINE g == Event(k, c)
              e == Published(b, g)
  <2>1. NoneDoes(s)
    BY <1>17 DEF NoneDoes
  <2>2. readings' = R
    BY <1>3, <1>4, <1>12, <2>1 DEF AppliesTo
  <2>3. Len(events) = 1 /\ events[1] = g
    <3>. HIDE DEF g
    <3>. QED  BY <1>17 DEF g
  <2>4. dashboard' = Projected(D, e)
    BY <1>5, <2>3 DEF ProjectsTo
  <2>5. g.type = k /\ e.name = k /\ e.place = b /\ e.person = c.person /\ e.time = c.time
    BY DEF Event, Published
  <2>6. HasRow(u, e)
    BY <1>10, <2>3, <2>5 DEF IsRouted
  <2>7. k = "AttendeeQuit" /\ ~IsBlank(CellAt(D, e.place, e.person))
    BY <1>7, <2>5, <2>6 DEF AllSound, Sound
  <2>8. e \in ServerEvent
    BY <1>1, <2>5 DEF Published, ServerEvent, ServerEventName, IsInfo, Event
  <2>9. e.person \in Quitters(G)
    BY <1>8, <1>17, <2>5, <2>7
  <2>10. \A z \in CellState : \A d \in Place : \A p : Leads(z, CellStep(z, e, d, p), u, d, p)
    BY <1>11, <2>3 DEF LeadsAsEvents, events, u
  <2>. HIDE DEF e, g
  <2>11. /\ Fits(TypeOf[e.place], CellAt(D, e.place, e.person), e)
         /\ CellsStep(dashboard', D, e)
         /\ ServerCells(G, R, dashboard')
    BY <1>1, <1>8, <2>4, <2>5, <2>7, <2>8, <2>9, QuitDone
  <2>12. ASSUME NEW d \in Place, NEW p
         PROVE  Follows(TypeOf[d], CellAt(D, d, p), CellAt(dashboard', d, p), u, d, p)
    <3>1. CellAt(dashboard', d, p) = CellStep(CellAt(D, d, p), e, d, p)
      BY <2>11 DEF CellsStep
    <3>2. e.place = d /\ e.person = p => Fits(TypeOf[d], CellAt(D, d, p), e)
      BY <2>11
    <3>3. \A z \in CellState : Leads(z, CellStep(z, e, d, p), u, d, p)
      BY <2>10
    <3>4. Follows(TypeOf[d], CellAt(D, d, p), CellStep(CellAt(D, d, p), e, d, p), u, d, p)
      BY <2>8, <3>2, <3>3, FollowsOne
    <3>. QED  BY <3>1, <3>4
  <2>. QED  BY <2>2, <2>11, <2>12 DEF CommandDone
<1>. HIDE DEF Goal
<1>18. Goal
  BY <1>1, <1>2, <1>14, <1>15, <1>16, <1>17 DEF DoesAt, Does
<1>. QED  BY <1>7, <1>18 DEF Goal, u, D, G

-----------------------------------------------------------------------------
(* The page follows the dashboard.                                         *)

\* What is on its way leads the cells of V to those of D.
Agrees(V, D, w) ==
    /\ AllVisitsOK(V)
    /\ \A c \in Place : \A p : Leads(CellAt(V, c, p), CellAt(D, c, p), w, c, p)
    /\ \A p \in V.hasQuit : \E c \in Place : CellAt(D, c, p).quit

\* What is on its way is known to the dashboard already.
Waits(D, w) == \A c \in Place : \A p : Settles(TypeOf[c], CellAt(D, c, p), w, c, p)

SoundRows(w) == \A e : HasRow(w, e) => Sound(e)

\* The page, as long as it hears of events.
Hears(D, w) ==
    topic # "stuck" =>
        /\ answer = "asked" => Waits(D, w)
        /\ answer = "answered" => Agrees(DataInit(data), D, w)
        /\ answer = "loaded" => Agrees(view, D, w)

Clean == past \cap Excluded = {}

LinkInv == link = "up" \/ (link = "down" /\ wire = <<>>)

\* The inductive invariant for what a reload shows.
PageInv ==
    Clean =>
        /\ ServerCells(happening, readings, dashboard)
        /\ SoundRows(wire)
        /\ LinkInv
        /\ Hears(dashboard, wire)

\* Sound events follow sound events.
LEMMA SoundConcat ==
    ASSUME NEW w \in Seq(ServerEvent), NEW u \in Seq(ServerEvent), SoundRows(w), SoundRows(u)
    PROVE  w \o u \in Seq(ServerEvent) /\ SoundRows(w \o u)
  BY HasRowConcat DEF SoundRows

\* A command keeps the dashboard's quits.
LEMMA FollowsKeepsQuit ==
    ASSUME NEW type, NEW y \in CellState, NEW v, NEW u, NEW d, NEW p, CellOK(type, y),
           Follows(type, y, v, u, d, p)
    PROVE  y.quit => v.quit
<1>1. ASSUME NEW e \in ServerEvent, Fits(type, y, e), v = CellAfter(y, e) PROVE y.quit => v.quit
  BY <1>1, CellFits
<1>. QED  BY <1>1 DEF Follows

\* What agrees goes on agreeing with the dashboard when a command's events are on their way.
LEMMA AgreesOn ==
    ASSUME NEW V, NEW D \in DashboardState, NEW E, NEW H, NEW R, NEW G, NEW S,
           NEW w \in Seq(ServerEvent), NEW u \in Seq(ServerEvent),
           Agrees(V, D, w), ServerCells(H, R, D), CommandDone(G, S, E, D, u)
    PROVE  Agrees(V, E, w \o u)
<1>1. ASSUME NEW c \in Place, NEW p
      PROVE  /\ CellAt(D, c, p) \in CellState /\ CellOK(TypeOf[c], CellAt(D, c, p))
             /\ Follows(TypeOf[c], CellAt(D, c, p), CellAt(E, c, p), u, c, p)
  BY CellAtIs DEF ServerCells, CellInv, CommandDone
<1>2. ASSUME NEW c \in Place, NEW p
      PROVE  Leads(CellAt(V, c, p), CellAt(E, c, p), w \o u, c, p)
  <2>1. Leads(CellAt(V, c, p), CellAt(D, c, p), w, c, p)
    BY DEF Agrees
  <2>2. Leads(CellAt(D, c, p), CellAt(E, c, p), u, c, p)
    BY <1>1 DEF Follows
  <2>. QED  BY <2>1, <2>2, LeadsOn
<1>3. ASSUME NEW p \in V.hasQuit PROVE \E c \in Place : CellAt(E, c, p).quit
  <2>1. PICK c \in Place : CellAt(D, c, p).quit
    BY DEF Agrees
  <2>. QED  BY <1>1, <2>1, FollowsKeepsQuit
<1>. QED  BY <1>2, <1>3 DEF Agrees

\* What has settled goes on so, too.
LEMMA WaitsOn ==
    ASSUME NEW D \in DashboardState, NEW E, NEW H, NEW R, NEW G, NEW S,
           NEW w \in Seq(ServerEvent), NEW u \in Seq(ServerEvent),
           Waits(D, w), ServerCells(H, R, D), CommandDone(G, S, E, D, u)
    PROVE  Waits(E, w \o u)
<1>1. SUFFICES ASSUME NEW c \in Place, NEW p
               PROVE  Settles(TypeOf[c], CellAt(E, c, p), w \o u, c, p)
  BY DEF Waits
<1>. DEFINE y == CellAt(D, c, p)
            v == CellAt(E, c, p)
<1>2. /\ y \in CellState /\ CellOK(TypeOf[c], y) /\ Follows(TypeOf[c], y, v, u, c, p)
      /\ Settles(TypeOf[c], y, w, c, p)
  BY CellAtIs DEF ServerCells, CellInv, CommandDone, Waits
<1>. HIDE DEF y, v
<1>. DEFINE type == TypeOf[c]
<1>. HIDE DEF type
<1>3. CASE v = y /\ \A z \in CellState : Leads(z, z, u, c, p)
  <2>1. \A z \in CellState : Leads(z, z, u, c, p)
    BY <1>3
  <2>2. y \in CellState /\ Settles(type, y, w, c, p)
    BY <1>2 DEF type
  <2>3. Settles(type, y, w \o u, c, p)
    BY <2>1, <2>2, SettlesSame
  <2>. QED  BY <1>3, <2>3 DEF v, type
<1>4. CASE \E e \in ServerEvent :
              /\ Fits(type, y, e) /\ v = CellAfter(y, e)
              /\ \A z \in CellState : Leads(z, CellAfter(z, e), u, c, p)
  <2>1. PICK e \in ServerEvent :
              /\ Fits(type, y, e) /\ v = CellAfter(y, e)
              /\ \A z \in CellState : Leads(z, CellAfter(z, e), u, c, p)
    BY <1>4
  <2>2. \A z \in CellState : Leads(z, CellAfter(z, e), u, c, p)
    BY <2>1
  <2>3. y \in CellState /\ CellOK(type, y) /\ Settles(type, y, w, c, p) /\ Fits(type, y, e)
    BY <1>2, <2>1 DEF type
  <2>4. Settles(type, CellAfter(y, e), w \o u, c, p)
    BY <2>2, <2>3, SettlesOn
  <2>. QED  BY <2>1, <2>4 DEF v, type
<1>. QED  BY <1>2, <1>3, <1>4 DEF Follows, v, type

\* The answer.
LEMMA AnswerAgrees ==
    ASSUME NEW D \in DashboardState, NEW H, NEW R, NEW w, Waits(D, w), ServerCells(H, R, D)
    PROVE  Agrees(DataInit(D), D, w)
<1>1. AllVisitsOK(D)
  BY DEF ServerCells
<1>2. /\ AllVisitsOK(DataInit(D))
      /\ \A c \in Place : \A p : CellAt(DataInit(D), c, p) = CellAt(D, c, p)
      /\ \A p : p \in DataInit(D).hasQuit <=> p \in Person /\ \E c \in Place : CellAt(D, c, p).quit
  BY <1>1, LoadedCells DEF CellAt
<1>3. ASSUME NEW c \in Place, NEW p PROVE Leads(CellAt(D, c, p), CellAt(D, c, p), w, c, p)
  <2>1. CellAt(D, c, p) \in CellState /\ CellOK(TypeOf[c], CellAt(D, c, p))
    BY CellAtIs DEF ServerCells, CellInv
  <2>. QED  BY <2>1, SettlesIs DEF Waits
<1>. QED  BY <1>2, <1>3 DEF Agrees

\* The page hears of an event.
LEMMA AgreesAfter ==
    ASSUME NEW V \in ViewState, NEW D, NEW w \in Seq(ServerEvent), w # <<>>, Sound(Head(w)),
           Agrees(V, D, w)
    PROVE  Agrees(ViewApplied(V, Head(w)), D, Tail(w))
<1>. DEFINE e == Head(w)
            E == ViewApplied(V, e)
<1>1. e \in ServerEvent /\ Sound(e) /\ AllVisitsOK(V)
  BY DEF Agrees
<1>2. /\ E.hasQuit = V.hasQuit
      /\ Steps(E.visits[e.place], V.visits[e.place], e)
      /\ \A c \in Place : c # e.place => E.visits[c] = V.visits[c]
  <2>. HIDE DEF e
  <2>. QED  BY <1>1, ViewSteps
<1>. HIDE DEF E
<1>3. AllVisitsOK(E)
  BY <1>1, <1>2 DEF AllVisitsOK, Steps
<1>4. ASSUME NEW c \in Place, NEW p
      PROVE  Leads(CellAt(E, c, p), CellAt(D, c, p), Tail(w), c, p)
  <2>1. CellAt(E, c, p) = CellStep(CellAt(V, c, p), e, c, p)
    BY <1>2 DEF CellAt, CellStep, Steps
  <2>2. Leads(CellAt(V, c, p), CellAt(D, c, p), w, c, p)
    BY DEF Agrees
  <2>. QED  BY <2>1, <2>2, LeadsAfter
<1>. QED  BY <1>2, <1>3, <1>4 DEF Agrees, E

\* An event that the page does nothing with.
LEMMA InertGone ==
    ASSUME NEW D \in DashboardState, NEW w \in Seq(ServerEvent), w # <<>>, ~IsApplied(Head(w)),
           Sound(Head(w))
    PROVE  /\ Waits(D, w) => Waits(D, Tail(w))
           /\ \A V : Agrees(V, D, w) => Agrees(V, D, Tail(w))
<1>. DEFINE e == Head(w)
<1>1. \A z, c, p : CellStep(z, e, c, p) = z
  BY DEF CellStep, CellAfter, IsApplied, ScanType, RemovedType
<1>2. ASSUME Waits(D, w), NEW c \in Place, NEW p
      PROVE  Settles(TypeOf[c], CellAt(D, c, p), Tail(w), c, p)
  <2>1. Settles(TypeOf[c], CellAt(D, c, p), w, c, p) /\ CellAt(D, c, p) \in CellState
    BY <1>2, CellAtIs DEF Waits
  <2>. QED  BY <1>1, <2>1, SettlesAfter
<1>3. ASSUME NEW V, Agrees(V, D, w), NEW c \in Place, NEW p
      PROVE  Leads(CellAt(V, c, p), CellAt(D, c, p), Tail(w), c, p)
  <2>1. Leads(CellAt(V, c, p), CellAt(D, c, p), w, c, p)
    BY <1>3 DEF Agrees
  <2>2. Leads(CellStep(CellAt(V, c, p), e, c, p), CellAt(D, c, p), Tail(w), c, p)
    BY <2>1, LeadsAfter
  <2>. QED  BY <1>1, <2>2
<1>4. Waits(D, w) => Waits(D, Tail(w))
  BY <1>2 DEF Waits
<1>. QED  BY <1>3, <1>4 DEF Agrees

\* At the start nothing is shown and nothing is on its way.
LEMMA InitPage == Init => PageInv
<1>. SUFFICES ASSUME Init PROVE PageInv
  OBVIOUS
<1>1. /\ happening = {} /\ readings = [c \in Place |-> Blank] /\ dashboard = Empty
      /\ wire = <<>> /\ answer = "asked" /\ link = "down"
  BY DEF Init, ServerInit
<1>2. \A c \in Place : dashboard.visits[c] = {}
  BY <1>1 DEF Empty
<1>3. AllVisitsOK(dashboard)
  BY <1>2 DEF AllVisitsOK, VisitsOK, OneEach
<1>4. \A c \in Place : \A p : CellAt(dashboard, c, p) = NoCell
  BY <1>2 DEF CellAt, Cell, HasVisit, VisitsBy
<1>5. \A p : ~IsRead(Blank.in, p) /\ ~IsRead(Blank.out, p)
  BY DEF Blank, IsRead, Readings
<1>6. \A c \in Place : readings[c] = Blank
  BY <1>1
<1>7. NoCell.in = 0 /\ NoCell.out = 0 /\ NoCell.quit = FALSE
  BY DEF NoCell
<1>8. \A c \in Place : \A p : CellInv(TypeOf[c], readings[c], CellAt(dashboard, c, p), p, happening)
  BY <1>4, <1>5, <1>6, <1>7 DEF CellInv, CellOK, IsBlank
<1>9. ServerCells(happening, readings, dashboard)
  BY <1>1, <1>3, <1>8 DEF ServerCells, NoneQuitBack
<1>10. SoundRows(wire)
  BY <1>1 DEF SoundRows, HasRow
<1>11. Waits(dashboard, wire)
  BY <1>1, SettlesAtFirst DEF Waits
<1>. QED  BY <1>1, <1>9, <1>10, <1>11 DEF PageInv, Hears, LinkInv

\* The server executes a command.
LEMMA HandlePage ==
    ASSUME TypeInv, PageInv, NEW c \in sent, Handle(c)
    PROVE  PageInv'
<1>. DEFINE u == PublishedBy(c)
            D == dashboard
            E == dashboard'
            G == happening'
            S == readings'
<1>. SUFFICES ASSUME Clean'
              PROVE  ServerCells(G, S, E) /\ SoundRows(wire') /\ LinkInv' /\ Hears(dashboard, wire)'
  BY DEF PageInv
<1>1. /\ past' = past \cup PastOf(u) /\ wire' = (IF link = "up" THEN wire \o u ELSE wire)
      /\ link' = link /\ answer' = answer /\ data' = data /\ view' = view /\ topic' = topic
      /\ Execute(c)
  BY DEF Handle
<1>2. Clean /\ PastOf(u) \cap Excluded = {}
  BY <1>1 DEF Clean
<1>3. /\ ServerCells(happening, readings, D) /\ SoundRows(wire)
      /\ LinkInv /\ Hears(D, wire)
  BY <1>2 DEF PageInv
<1>4. c \in AnyCommand /\ D \in DashboardState /\ wire \in Seq(ServerEvent)
  BY DEF TypeInv
<1>5. u \in Seq(ServerEvent)
  BY <1>4, EventsOfIs, PublishedIsEvents DEF TypeInv, AnyCommand
<1>6. AllSound(u, D) /\ CommandDone(G, S, E, D, u)
  <2>1. PastOf(u) \cap {"retimed", "quitBack", "quitUnseen"} = {}
    BY <1>2 DEF Excluded
  <2>. QED  BY <1>1, <1>3, <1>4, <2>1, CommandStep
<1>. HIDE DEF u, E, G, S, D
<1>7. ServerCells(G, S, E)
  BY <1>6 DEF CommandDone
<1>8. wire \o u \in Seq(ServerEvent) /\ SoundRows(wire \o u)
  <2>1. SoundRows(u)
    BY <1>6 DEF SoundRows, AllSound
  <2>. QED  BY <1>3, <1>4, <1>5, <2>1, SoundConcat
<1>9. SoundRows(wire') /\ LinkInv'
  BY <1>1, <1>3, <1>8 DEF LinkInv
<1>10. topic # "stuck" =>
          /\ answer = "asked" => Waits(E, wire \o u)
          /\ answer = "answered" => Agrees(DataInit(data), E, wire \o u)
          /\ answer = "loaded" => Agrees(view, E, wire \o u)
  BY <1>3, <1>4, <1>5, <1>6, AgreesOn, WaitsOn DEF Hears
<1>11. answer = "asked" => Waits(E, <<>>)
  BY SettlesAtFirst DEF Waits
<1>12. ASSUME link = "down", answer # "asked" PROVE wire' = wire \o u
  <2>1. "missed" \in Happened /\ "missed" \in Excluded
    BY DEF Happened, Excluded
  <2>2. "missed" \notin PastOf(u)
    BY <1>2, <2>1
  <2>3. {u[i] : i \in DOMAIN u} = {}
    BY <1>12, <2>1, <2>2 DEF PastOf
  <2>4. u = <<>>
    <3>1. u # <<>> => 1 \in DOMAIN u
      BY <1>5
    <3>. QED  BY <2>3, <3>1
  <2>5. wire = <<>> /\ wire' = <<>>
    BY <1>1, <1>3, <1>12 DEF LinkInv
  <2>. QED  BY <2>4, <2>5
<1>13. Hears(dashboard, wire)'
  <2>1. SUFFICES ASSUME topic # "stuck"
                 PROVE  /\ answer = "asked" => Waits(E, wire')
                        /\ answer = "answered" => Agrees(DataInit(data), E, wire')
                        /\ answer = "loaded" => Agrees(view, E, wire')
    BY <1>1 DEF Hears, E
  <2>2. CASE link = "up"
    BY <1>1, <1>10, <2>1, <2>2
  <2>3. CASE link = "down" /\ answer = "asked"
    <3>1. wire' = <<>>
      BY <1>1, <1>3, <2>3 DEF LinkInv
    <3>. QED  BY <1>11, <2>3, <3>1
  <2>4. CASE link = "down" /\ answer # "asked"
    BY <1>10, <1>12, <2>1, <2>4
  <2>. QED  BY <1>3, <2>2, <2>3, <2>4 DEF LinkInv
<1>. QED  BY <1>7, <1>9, <1>13

\* The next event reaches the page.
LEMMA DeliverPage ==
    ASSUME TypeInv, PageInv, Deliver
    PROVE  PageInv'
<1>. DEFINE e == Head(wire)
            D == dashboard
<1>. SUFFICES ASSUME Clean'
              PROVE  /\ ServerCells(happening', readings', dashboard') /\ SoundRows(wire') /\ LinkInv'
                     /\ Hears(dashboard, wire)'
  BY DEF PageInv
<1>1. /\ wire # <<>> /\ wire' = Tail(wire) /\ link' = link /\ answer' = answer /\ data' = data
      /\ UNCHANGED <<happening, readings, dashboard>> /\ past \subseteq past'
  BY DEF Deliver, serverVars
<1>2. /\ ServerCells(happening, readings, D) /\ SoundRows(wire) /\ LinkInv /\ Hears(D, wire)
  BY <1>1 DEF PageInv, Clean
<1>3. wire \in Seq(ServerEvent) /\ D \in DashboardState /\ view \in ViewState
  BY DEF TypeInv
<1>4. Sound(e)
  <2>1. 1 \in 1 .. Len(wire) /\ wire[1] = e
    BY <1>1, <1>3
  <2>. QED  BY <1>2, <2>1 DEF SoundRows, HasRow
<1>5. SoundRows(wire')
  <2>1. \A i \in 1 .. Len(Tail(wire)) : i + 1 \in 1 .. Len(wire) /\ Tail(wire)[i] = wire[i + 1]
    BY <1>1, <1>3
  <2>. QED  BY <1>1, <1>2, <2>1 DEF SoundRows, HasRow
<1>6. LinkInv'
  BY <1>1, <1>2 DEF LinkInv
<1>7. ASSUME topic' # "stuck" PROVE topic # "stuck" /\ ~CheckpointsMissing(e)
  BY <1>7 DEF Deliver
<1>8. topic # "stuck" => view' = IF answer = "loaded" THEN ViewApplied(view, e) ELSE view
  BY DEF Deliver
<1>. HIDE DEF e, D
<1>9. ASSUME topic' # "stuck"
      PROVE  /\ answer = "asked" => Waits(D, Tail(wire))
             /\ answer = "answered" => Agrees(DataInit(data), D, Tail(wire))
             /\ answer = "loaded" => Agrees(view', D, Tail(wire))
  <2>1. /\ answer = "asked" => Waits(D, wire)
        /\ answer = "answered" => Agrees(DataInit(data), D, wire)
        /\ answer = "loaded" => Agrees(view, D, wire)
    BY <1>2, <1>7, <1>9 DEF Hears
  <2>2. CASE answer = "loaded"
    <3>1. view' = ViewApplied(view, e)
      BY <1>7, <1>8, <1>9, <2>2
    <3>2. Agrees(ViewApplied(view, e), D, Tail(wire))
      BY <1>1, <1>3, <1>4, <2>1, <2>2, AgreesAfter DEF e
    <3>. QED  BY <2>2, <3>1, <3>2
  <2>3. CASE answer # "loaded"
    <3>1. ~IsApplied(e)
      BY <1>7, <1>9, <2>3 DEF CheckpointsMissing
    <3>. QED  BY <1>1, <1>3, <1>4, <2>1, <2>3, <3>1, InertGone DEF e
  <2>. QED  BY <2>2, <2>3
<1>10. Hears(dashboard, wire)'
  BY <1>1, <1>9 DEF Hears, D
<1>. QED  BY <1>1, <1>2, <1>5, <1>6, <1>10 DEF D

\* Every step keeps the page in agreement.
LEMMA NextPage == IInv /\ PageInv /\ [Next]_vars => PageInv'
<1>. SUFFICES ASSUME IInv, PageInv, [Next]_vars PROVE PageInv'
  OBVIOUS
<1>1. TypeInv
  BY DEF IInv
<1>2. ASSUME UNCHANGED <<serverVars, pageVars, past>> PROVE PageInv'
  BY <1>2 DEF PageInv, Clean, LinkInv, Hears, serverVars, pageVars
<1>3. CASE OthersGive \/ UserGives
  BY <1>1, <1>2, <1>3, GivesKeeps
<1>4. ASSUME NEW c \in sent, Handle(c) PROVE PageInv'
  BY <1>1, <1>4, HandlePage
<1>5. CASE Answer
  <2>1. /\ answer = "asked" /\ answer' = "answered" /\ data' = dashboard
        /\ UNCHANGED <<happening, readings, dashboard, link, wire, view, topic, past>>
    BY <1>5 DEF Answer, serverVars
  <2>. SUFFICES ASSUME Clean' PROVE Hears(dashboard, wire)'
    BY <2>1 DEF PageInv, Clean, LinkInv
  <2>2. ServerCells(happening, readings, dashboard) /\ Hears(dashboard, wire)
    BY <2>1 DEF PageInv, Clean
  <2>3. topic # "stuck" => Agrees(DataInit(dashboard), dashboard, wire)
    BY <1>1, <2>1, <2>2, AnswerAgrees DEF TypeInv, Hears
  <2>. QED  BY <2>1, <2>3 DEF Hears
<1>6. CASE Load
  <2>1. /\ answer = "answered" /\ answer' = "loaded" /\ view' = DataInit(data)
        /\ UNCHANGED <<happening, readings, dashboard, link, wire, topic, past>>
    BY <1>6 DEF Load, serverVars
  <2>. QED  BY <2>1 DEF PageInv, Clean, LinkInv, Hears
<1>7. CASE Fail
  <2>1. /\ answer' = "failed"
        /\ UNCHANGED <<happening, readings, dashboard, link, wire, topic, past>>
    BY <1>7 DEF Fail, serverVars
  <2>. QED  BY <2>1 DEF PageInv, Clean, LinkInv, Hears
<1>8. CASE Connect
  <2>1. /\ link' = "up"
        /\ UNCHANGED <<happening, readings, dashboard, wire, answer, data, view, topic, past>>
    BY <1>8 DEF Connect, serverVars
  <2>. QED  BY <2>1 DEF PageInv, Clean, LinkInv, Hears
<1>9. CASE Disconnect
  <2>1. /\ link' = "down" /\ wire' = <<>>
        /\ past' = (IF wire = <<>> THEN past ELSE past \cup {"missed"})
        /\ UNCHANGED <<happening, readings, dashboard, answer, data, view, topic>>
    BY <1>9 DEF Disconnect, serverVars
  <2>2. Clean' => wire = <<>> /\ past' = past
    BY <2>1 DEF Clean, Excluded
  <2>. QED  BY <2>1, <2>2 DEF PageInv, Clean, LinkInv, Hears
<1>10. CASE Deliver
  BY <1>1, <1>10, DeliverPage
<1>11. CASE UNCHANGED vars
  BY <1>2, <1>11 DEF vars
<1>. QED  BY <1>3, <1>4, <1>5, <1>6, <1>7, <1>8, <1>9, <1>10, <1>11 DEF Next

\* Where the cells are the same, everybody's visits are.
LEMMA SameVisits ==
    ASSUME NEW X, NEW Y, VisitsOK(X), VisitsOK(Y), \A p : Cell(X, p) = Cell(Y, p)
    PROVE  \A v \in X : \E w \in Y :
              w.person = v.person /\ w.in = v.in /\ w.out = v.out /\ w.quit = v.quit
<1>. SUFFICES ASSUME NEW v \in X
              PROVE  \E w \in Y :
                        w.person = v.person /\ w.in = v.in /\ w.out = v.out /\ w.quit = v.quit
  OBVIOUS
<1>1. ~IsBlank(Cell(X, v.person)) /\ Cell(X, v.person) = CellOf(v)
  BY PresentIs, CellIs DEF VisitsOK
<1>2. PICK w \in Y : w.person = v.person
  BY <1>1, PresentIs
<1>3. Cell(Y, w.person) = CellOf(w)
  BY CellIs DEF VisitsOK
<1>4. CellOf(v) = CellOf(w)
  BY <1>1, <1>2, <1>3
<1>. QED  BY <1>2, <1>4 DEF CellOf

\* Those inside.
InsideOf(X) == {v \in X : ~IsTime(v.out) /\ ~v.quit}

\* Where the cells are the same, as many are inside.
LEMMA SameInside ==
    ASSUME NEW X, NEW Y, VisitsOK(X), VisitsOK(Y), \A p : Cell(X, p) = Cell(Y, p),
           \A v \in X : v.person \in Person
    PROVE  Cardinality(InsideOf(X)) = Cardinality(InsideOf(Y))
<1>. DEFINE S == InsideOf(X)
            T == InsideOf(Y)
            f == [v \in S |-> CHOOSE w \in T : w.person = v.person]
            g == [v \in S |-> v.person]
<1>1. \A v \in S : \E w \in T : w.person = v.person
  <2>1. \A v \in X : \E w \in Y :
           w.person = v.person /\ w.in = v.in /\ w.out = v.out /\ w.quit = v.quit
    BY SameVisits
  <2>. QED  BY <2>1 DEF InsideOf
<1>2. \A w \in T : \E v \in S : v.person = w.person
  <2>1. \A v \in Y : \E w \in X :
           w.person = v.person /\ w.in = v.in /\ w.out = v.out /\ w.quit = v.quit
    BY SameVisits
  <2>. QED  BY <2>1 DEF InsideOf
<1>3. /\ \A v, w \in S : v.person = w.person => v = w
      /\ \A v, w \in T : v.person = w.person => v = w
      /\ \A v \in S : v.person \in Person
  BY DEF InsideOf, VisitsOK, OneEach
<1>. HIDE DEF S, T
<1>4. \A v \in S : f[v] \in T /\ f[v].person = v.person
  BY <1>1
<1>5. f \in [S -> T]
  BY <1>4
<1>6. \A v, w \in S : f[v] = f[w] => v = w
  BY <1>3, <1>4
<1>7. \A w \in T : \E v \in S : f[v] = w
  BY <1>2, <1>3, <1>4
<1>8. ExistsBijection(S, T)
  <2>. HIDE DEF f
  <2>1. f \in Injection(S, T)
    BY <1>5, <1>6 DEF Injection, IsInjective
  <2>2. f \in Surjection(S, T)
    BY <1>5, <1>7 DEF Surjection
  <2>. QED  BY <2>1, <2>2 DEF ExistsBijection, Bijection
<1>9. IsFiniteSet(S)
  <2>1. g \in Injection(S, Person)
    BY <1>3 DEF Injection, IsInjective
  <2>. HIDE DEF g
  <2>. QED  BY <2>1, PersonAssumption, FS_Injection
<1>10. Cardinality(T) = Cardinality(S)
  BY <1>8, <1>9, FS_Bijection
<1>. QED  BY <1>10 DEF S, T

\* Where the cells are the same, so is what a page shows.
LEMMA SameShown ==
    ASSUME NEW V, NEW W, NEW c \in Place, VisitsOK(V.visits[c]), VisitsOK(W.visits[c]),
           \A p : CellAt(V, c, p) = CellAt(W, c, p), \A v \in V.visits[c] : v.person \in Person
    PROVE  Shown(V, c) = Shown(W, c)
<1>. DEFINE X == V.visits[c]
            Y == W.visits[c]
<1>1. VisitsOK(X) /\ VisitsOK(Y) /\ \A p : Cell(X, p) = Cell(Y, p)
  BY DEF CellAt
<1>2. \A v \in X : v.person \in Person
  OBVIOUS
<1>. HIDE DEF X, Y
<1>3. \A v, w : w.person = v.person /\ w.in = v.in /\ w.out = v.out => ShownRow(v) = ShownRow(w)
  BY DEF ShownRow, Duration
<1>4. {ShownRow(v) : v \in X} = {ShownRow(w) : w \in Y}
  <2>1. \A v \in X : \E w \in Y : ShownRow(v) = ShownRow(w)
    BY <1>1, <1>3, SameVisits
  <2>2. \A w \in Y : \E v \in X : ShownRow(w) = ShownRow(v)
    BY <1>1, <1>3, SameVisits
  <2>. QED  BY <2>1, <2>2
<1>5. Inside(V, c) = Inside(W, c)
  <2>1. Cardinality(InsideOf(X)) = Cardinality(InsideOf(Y))
    BY <1>1, <1>2, SameInside
  <2>. QED  BY <2>1 DEF Inside, InsideOf, X, Y
<1>. QED  BY <1>4, <1>5 DEF Shown, X, Y

\* Once the page has caught up, loading it again would show the same rows at every checkpoint
\* and as many people inside, and nobody who is said to have quit would not be any more: for any
\* route, any number of people, commands, times and losses.
THEOREM ReloadShows == Spec => []ReloadShowsTheSame
<1>1. ASSUME IInv, PageInv PROVE ReloadShowsTheSame
  <2>. SUFFICES ASSUME CaughtUp, past \cap {"retimed", "quitBack", "quitUnseen"} = {}
                PROVE  /\ \A c \in Place : Shown(view, c) = Shown(DataInit(dashboard), c)
                       /\ view.hasQuit \subseteq DataInit(dashboard).hasQuit
    BY DEF ReloadShowsTheSame
  <2>1. answer = "loaded" /\ topic = "live" /\ wire = <<>> /\ Clean
    BY DEF CaughtUp, Clean, Excluded
  <2>2. ServerCells(happening, readings, dashboard) /\ Agrees(view, dashboard, wire)
    BY <1>1, <2>1 DEF PageInv, Hears
  <2>3. dashboard \in DashboardState /\ view \in ViewState
    BY <1>1 DEF IInv, TypeInv
  <2>. DEFINE W == DataInit(dashboard)
  <2>4. /\ AllVisitsOK(W)
        /\ \A c \in Place : \A p : CellAt(W, c, p) = CellAt(dashboard, c, p)
        /\ \A p : p \in W.hasQuit <=>
                     p \in Person /\ \E c \in Place : CellAt(dashboard, c, p).quit
    BY <2>2, <2>3, LoadedCells DEF CellAt, ServerCells
  <2>. HIDE DEF W
  <2>5. \A c \in Place : \A p : CellAt(view, c, p) = CellAt(dashboard, c, p)
    BY <2>1, <2>2, LeadsNowhere DEF Agrees
  <2>6. ASSUME NEW c \in Place PROVE Shown(view, c) = Shown(W, c)
    <3>1. VisitsOK(view.visits[c]) /\ VisitsOK(W.visits[c])
      BY <2>2, <2>4 DEF Agrees, AllVisitsOK
    <3>2. \A v \in view.visits[c] : v.person \in Person
      BY <2>3 DEF ViewState, ViewVisit
    <3>. QED  BY <2>4, <2>5, <3>1, <3>2, SameShown
  <2>7. view.hasQuit \subseteq W.hasQuit
    <3>1. view.hasQuit \subseteq Person
      BY <2>3 DEF ViewState
    <3>. QED  BY <2>2, <2>4, <3>1 DEF Agrees
  <2>. QED  BY <2>6, <2>7 DEF W
<1>2. IInv /\ PageInv => ReloadShowsTheSame
  BY <1>1
<1>. QED  BY <1>2, InitPage, NextPage, Invariant, PTL DEF Spec



-----------------------------------------------------------------------------
(* Keys.                                                                   *)

\* s ends with t.
EndsWith(s, t) == Len(t) <= Len(s) /\ \A i \in 1 .. Len(t) : s[Len(s) - Len(t) + i] = t[i]

\* It is what the library calls a suffix.
LEMMA EndsWithIs ==
    ASSUME NEW S, NEW s \in Seq(S), NEW t \in Seq(S), EndsWith(s, t)
    PROVE  Ext!IsSuffix(t, s)
<1>. DEFINE r == Ext!Reverse(s)
            q == Ext!Reverse(t)
<1>1. /\ r \in Seq(S) /\ Len(r) = Len(s) /\ \A i \in 1 .. Len(s) : r[i] = s[Len(s) - i + 1]
      /\ q \in Seq(S) /\ Len(q) = Len(t) /\ \A i \in 1 .. Len(t) : q[i] = t[Len(t) - i + 1]
  BY DEF Ext!Reverse
<1>. HIDE DEF r, q
<1>2. ASSUME NEW i \in 1 .. Len(q) PROVE q[i] = r[i]
  <2>1. i \in 1 .. Len(t) /\ i \in 1 .. Len(s)
    BY <1>1 DEF EndsWith
  <2>2. Len(t) - i + 1 \in 1 .. Len(t) /\ Len(s) - Len(t) + (Len(t) - i + 1) = Len(s) - i + 1
    BY <2>1
  <2>3. s[Len(s) - Len(t) + (Len(t) - i + 1)] = t[Len(t) - i + 1]
    BY <2>2 DEF EndsWith
  <2>. QED  BY <1>1, <2>1, <2>2, <2>3
<1>3. Len(q) <= Len(r) /\ Len(q) \in Nat /\ Len(r) \in Nat
  BY <1>1 DEF EndsWith
<1>4. SubSeq(q, 1, Len(q)) = SubSeq(r, 1, Len(q))
  BY <1>1, <1>2, <1>3
<1>. QED  BY <1>3, <1>4 DEF Ext!IsSuffix, Ext!IsPrefix, r, q

\* Everything ends with nothing, and what is typed goes to the end of both.
LEMMA EndsWithKeys ==
    ASSUME NEW S, NEW s \in Seq(S)
    PROVE  /\ EndsWith(s, <<>>)
           /\ \A t \in Seq(S) : \A k \in S : EndsWith(s, t) => EndsWith(Append(s, k), Append(t, k))
<1>1. EndsWith(s, <<>>)
  BY DEF EndsWith
<1>2. ASSUME NEW t \in Seq(S), NEW k \in S, EndsWith(s, t)
      PROVE  EndsWith(Append(s, k), Append(t, k))
  <2>1. /\ Len(Append(s, k)) = Len(s) + 1 /\ Len(Append(t, k)) = Len(t) + 1
        /\ Len(s) \in Nat /\ Len(t) \in Nat /\ Len(t) <= Len(s)
    BY <1>2 DEF EndsWith
  <2>2. ASSUME NEW i \in 1 .. Len(t) + 1
        PROVE  Append(s, k)[Len(s) - Len(t) + i] = Append(t, k)[i]
    <3>1. CASE i = Len(t) + 1
      <4>1. Len(s) - Len(t) + i = Len(s) + 1
        BY <2>1, <3>1
      <4>. QED  BY <2>1, <3>1, <4>1
    <3>2. CASE i # Len(t) + 1
      <4>1. i \in 1 .. Len(t) /\ Len(s) - Len(t) + i \in 1 .. Len(s)
        BY <2>1, <3>2
      <4>2. s[Len(s) - Len(t) + i] = t[i]
        BY <1>2, <4>1 DEF EndsWith
      <4>. QED  BY <4>1, <4>2
    <3>. QED  BY <3>1, <3>2
  <2>3. Len(Append(s, k)) - Len(Append(t, k)) = Len(s) - Len(t)
    BY <2>1
  <2>. QED  BY <2>1, <2>2, <2>3 DEF EndsWith
<1>. QED  BY <1>1, <1>2

Reader == [buffer : Seq(Key), armed : BOOLEAN]

ScanRow ==
    [id : Nat, person : Person, status : {"new", "ack", "ok", "error"}, outcome : Nat]

\* What a reader holds was typed last, whatever its timer has dropped.
KeyInv ==
    /\ typed \in Seq(Key)
    /\ readers \in [{"barcode", "nfc"} -> Reader]
    /\ \A r \in {"barcode", "nfc"} : EndsWith(typed, readers[r].buffer)

\* A key goes to both readers, but for a Return that one cannot deal with.
LEMMA KeyUpKeeps == ASSUME KeyInv, NEW k \in Key, KeyUp(k) PROVE KeyInv'
<1>1. /\ typed \in Seq(Key) /\ readers \in [{"barcode", "nfc"} -> Reader]
      /\ typed' = TypedAfter(k)
      /\ readers' = [r \in {"barcode", "nfc"} |->
                       IF ReadThrows(r, k) THEN readers[r] ELSE KeyRead(readers[r], k)]
  BY DEF KeyInv, KeyUp, ReadersAfter
<1>2. \A r : ReadThrows(r, k) => k = "Return"
  BY DEF ReadThrows, IsHanded, HandsOver
<1>. DEFINE Stops == \E r \in DOMAIN readers : ReadThrows(r, k)
<1>7. /\ k = "Shift" \/ Stops => typed' = typed
      /\ ~(k = "Shift" \/ Stops) /\ k = "Return" => typed' = <<>>
      /\ ~(k = "Shift" \/ Stops) /\ k # "Return" => typed' = Append(typed, k)
  <2>1. TypedAfter(k) = IF k = "Shift" \/ Stops THEN typed
                        ELSE IF k = "Return" THEN <<>> ELSE Append(typed, k)
    BY DEF TypedAfter
  <2>. HIDE DEF Stops
  <2>. QED  BY <1>1, <2>1
<1>8. /\ Stops => k = "Return"
      /\ \A r \in {"barcode", "nfc"} : ReadThrows(r, k) => Stops
  BY <1>1, <1>2
<1>. HIDE DEF Stops
<1>3. <<>> \in Seq(Key) /\ Append(typed, k) \in Seq(Key)
  BY <1>1
<1>4. typed' \in Seq(Key)
  BY <1>1, <1>3, <1>7
<1>5. ASSUME NEW r \in {"barcode", "nfc"}
      PROVE  readers'[r] \in Reader /\ EndsWith(typed', readers'[r].buffer)
  <2>. DEFINE b == readers[r]
              new == KeyRead(b, k)
  <2>1. /\ b \in Reader /\ b.buffer \in Seq(Key) /\ EndsWith(typed, b.buffer)
        /\ readers'[r] = IF ReadThrows(r, k) THEN b ELSE new
    BY <1>1 DEF KeyInv, Reader
  <2>. HIDE DEF b
  <2>2. CASE k \in Accepted
    <3>1. ~ReadThrows(r, k) /\ typed' = Append(typed, k)
      BY <1>2, <1>7, <1>8, <2>2, KeyAssumption
    <3>2. new = [buffer |-> Append(b.buffer, k), armed |-> TRUE]
      <4>1. k # "Shift"
        BY <2>2, KeyAssumption
      <4>. QED  BY <2>2, <4>1 DEF KeyRead
    <3>3. EndsWith(Append(typed, k), Append(b.buffer, k)) /\ Append(b.buffer, k) \in Seq(Key)
      BY <1>1, <2>1, EndsWithKeys
    <3>. QED  BY <2>1, <3>1, <3>2, <3>3 DEF Reader
  <2>3. CASE k = "Shift"
    <3>1. typed' = typed
      BY <1>7, <2>3
    <3>2. k \notin Accepted
      BY <2>3, KeyAssumption
    <3>3. new = b
      BY <2>3, <3>2 DEF KeyRead
    <3>. QED  BY <2>1, <3>1, <3>3
  <2>4. CASE k = "Return" \/ k = "Other"
    <3>1. new = [b EXCEPT !.buffer = <<>>]
      BY <2>4, KeyAssumption DEF KeyRead
    <3>2. new \in Reader /\ new.buffer = <<>>
      BY <1>3, <2>1, <3>1 DEF Reader
    <3>3. EndsWith(typed', <<>>)
      BY <1>4, EndsWithKeys
    <3>4. ReadThrows(r, k) => typed' = typed
      BY <1>7, <1>8
    <3>. QED  BY <2>1, <3>2, <3>3, <3>4
  <2>. QED  BY <2>2, <2>3, <2>4 DEF Key
<1>6. readers' \in [{"barcode", "nfc"} -> Reader]
  <2>1. readers' = [r \in {"barcode", "nfc"} |-> readers'[r]]
    BY <1>1
  <2>. QED  BY <1>5, <2>1
<1>. QED  BY <1>4, <1>5, <1>6 DEF KeyInv

\* Whoever is read has their barcode or their tag typed last.
LEMMA ReadIsTyped ==
    ASSUME KeyInv, NEW r \in {"barcode", "nfc"}, NEW k, NEW p \in Person, IsHanded(r, k),
           Validates(CodeRead(r), p)
    PROVE  IsTyped(p)
<1>. DEFINE b == readers[r].buffer
<1>1. /\ b \in Seq(Key) /\ typed \in Seq(Key) /\ EndsWith(typed, b)
      /\ Barcodes[p] = CodeRead(r)
  BY DEF KeyInv, Reader, Validates
<1>2. Ext!IsSuffix(b, typed)
  BY <1>1, EndsWithIs
<1>. DEFINE holders == {q \in DOMAIN Tags : Tags[q] = b}
<1>. HIDE DEF b
<1>3. CASE r = "nfc" /\ holders # {}
  <2>. DEFINE h == CHOOSE q \in holders : TRUE
  <2>1. h \in holders
    BY <1>3
  <2>2. CodeRead(r) = Barcodes[h]
    BY <1>3 DEF CodeRead, b
  <2>. HIDE DEF h
  <2>3. h \in Person /\ h \in DOMAIN Tags /\ Tags[h] = b
    BY <2>1, CodesAssumption
  <2>4. h = p
    BY <1>1, <2>2, <2>3, CodesAssumption
  <2>. QED  BY <1>2, <2>3, <2>4 DEF IsTyped
<1>4. CASE ~(r = "nfc" /\ holders # {})
  <2>1. CodeRead(r) = b
    BY <1>4 DEF CodeRead, b
  <2>. QED  BY <1>1, <1>2, <2>1 DEF IsTyped
<1>. QED  BY <1>3, <1>4

-----------------------------------------------------------------------------
(* The steps of the page.                                                  *)

ScanTypes ==
    /\ rows \in Seq(ScanRow)
    /\ \A c \in due : c \in AnyCommand /\ c.at # 0

\* An acknowledgement is nothing to the report.
LEMMA AckIs ==
    ASSUME NEW c \in AnyCommand
    PROVE  AckOf(c) \in ServerEvent /\ AckOf(c).name = "ack" /\ ~IsApplied(AckOf(c))
<1>1. AckOf(c) \in ServerEvent /\ AckOf(c).name = "ack"
  BY DEF AckOf, AnyCommand, ServerEvent, ServerEventName
<1>. QED  BY <1>1 DEF IsApplied, ScanType, RemovedType

\* A non-empty set of numbers up to n has a last one.
LEMMA LastOne ==
    ASSUME NEW n \in Nat, NEW X \in SUBSET (1 .. n), X # {}
    PROVE  \E c \in X : \A d \in X : d <= c
<1>. DEFINE S == {n - c : c \in X}
<1>1. S \in SUBSET Nat /\ S # {}
  <2>1. \A c \in X : n - c \in Nat
    OBVIOUS
  <2>. QED  BY <2>1
<1>. HIDE DEF S
<1>2. PICK m \in S : \A k \in S : m <= k
  BY <1>1, NatMin
<1>3. PICK c \in X : m = n - c
  BY <1>2 DEF S
<1>4. \A d \in X : n - c <= n - d
  BY <1>2, <1>3 DEF S
<1>5. \A d \in X : d <= c
  BY <1>4
<1>. QED  BY <1>5

\* The last checkpoint that a person has been to.
LEMMA LastIs ==
    ASSUME NEW V, NEW p, CanInfer(V, p), NEW n \in Nat, Place = 1 .. n
    PROVE  /\ LastVisited(V, p) \in VisitedPlaces(V, p)
           /\ \A d \in VisitedPlaces(V, p) : d <= LastVisited(V, p)
<1>. DEFINE X == VisitedPlaces(V, p)
<1>1. X \subseteq 1 .. n /\ X # {}
  BY DEF VisitedPlaces, CanInfer
<1>. HIDE DEF X
<1>2. \E c \in X : \A d \in X : d <= c
  BY <1>1, LastOne
<1>. QED  BY <1>2 DEF LastVisited, X

\* A person is scanned where the report says.
LEMMA InferredIsPlace ==
    ASSUME NEW p, InferredPlace(view, p) # NoPlace, CanInfer(view, p),
           NEW n \in Nat, Place = 1 .. n
    PROVE  InferredPlace(view, p) \in Place
<1>1. LastVisited(view, p) \in Place
  BY LastIs DEF VisitedPlaces
<1>. QED  BY <1>1 DEF InferredPlace, HasNext

\* What a page with data asks for is a command.
LEMMA ScanSends ==
    ASSUME TypeInv, NEW p \in Person, Scan(p)
    PROVE  /\ TypeInv' /\ UNCHANGED <<serverVars, pageVars, past>>
           /\ \E id \in Nat : rows' = Append(rows, LogRow(id, p))
<1>1. CASE CanInfer(view, p) /\ Listens /\ InferredPlace(view, p) # NoPlace
  <2>1. Send("Scan", p, InferredPlace(view, p)) /\ rows' = Append(rows, LogRow(now + 1, p))
    BY <1>1 DEF Scan
  <2>2. now + 1 \in Nat \ {0}
    BY DEF TypeInv
  <2>3. InferredPlace(view, p) \in Place
    BY <1>1, TypeOfAssumption, InferredIsPlace DEF Place
  <2>. QED  BY <2>1, <2>2, <2>3, SendKeeps DEF Send
<1>2. CASE ~(CanInfer(view, p) /\ Listens /\ InferredPlace(view, p) # NoPlace)
  <2>1. rows' = Append(rows, LogRow(0, p)) /\ UNCHANGED vars
    BY <1>2 DEF Scan
  <2>. QED  BY <2>1 DEF vars, serverVars, pageVars, TypeInv
<1>. QED  BY <1>1, <1>2

\* The start readings are commands, too.
LEMMA StartsSend ==
    ASSUME TypeInv, AddStartScans
    PROVE  TypeInv' /\ UNCHANGED <<serverVars, pageVars, past, rows>>
<1>1. /\ Place # {} /\ now' = now + Cardinality(Person)
      /\ UNCHANGED <<serverVars, pageVars, past, rows>>
  BY DEF AddStartScans, scanVars
<1>2. now \in Nat /\ now' \in Nat /\ Cardinality(Person) \in Nat
  BY <1>1, PersonAssumption, FS_CardinalityType DEF TypeInv
<1>. DEFINE time == ToServerTimeFromInputDate(FormatTime(now + 1))
            cmd(p, t) == [Command("StartScan", p, 1, t) EXCEPT !.time = time]
<1>3. PICK at \in Bijection(Person, now + 1 .. now') : sent' = sent \cup {cmd(p, at[p]) : p \in Person}
  BY DEF AddStartScans
<1>4. at \in [Person -> now + 1 .. now']
  BY <1>3 DEF Bijection, Injection
<1>5. time \in Nat \ {0}
  BY <1>2, TypedTime
<1>6. 1 \in Place
  BY <1>1, TypeOfAssumption DEF Place
<1>. HIDE DEF time
<1>7. \A p \in Person : at[p] \in Nat /\ cmd(p, at[p]) \in AnyCommand
  <2>1. \A p \in Person : at[p] \in Nat
    BY <1>2, <1>4
  <2>. QED  BY <1>5, <1>6, <2>1 DEF Command, AnyCommand
<1>. HIDE DEF cmd
<1>8. \A d \in sent' : d \in AnyCommand
  BY <1>3, <1>7 DEF TypeInv
<1>. QED  BY <1>1, <1>2, <1>8 DEF TypeInv, serverVars, pageVars

\* What ScanNext does to the page of LiveReport: one of its steps; a command, or none, that
\* is given; an acknowledgement that is sent; one that comes.
Gives == TypeInv' /\ UNCHANGED <<serverVars, pageVars, past>>

Acknowledges ==
    /\ \E c \in AnyCommand : c.at # 0 /\ wire' = Append(wire, AckOf(c))
    /\ link = "up"
    /\ UNCHANGED <<now, sent, serverVars, link, losses, answer, data, view, topic, past>>

HearsAck ==
    /\ wire # <<>> /\ Head(wire).name = "ack" /\ wire' = Tail(wire)
    /\ UNCHANGED <<now, sent, serverVars, link, losses, answer, data, view, topic, past>>

\* What a step of the page is to the report: one of its own, commands given, an
\* acknowledgement sent, or one heard.
LEMMA ScanStep ==
    ASSUME TypeInv, ScanTypes, [ScanNext]_allVars
    PROVE  [Next]_vars \/ Gives \/ Acknowledges \/ HearsAck
<1>1. CASE \E k \in Key : KeyNotRead(k)
  BY <1>1 DEF KeyNotRead
<1>2. CASE \E r \in DOMAIN readers, k \in Key, p \in Person : KeyReads(r, k, p)
  BY <1>2, ScanSends DEF KeyReads, Gives
<1>3. CASE \E r \in DOMAIN readers : TimeOut(r)
  BY <1>3 DEF TimeOut
<1>4. CASE AddStartScans
  BY <1>4, StartsSend DEF Gives
<1>5. CASE \E c \in sent : HandleScan(c)
  BY <1>5 DEF HandleScan, Next
<1>6. CASE \E c \in due : Ack(c)
  BY <1>6 DEF Ack, Acknowledges, ScanTypes
<1>7. CASE DeliverAck
  BY <1>7 DEF DeliverAck, IsAck, HearsAck
<1>8. CASE DeliverEvent
  BY <1>8 DEF DeliverEvent, Next
<1>9. CASE (OthersGive \/ Answer \/ Load \/ Fail \/ Connect \/ Disconnect) /\ UNCHANGED scanVars
  BY <1>9 DEF Next
<1>10. CASE UNCHANGED allVars
  BY <1>10 DEF allVars
<1>. QED  BY <1>1, <1>2, <1>3, <1>4, <1>5, <1>6, <1>7, <1>8, <1>9, <1>10 DEF ScanNext

\* The page and its server are in shape.
LEMMA ScanIInv == ASSUME IInv, ScanTypes, [ScanNext]_allVars PROVE IInv'
<1>1. TypeInv /\ ServerInv
  BY DEF IInv
<1>2. ASSUME UNCHANGED <<readings, dashboard>> PROVE ServerInv'
  BY <1>1, <1>2 DEF ServerInv, DashboardInv, OneVisit, OutIsRead, HasLeft
<1>3. CASE Gives
  BY <1>2, <1>3 DEF Gives, IInv, serverVars
<1>4. CASE Acknowledges
  <2>1. wire' \in Seq(ServerEvent)
    BY <1>1, <1>4, AckIs DEF Acknowledges, TypeInv
  <2>2. TypeInv'
    BY <1>1, <1>4, <2>1 DEF TypeInv, Acknowledges, serverVars
  <2>. QED  BY <1>2, <1>4, <2>2 DEF IInv, Acknowledges, serverVars
<1>5. CASE HearsAck
  <2>1. wire' \in Seq(ServerEvent)
    BY <1>1, <1>5 DEF HearsAck, TypeInv
  <2>2. TypeInv'
    BY <1>1, <1>5, <2>1 DEF TypeInv, HearsAck, serverVars
  <2>. QED  BY <1>2, <1>5, <2>2 DEF IInv, HearsAck, serverVars
<1>. QED  BY <1>1, <1>3, <1>4, <1>5, ScanStep, NextIInv

\* The rows of the log, and what waits for an acknowledgement.
LEMMA RowsAre ==
    ASSUME TypeInv, ScanTypes, [ScanNext]_allVars
    PROVE  /\ ScanTypes'
           /\ \/ Len(rows') = Len(rows)
              \/ \E r \in DOMAIN readers, k \in Key, p \in Person :
                    KeyReads(r, k, p) /\ \E id \in Nat : rows' = Append(rows, LogRow(id, p))
<1>. DEFINE Goal == ScanTypes' /\ Len(rows') = Len(rows)
<1>1. CASE \E k \in Key : KeyNotRead(k)
  BY <1>1 DEF KeyNotRead, KeyUp, ScanTypes
<1>2. ASSUME NEW r \in DOMAIN readers, NEW k \in Key, NEW p \in Person, KeyReads(r, k, p)
      PROVE  ScanTypes' /\ \E id \in Nat : rows' = Append(rows, LogRow(id, p))
  <2>1. PICK id \in Nat : rows' = Append(rows, LogRow(id, p))
    BY <1>2, ScanSends DEF KeyReads
  <2>2. LogRow(id, p) \in ScanRow
    BY DEF LogRow, ScanRow
  <2>3. due' = due
    BY <1>2 DEF KeyReads, KeyUp
  <2>. QED  BY <2>1, <2>2, <2>3 DEF ScanTypes
<1>3. CASE \E r \in DOMAIN readers : TimeOut(r)
  BY <1>3 DEF TimeOut, ScanTypes
<1>4. CASE AddStartScans
  BY <1>4 DEF AddStartScans, scanVars, ScanTypes
<1>5. CASE \E c \in sent : HandleScan(c)
  BY <1>5 DEF HandleScan, Own, ScanTypes, TypeInv
<1>6. CASE \E c \in due : Ack(c)
  BY <1>6 DEF Ack, scanVars, ScanTypes
<1>7. CASE DeliverAck
  <2>. DEFINE id == Head(wire).time
              new(i) == IF rows[i].id = id THEN [rows[i] EXCEPT !.status = "ack"] ELSE rows[i]
  <2>1. rows' = [i \in 1 .. Len(rows) |-> new(i)] /\ due' \subseteq due
    BY <1>7 DEF DeliverAck, ScanTypes
  <2>2. ASSUME NEW i \in 1 .. Len(rows) PROVE new(i) \in ScanRow
    <3>1. rows[i] \in ScanRow
      BY DEF ScanTypes
    <3>2. [rows[i] EXCEPT !.status = "ack"] \in ScanRow
      BY <3>1 DEF ScanRow
    <3>. QED  BY <3>1, <3>2
  <2>. HIDE DEF new
  <2>. QED  BY <2>1, <2>2 DEF ScanTypes
<1>8. CASE DeliverEvent
  <2>. DEFINE e == Head(wire)
              new(i) == IF IsFoundRow(i, e) THEN SetRowStatus(rows[i], e) ELSE rows[i]
  <2>4. wire # <<>> /\ wire \in Seq(ServerEvent)
    BY <1>8 DEF DeliverEvent, Deliver, TypeInv
  <2>1. e.time \in Nat
    <3>1. e \in ServerEvent
      BY <2>4
    <3>. QED  BY <3>1 DEF ServerEvent
  <2>2. (rows' = rows \/ rows' = [i \in 1 .. Len(rows) |-> new(i)]) /\ due' = due
    BY <1>8 DEF DeliverEvent, ScanTypes
  <2>. HIDE DEF e
  <2>3. ASSUME NEW i \in 1 .. Len(rows) PROVE new(i) \in ScanRow
    <3>1. rows[i] \in ScanRow
      BY DEF ScanTypes
    <3>2. /\ [rows[i] EXCEPT !.status = "ok", !.outcome = e.time] \in ScanRow
          /\ [rows[i] EXCEPT !.status = "error", !.outcome = e.time] \in ScanRow
      BY <2>1, <3>1 DEF ScanRow
    <3>3. SetRowStatus(rows[i], e) \in ScanRow
      BY <3>1, <3>2 DEF SetRowStatus, SuccessEvents, ErrorEvents
    <3>. QED  BY <3>1, <3>3
  <2>. HIDE DEF new
  <2>. QED  BY <2>2, <2>3 DEF ScanTypes
<1>9. CASE (OthersGive \/ Answer \/ Load \/ Fail \/ Connect \/ Disconnect) /\ UNCHANGED scanVars
  BY <1>9 DEF scanVars, ScanTypes
<1>10. CASE UNCHANGED allVars
  BY <1>10 DEF allVars, scanVars, ScanTypes
<1>. QED  BY <1>1, <1>2, <1>3, <1>4, <1>5, <1>6, <1>7, <1>8, <1>9, <1>10 DEF ScanNext

\* What the readers hold.
LEMMA NextKey == ASSUME KeyInv, [ScanNext]_allVars PROVE KeyInv'
<1>1. ASSUME UNCHANGED <<readers, typed>> PROVE KeyInv'
  BY <1>1 DEF KeyInv
<1>2. CASE \E k \in Key : KeyUp(k)
  BY <1>2, KeyUpKeeps
<1>3. ASSUME NEW r \in DOMAIN readers, TimeOut(r) PROVE KeyInv'
  <2>1. readers' = [readers EXCEPT ![r] = Idle] /\ typed' = typed
    BY <1>3 DEF TimeOut, TimedOut
  <2>2. Idle \in Reader /\ Idle.buffer = <<>> /\ EndsWith(typed, <<>>)
    BY EndsWithKeys DEF Idle, Reader, KeyInv
  <2>. QED  BY <2>1, <2>2 DEF KeyInv
<1>4. CASE UNCHANGED allVars
  BY <1>1, <1>4 DEF allVars, scanVars
<1>5. CASE AddStartScans \/ DeliverAck \/ DeliverEvent \/ UNCHANGED scanVars
           \/ (\E c \in sent : HandleScan(c)) \/ (\E c \in due : Ack(c))
  BY <1>1, <1>5 DEF AddStartScans, DeliverAck, DeliverEvent, HandleScan, Ack, scanVars
<1>. QED  BY <1>2, <1>3, <1>4, <1>5 DEF ScanNext, KeyNotRead, KeyReads

\* The inductive invariant.
ScanInv == IInv /\ ScanTypes /\ KeyInv

\* It holds in every state, whatever the other pages do.
LEMMA ScanInvariant == ScanSpec => []ScanInv
<1>1. ScanInit => ScanInv
  <2>. SUFFICES ASSUME ScanInit PROVE ScanInv
    OBVIOUS
  <2>1. IInv
    BY InitIInv DEF ScanInit
  <2>2. ScanTypes
    BY DEF ScanInit, ScanTypes
  <2>3. typed = <<>> /\ \A r \in {"barcode", "nfc"} : readers[r] = Idle
    BY DEF ScanInit
  <2>4. <<>> \in Seq(Key) /\ Idle \in Reader /\ Idle.buffer = <<>>
    BY DEF Idle, Reader
  <2>5. EndsWith(<<>>, <<>>)
    BY <2>4, EndsWithKeys
  <2>6. KeyInv
    BY <2>3, <2>4, <2>5 DEF ScanInit, KeyInv
  <2>. QED  BY <2>1, <2>2, <2>6 DEF ScanInv
<1>2. ScanInv /\ [ScanNext]_allVars => ScanInv'
  <2>. SUFFICES ASSUME ScanInv, [ScanNext]_allVars PROVE ScanInv'
    OBVIOUS
  <2>1. IInv /\ ScanTypes /\ KeyInv /\ TypeInv
    BY DEF ScanInv, IInv
  <2>. QED  BY <2>1, ScanIInv, RowsAre, NextKey DEF ScanInv
<1>. QED  BY <1>1, <1>2, PTL DEF ScanSpec

\* Whoever gets a row in the log has had their barcode or their tag typed in full since
\* the last Return: for any people, codes, keys and lengths of time between them.
THEOREM RowsAreRead == ScanSpec => WholeReading
<1>1. ASSUME ScanInv, [ScanNext]_allVars
      PROVE  /\ Len(rows') <= Len(rows) + 1
             /\ Len(rows') > Len(rows) => IsTyped(rows'[Len(rows')].person)
  <2>1. TypeInv /\ ScanTypes /\ KeyInv /\ Len(rows) \in Nat
    BY <1>1 DEF ScanInv, IInv, ScanTypes
  <2>2. CASE Len(rows') = Len(rows)
    BY <2>1, <2>2
  <2>3. ASSUME NEW r \in DOMAIN readers, NEW k \in Key, NEW p \in Person, KeyReads(r, k, p),
               NEW id \in Nat, rows' = Append(rows, LogRow(id, p))
        PROVE  Len(rows') = Len(rows) + 1 /\ IsTyped(rows'[Len(rows')].person)
    <3>1. IsTyped(p)
      <4>1. r \in {"barcode", "nfc"}
        BY <2>1 DEF KeyInv
      <4>. QED  BY <2>1, <2>3, <4>1, ReadIsTyped DEF KeyReads
    <3>2. rows'[Len(rows')] = LogRow(id, p) /\ Len(rows') = Len(rows) + 1
      BY <2>1, <2>3 DEF ScanTypes
    <3>. QED  BY <3>1, <3>2 DEF LogRow
  <2>. QED  BY <1>1, <2>1, <2>2, <2>3, RowsAre
<1>2. ScanInv /\ [ScanNext]_allVars =>
        [/\ Len(rows') <= Len(rows) + 1
         /\ Len(rows') > Len(rows) => IsTyped(rows'[Len(rows')].person)]_allVars
  BY <1>1
<1>. QED  BY <1>2, ScanInvariant, PTL DEF ScanSpec, WholeReading

-----------------------------------------------------------------------------
(* Readings, and nothing else, on their way.                               *)

\* The other pages do nothing but scan.
ScansOnly == OthersKinds \subseteq {"StartScan", "Scan"}

\* What a scan is published as.
ReadingName == {"AttendeeScanIn", "AttendeeScanOut", "AttendeePassthroughScan"}

InertName == {"AttendeeDoubleScan", "AttendeeScanOutPreceedsScanIn",
              "FirstAttendeeForHappeningScanned", "AttendeeScannedAtStartCheckpoint",
              "AttendeeScannedAtFinishCheckpoint", "ack"}

Plain(e) ==
    /\ e.time # 0
    /\ e.name \in ReadingName \cup InertName
    /\ e.name = "AttendeePassthroughScan" => TypeOf[e.place] = "Passthrough"

PlainRows(w) == \A e : HasRow(w, e) => Plain(e)

\* The cell x is not ahead of y.
BehindCell(x, y) == (~IsBlank(x) => ~IsBlank(y)) /\ (x.out # 0 => y.out # 0)

\* The cell y knows of a reading.
KnownAs(e, y) ==
    /\ e.name \in {"AttendeeScanIn", "AttendeePassthroughScan"} => ~IsBlank(y)
    /\ e.name = "AttendeeScanOut" => y.out # 0

\* Cells that are behind one another.
LEMMA BehindIs ==
    /\ \A x : BehindCell(x, x)
    /\ \A x, y, z : BehindCell(x, y) /\ BehindCell(y, z) => BehindCell(x, z)
    /\ \A e, y, z : KnownAs(e, y) /\ BehindCell(y, z) => KnownAs(e, z)
  BY DEF BehindCell, KnownAs

\* A reading takes a cell forward and is known to it then.
LEMMA PlainStep ==
    ASSUME NEW x \in CellState, NEW e \in ServerEvent, Plain(e), NEW c, NEW p
    PROVE  LET y == CellStep(x, e, c, p)
           IN  BehindCell(x, y) /\ (e.place = c /\ e.person = p => KnownAs(e, y))
<1>. DEFINE y == CellAfter(x, e)
<1>1. x = [in |-> x.in, out |-> x.out, quit |-> x.quit]
  BY DEF CellState
<1>2. BehindCell(x, y) /\ KnownAs(e, y)
  <2>1. CASE e.name = "AttendeeScanIn"
    <3>1. y.in = e.time /\ y.out = x.out
      BY <1>1, <2>1 DEF CellAfter
    <3>. HIDE DEF y
    <3>. QED  BY <2>1, <3>1 DEF Plain, BehindCell, KnownAs, IsBlank
  <2>2. CASE e.name = "AttendeeScanOut"
    <3>1. y.out = e.time
      BY <1>1, <2>2 DEF CellAfter
    <3>. HIDE DEF y
    <3>. QED  BY <2>2, <3>1 DEF Plain, BehindCell, KnownAs, IsBlank
  <2>3. CASE e.name = "AttendeePassthroughScan"
    <3>1. CASE IsBlank(x)
      <4>1. y.in = e.time /\ y.out = e.time
        BY <2>3, <3>1 DEF CellAfter
      <4>. HIDE DEF y
      <4>. QED  BY <2>3, <4>1 DEF Plain, BehindCell, KnownAs, IsBlank
    <3>2. CASE ~IsBlank(x)
      <4>1. y = x
        BY <2>3, <3>2 DEF CellAfter
      <4>. HIDE DEF y
      <4>. QED  BY <2>3, <3>2, <4>1 DEF BehindCell, KnownAs
    <3>. QED  BY <3>1, <3>2
  <2>4. CASE e.name \in InertName
    <3>1. y = x
      BY <2>4 DEF InertName, CellAfter
    <3>. HIDE DEF y
    <3>. QED  BY <2>4, <3>1 DEF InertName, BehindCell, KnownAs
  <2>. QED  BY <2>1, <2>2, <2>3, <2>4 DEF Plain, ReadingName
<1>3. BehindCell(x, x)
  BY BehindIs
<1>. HIDE DEF y
<1>. QED  BY <1>2, <1>3 DEF CellStep, y

\* Readings take a cell forward and are known to it then.
LEMMA PlainLeads ==
    ASSUME NEW w \in Seq(ServerEvent), PlainRows(w), NEW x \in CellState, NEW y, NEW c, NEW p,
           Leads(x, y, w, c, p)
    PROVE  /\ BehindCell(x, y)
           /\ \A e : HasRow(w, e) /\ e.place = c /\ e.person = p => KnownAs(e, y)
<1>. DEFINE N == Len(w)
            Here(e) == e.place = c /\ e.person = p
            Knows(n, z) == \A k \in 1 .. n : Here(w[k]) => KnownAs(w[k], z)
<1>1. PICK h : Trail(h, x, y, w, c, p)
  BY DEF Leads
<1>2. /\ N \in Nat /\ h[0] = x /\ h[N] = y
      /\ \A n \in 1 .. N : h[n] = CellStep(h[n - 1], w[n], c, p)
      /\ \A n \in 1 .. N : w[n] \in ServerEvent /\ Plain(w[n])
  BY <1>1 DEF Trail, PlainRows, HasRow
<1>. DEFINE S == {n \in 0 .. N : h[n] \in CellState /\ BehindCell(x, h[n]) /\ Knows(n, h[n])}
<1>. HIDE DEF N, Here
<1>3. 0 \in S
  BY <1>2, BehindIs
<1>4. ASSUME NEW n \in 0 .. N, n \in S, n < N PROVE n + 1 \in S
  <2>. DEFINE m == n + 1
  <2>1. m \in 1 .. N /\ m - 1 = n /\ m \in 0 .. N /\ \A k \in 1 .. m : k \in 1 .. n \/ k = m
    BY <1>2, <1>4
  <2>2. h[n] \in CellState /\ BehindCell(x, h[n]) /\ Knows(n, h[n])
    BY <1>4
  <2>3. h[m] = CellStep(h[n], w[m], c, p) /\ w[m] \in ServerEvent /\ Plain(w[m])
    BY <1>2, <2>1
  <2>. HIDE DEF m, Knows
  <2>4. h[m] \in CellState
    BY <2>2, <2>3, CellStepIs
  <2>5. BehindCell(h[n], h[m]) /\ (Here(w[m]) => KnownAs(w[m], h[m]))
    BY <2>2, <2>3, PlainStep DEF Here
  <2>6. BehindCell(x, h[m])
    BY <2>2, <2>5, BehindIs
  <2>7. Knows(m, h[m])
    BY <2>1, <2>2, <2>5, BehindIs DEF Knows
  <2>. QED  BY <2>1, <2>4, <2>6, <2>7 DEF m
<1>5. \A n \in 0 .. N : n \in S
  <2>. HIDE DEF S
  <2>. QED  BY <1>2, <1>3, <1>4, UpTo
<1>6. BehindCell(x, y) /\ Knows(N, y)
  BY <1>2, <1>5
<1>. QED  BY <1>6 DEF HasRow, N, Here

\* A scan publishes readings, and nothing else.
LEMMA ScanPublishes ==
    ASSUME NEW c \in AnyCommand, c.kind \in {"StartScan", "Scan"},
           readings \in [Place -> State(Person)]
    PROVE  /\ PublishedBy(c) \in Seq(ServerEvent) /\ PlainRows(PublishedBy(c))
           /\ PastOf(PublishedBy(c)) \cap {"retimed", "quitBack", "quitUnseen"} = {}
<1>. DEFINE type == TypeOf[c.place]
            S == readings[c.place]
            scan == ScanEvent(type, S, c)
            u == PublishedBy(c)
            Does1(k) ==
                \/ k \in InertName
                \/ k = scan
<1>1. IsInfo(c, Person) /\ c.place \in Place /\ c.time # 0 /\ EventsOf(c) \in Seq(ServerRow)
  BY CheckpointDoes, EventsOfIs DEF Null
<1>2. u \in Seq(ServerEvent)
  BY <1>1, PublishedIsEvents
<1>3. EventsOf(c) = AddScan(type, S, c) \/ EventsOf(c) = <<>>
  <2>1. HappeningEvents(c) = <<>>
    BY DEF HappeningEvents
  <2>2. CheckpointEvents(c) = AddScan(type, S, c) \/ CheckpointEvents(c) = <<>>
    BY DEF CheckpointEvents
  <2>3. AddScan(type, S, c) \in Seq(EventRow(Person))
    BY <1>1, AddScanRows
  <2>4. AddScan(type, S, c) \o <<>> = AddScan(type, S, c) /\ <<>> \o <<>> = <<>>
    <3>. DEFINE a == AddScan(type, S, c)
    <3>. HIDE DEF a
    <3>1. a \in Seq(EventRow(Person))
      BY <2>3 DEF a
    <3>. QED  BY <3>1 DEF a
  <2>. HIDE DEF type, S
  <2>. QED  BY <2>1, <2>2, <2>4 DEF EventsOf
<1>4. \A f : HasRow(AddScan(type, S, c), f) =>
                \/ f = Event(scan, c)
                \/ f = Event("FirstAttendeeForHappeningScanned", c)
                \/ f = Event("AttendeeScannedAtStartCheckpoint", c)
                \/ f = Event("AttendeeScannedAtFinishCheckpoint", c)
  <2>. HIDE DEF type, S
  <2>. DEFINE events == AddScan(type, S, c)
  <2>1. IsInfo(c, Person) /\ events = AddScan(type, S, c) /\ events \in Seq(EventRow(Person))
    BY <1>1, AddScanRows
  <2>. HIDE DEF events
  <2>2. \A f : HasRow(events, f) <=>
           \/ /\ type = "Start" /\ S.out = <<>>
              /\ f = Event("FirstAttendeeForHappeningScanned", c)
           \/ f = Event(ScanEvent(type, S, c), c)
           \/ /\ type = "Start" /\ ScanEvent(type, S, c) = "AttendeeScanOut"
              /\ f = Event("AttendeeScannedAtStartCheckpoint", c)
           \/ /\ type = "Finish" /\ ScanEvent(type, S, c) = "AttendeeScanIn"
              /\ f = Event("AttendeeScannedAtFinishCheckpoint", c)
    BY <2>1, AddScanRows
  <2>. QED  BY <2>1, <2>2 DEF scan
<1>5. ASSUME NEW f, HasRow(EventsOf(c), f) PROVE \E k : f = Event(k, c) /\ Does1(k)
  <2>1. HasRow(AddScan(type, S, c), f)
    BY <1>3, <1>5 DEF HasRow
  <2>2. \/ f = Event(scan, c)
        \/ f = Event("FirstAttendeeForHappeningScanned", c)
        \/ f = Event("AttendeeScannedAtStartCheckpoint", c)
        \/ f = Event("AttendeeScannedAtFinishCheckpoint", c)
    BY <2>1, <1>4
  <2>. HIDE DEF scan
  <2>. QED  BY <2>2 DEF InertName
<1>6. \/ scan \in InertName \/ scan \in {"AttendeeScanIn", "AttendeeScanOut"}
      \/ scan = "AttendeePassthroughScan" /\ type = "Passthrough"
  BY ScanEventIs DEF InertName
<1>. HIDE DEF scan, u
<1>7. ASSUME NEW e, HasRow(u, e) PROVE Plain(e)
  <2>1. PICK n \in 1 .. Len(EventsOf(c)) : e = Published(c.place, EventsOf(c)[n])
    BY <1>1, <1>7, PublishedAre DEF u
  <2>2. PICK k : EventsOf(c)[n] = Event(k, c) /\ Does1(k)
    BY <1>5 DEF HasRow
  <2>3. e.name = k /\ e.time = c.time /\ e.place = c.place
    BY <2>1, <2>2 DEF Published, Event
  <2>. QED  BY <1>1, <1>6, <2>2, <2>3 DEF Plain, ReadingName, InertName
<1>8. ASSUME NEW i \in DOMAIN u
      PROVE  /\ ScanTimestamp(u[i]) # NaN
             /\ u[i].name \notin {"AttendeeQuit", "AttendeeQuitRemoved"}
  <2>1. i \in 1 .. Len(u) /\ u[i] \in ServerEvent
    BY <1>2
  <2>2. Plain(u[i]) /\ u[i].time \in Nat
    <3>1. HasRow(u, u[i])
      BY <2>1 DEF HasRow
    <3>. QED  BY <1>7, <2>1, <3>1 DEF ServerEvent
  <2>. QED  BY <2>2 DEF Plain, ReadingName, InertName, ScanTimestamp, NaN
<1>9. PastOf(u) \cap {"retimed", "quitBack", "quitUnseen"} = {}
  BY <1>8 DEF PastOf
<1>. QED  BY <1>2, <1>7, <1>9 DEF PlainRows, u

\* What is shown is not ahead of the dashboard.
Behind(V, D) ==
    /\ AllVisitsOK(V)
    /\ \A c \in Place : \A p : BehindCell(CellAt(V, c, p), CellAt(D, c, p))

\* The dashboard has made of what is on its way what it makes of it.
WireKnown(D, w) ==
    \A e : HasRow(w, e) => Plain(e) /\ KnownAs(e, CellAt(D, e.place, e.person))

\* A page that hears of a reading which the dashboard knows stays behind it.
LEMMA BehindAfter ==
    ASSUME NEW x, NEW y \in CellState, NEW e, NEW c, NEW p, BehindCell(x, y), Plain(e),
           e.place = c /\ e.person = p => KnownAs(e, y), CellOK(TypeOf[c], y),
           x = [in |-> x.in, out |-> x.out, quit |-> x.quit]
    PROVE  BehindCell(CellStep(x, e, c, p), y)
<1>. DEFINE z == CellAfter(x, e)
<1>1. x = [in |-> x.in, out |-> x.out, quit |-> x.quit]
  OBVIOUS
<1>2. CASE e.place = c /\ e.person = p
  <2>1. CellStep(x, e, c, p) = z /\ KnownAs(e, y)
    BY <1>2 DEF CellStep
  <2>. HIDE DEF z
  <2>2. CASE e.name = "AttendeeScanIn"
    <3>1. z.out = x.out
      BY <1>1, <2>2 DEF CellAfter, z
    <3>. QED  BY <2>1, <2>2, <3>1 DEF BehindCell, KnownAs
  <2>3. CASE e.name = "AttendeeScanOut"
    BY <2>1, <2>3 DEF BehindCell, KnownAs, IsBlank
  <2>4. CASE e.name = "AttendeePassthroughScan"
    <3>1. y.in = y.out /\ ~IsBlank(y)
      BY <1>2, <2>1, <2>4 DEF Plain, CellOK, KnownAs
    <3>. QED  BY <2>1, <3>1 DEF BehindCell, IsBlank
  <2>5. CASE e.name \in InertName
    <3>1. z = x
      BY <2>5 DEF InertName, CellAfter, z
    <3>. QED  BY <2>1, <3>1
  <2>. QED  BY <2>2, <2>3, <2>4, <2>5 DEF Plain, ReadingName
<1>3. CASE ~(e.place = c /\ e.person = p)
  BY <1>3 DEF CellStep
<1>. QED  BY <1>2, <1>3

\* Nothing but readings is asked for.
ScansSent == \A c \in sent : c.kind \in {"StartScan", "Scan"}

\* Commands that scan.
LEMMA NextSent ==
    ASSUME ScansOnly, ScansSent, [ScanNext]_allVars
    PROVE  ScansSent'
<1>1. ASSUME sent' = sent PROVE ScansSent'
  BY <1>1 DEF ScansSent
<1>2. ASSUME NEW kind \in {"StartScan", "Scan"}, NEW p, NEW c, Send(kind, p, c)
      PROVE  ScansSent'
  BY <1>2 DEF ScansSent, Send, SendTimed, Command
<1>3. CASE \E k \in Key : KeyNotRead(k)
  BY <1>1, <1>3 DEF KeyNotRead, vars
<1>4. CASE \E r \in DOMAIN readers, k \in Key, p \in Person : KeyReads(r, k, p)
  BY <1>1, <1>2, <1>4 DEF KeyReads, Scan, vars
<1>5. CASE \E r \in DOMAIN readers : TimeOut(r)
  BY <1>1, <1>5 DEF TimeOut, vars
<1>6. CASE AddStartScans
  BY <1>6 DEF ScansSent, AddStartScans, Command
<1>7. CASE \E c \in sent : HandleScan(c)
  BY <1>7 DEF ScansSent, HandleScan, Handle
<1>8. CASE (\E c \in due : Ack(c)) \/ DeliverAck
  BY <1>1, <1>8 DEF Ack, DeliverAck
<1>9. CASE DeliverEvent
  BY <1>1, <1>9 DEF DeliverEvent, Deliver
<1>10. CASE OthersGive
  BY <1>2, <1>10 DEF OthersGive, ScansOnly
<1>11. CASE Answer \/ Load \/ Fail \/ Connect \/ Disconnect
  BY <1>1, <1>11 DEF Answer, Load, Fail, Connect, Disconnect
<1>12. CASE UNCHANGED allVars
  BY <1>1, <1>12 DEF allVars, vars
<1>. QED  BY <1>3, <1>4, <1>5, <1>6, <1>7, <1>8, <1>9, <1>10, <1>11, <1>12 DEF ScanNext

\* What the dashboard knows of all that is on its way, and the page not more than it.
CellsKnown ==
    /\ past \cap {"retimed", "quitBack", "quitUnseen"} = {}
    /\ ServerCells(happening, readings, dashboard)
    /\ WireKnown(dashboard, wire)
    /\ answer = "answered" => Behind(data, dashboard)
    /\ answer = "loaded" => Behind(view, dashboard)

\* A cell has its three fields.
LEMMA CellFields ==
    ASSUME NEW V, NEW c, NEW p
    PROVE  LET x == CellAt(V, c, p) IN x = [in |-> x.in, out |-> x.out, quit |-> x.quit]
  BY DEF CellAt, Cell, CellOf, NoCell

\* A row of a list of events is an event.
LEMMA RowIsEvent ==
    ASSUME NEW w \in Seq(ServerEvent), NEW e, HasRow(w, e)
    PROVE  e \in ServerEvent /\ e.place \in Place
<1>1. e \in ServerEvent
  BY DEF HasRow
<1>. QED  BY <1>1 DEF ServerEvent

\* The server executes a command that scans.
LEMMA HandleKnown ==
    ASSUME TypeInv, ScansSent, CellsKnown, NEW c \in sent, Handle(c)
    PROVE  CellsKnown'
<1>. DEFINE u == PublishedBy(c)
            D == dashboard
            E == dashboard'
<1>1. /\ past' = past \cup PastOf(u) /\ wire' = (IF link = "up" THEN wire \o u ELSE wire)
      /\ answer' = answer /\ data' = data /\ view' = view
      /\ Execute(c)
  BY DEF Handle
<1>2. c \in AnyCommand /\ D \in DashboardState /\ wire \in Seq(ServerEvent)
  BY DEF TypeInv
<1>3. u \in Seq(ServerEvent) /\ PlainRows(u) /\ PastOf(u) \cap {"retimed", "quitBack", "quitUnseen"} = {}
  BY <1>2, ScanPublishes DEF TypeInv, ScansSent
<1>4. past' \cap {"retimed", "quitBack", "quitUnseen"} = {}
  BY <1>1, <1>3 DEF CellsKnown
<1>5. CommandDone(happening', readings', E, D, u)
  BY <1>1, <1>2, <1>3, CommandStep DEF CellsKnown
<1>. HIDE DEF u, D, E
<1>6. ServerCells(happening', readings', E)
  BY <1>5 DEF CommandDone
<1>7. ASSUME NEW d \in Place, NEW p
      PROVE  /\ BehindCell(CellAt(D, d, p), CellAt(E, d, p))
             /\ \A e : HasRow(u, e) /\ e.place = d /\ e.person = p => KnownAs(e, CellAt(E, d, p))
  <2>1. CellAt(D, d, p) \in CellState
    BY <1>2, CellAtIs
  <2>2. Follows(TypeOf[d], CellAt(D, d, p), CellAt(E, d, p), u, d, p)
    BY <1>5 DEF CommandDone
  <2>3. Leads(CellAt(D, d, p), CellAt(E, d, p), u, d, p)
    BY <2>1, <2>2 DEF Follows
  <2>. QED  BY <1>3, <2>1, <2>3, PlainLeads
<1>8. ASSUME NEW V, Behind(V, D) PROVE Behind(V, E)
  BY <1>7, <1>8, BehindIs DEF Behind
<1>9. WireKnown(E, wire \o u) /\ WireKnown(E, wire)
  <2>1. ASSUME NEW e, HasRow(wire, e) PROVE Plain(e) /\ KnownAs(e, CellAt(E, e.place, e.person))
    <3>1. Plain(e) /\ KnownAs(e, CellAt(D, e.place, e.person))
      BY <2>1 DEF CellsKnown, WireKnown, D
    <3>2. e.place \in Place
      BY <1>2, <2>1, RowIsEvent
    <3>. QED  BY <1>7, <3>1, <3>2, BehindIs
  <2>2. ASSUME NEW e, HasRow(u, e) PROVE Plain(e) /\ KnownAs(e, CellAt(E, e.place, e.person))
    <3>1. Plain(e) /\ e.place \in Place
      BY <1>3, <2>2, RowIsEvent DEF PlainRows
    <3>. QED  BY <1>7, <2>2, <3>1
  <2>3. \A e : HasRow(wire \o u, e) <=> HasRow(wire, e) \/ HasRow(u, e)
    BY <1>2, <1>3, HasRowConcat
  <2>. QED  BY <2>1, <2>2, <2>3 DEF WireKnown
<1>10. /\ answer = "answered" => Behind(data, E)
       /\ answer = "loaded" => Behind(view, E)
  BY <1>8 DEF CellsKnown, D
<1>. QED  BY <1>1, <1>4, <1>6, <1>9, <1>10 DEF CellsKnown, E

\* The next event reaches the page.
LEMMA DeliverKnown ==
    ASSUME TypeInv, CellsKnown, Deliver
    PROVE  CellsKnown'
<1>. DEFINE e == Head(wire)
            D == dashboard
<1>1. /\ wire # <<>> /\ wire' = Tail(wire) /\ answer' = answer /\ data' = data
      /\ UNCHANGED <<happening, readings, dashboard>> /\ past' \subseteq past \cup {"early"}
      /\ view' = view \/ (answer = "loaded" /\ view' = ViewApplied(view, e))
  BY DEF Deliver, serverVars
<1>2. wire \in Seq(ServerEvent) /\ view \in ViewState /\ D \in DashboardState
  BY DEF TypeInv
<1>3. e \in ServerEvent /\ HasRow(wire, e)
  <2>1. 1 \in 1 .. Len(wire) /\ wire[1] = e
    BY <1>1, <1>2
  <2>. QED  BY <1>2, <2>1 DEF HasRow
<1>4. Plain(e) /\ KnownAs(e, CellAt(D, e.place, e.person))
  BY <1>3 DEF CellsKnown, WireKnown
<1>5. WireKnown(D, wire')
  <2>1. \A i \in 1 .. Len(Tail(wire)) : i + 1 \in 1 .. Len(wire) /\ Tail(wire)[i] = wire[i + 1]
    BY <1>1, <1>2
  <2>2. \A f : HasRow(Tail(wire), f) => HasRow(wire, f)
    BY <2>1 DEF HasRow
  <2>. QED  BY <1>1, <2>2 DEF CellsKnown, WireKnown
<1>. HIDE DEF e, D
<1>6. ASSUME answer = "loaded" PROVE Behind(ViewApplied(view, e), D)
  <2>. DEFINE V == ViewApplied(view, e)
  <2>1. Behind(view, D) /\ AllVisitsOK(view)
    BY <1>6 DEF CellsKnown, Behind, D
  <2>2. Sound(e)
    BY <1>4 DEF Plain, Sound, ReadingName, InertName
  <2>3. /\ Steps(V.visits[e.place], view.visits[e.place], e)
        /\ \A c \in Place : c # e.place => V.visits[c] = view.visits[c]
    BY <1>2, <1>3, <2>1, <2>2, ViewSteps
  <2>. HIDE DEF V
  <2>4. AllVisitsOK(V)
    BY <2>1, <2>3 DEF AllVisitsOK, Steps
  <2>5. ASSUME NEW c \in Place, NEW p PROVE BehindCell(CellAt(V, c, p), CellAt(D, c, p))
    <3>1. CellAt(V, c, p) = CellStep(CellAt(view, c, p), e, c, p)
      BY <2>3 DEF CellAt, CellStep, Steps
    <3>2. BehindCell(CellAt(view, c, p), CellAt(D, c, p)) /\ CellAt(D, c, p) \in CellState
      BY <1>2, <2>1, CellAtIs DEF Behind
    <3>3. CellOK(TypeOf[c], CellAt(D, c, p))
      BY DEF CellsKnown, ServerCells, CellInv, D
    <3>. QED  BY <1>4, <3>1, <3>2, <3>3, CellFields, BehindAfter
  <2>. QED  BY <2>4, <2>5 DEF Behind, V
<1>7. answer = "loaded" => Behind(view', D)
  BY <1>1, <1>6 DEF CellsKnown, D
<1>. QED  BY <1>1, <1>5, <1>7 DEF CellsKnown, D

\* Every step keeps the page behind the dashboard.
LEMMA NextKnown ==
    ASSUME TypeInv, ScansSent, CellsKnown, [Next]_vars \/ Gives \/ Acknowledges \/ HearsAck,
           TypeInv'
    PROVE  CellsKnown'
<1>1. ASSUME UNCHANGED <<serverVars, pageVars, past>> PROVE CellsKnown'
  BY <1>1 DEF CellsKnown, serverVars, pageVars
<1>2. CASE OthersGive \/ UserGives
  BY <1>1, <1>2, GivesKeeps
<1>3. CASE \E c \in sent : Handle(c)
  BY <1>3, HandleKnown
<1>4. CASE Answer
  <2>1. /\ answer' = "answered" /\ data' = dashboard
        /\ UNCHANGED <<happening, readings, dashboard, wire, past>>
    BY <1>4 DEF Answer, serverVars
  <2>2. Behind(dashboard, dashboard)
    BY BehindIs DEF CellsKnown, ServerCells, Behind
  <2>. QED  BY <2>1, <2>2 DEF CellsKnown
<1>5. CASE Load
  <2>1. /\ answer = "answered" /\ answer' = "loaded" /\ view' = DataInit(data)
        /\ UNCHANGED <<happening, readings, dashboard, wire, past>>
    BY <1>5 DEF Load, serverVars
  <2>2. Behind(data, dashboard) /\ data \in DashboardState
    BY <2>1 DEF CellsKnown, TypeInv
  <2>3. /\ AllVisitsOK(DataInit(data))
        /\ \A c \in Place : \A p : CellAt(DataInit(data), c, p) = CellAt(data, c, p)
    BY <2>2, LoadedCells DEF Behind, CellAt
  <2>4. Behind(DataInit(data), dashboard)
    BY <2>2, <2>3 DEF Behind
  <2>. QED  BY <2>1, <2>4 DEF CellsKnown
<1>6. CASE Fail
  <2>1. answer' = "failed" /\ UNCHANGED <<happening, readings, dashboard, wire, past>>
    BY <1>6 DEF Fail, serverVars
  <2>. QED  BY <2>1 DEF CellsKnown
<1>7. CASE Connect
  BY <1>7 DEF Connect, CellsKnown, serverVars
<1>8. CASE Disconnect
  <2>1. /\ wire' = <<>> /\ past' \subseteq past \cup {"missed"}
        /\ UNCHANGED <<happening, readings, dashboard, answer, data, view>>
    BY <1>8 DEF Disconnect, serverVars
  <2>2. WireKnown(dashboard, <<>>)
    BY DEF WireKnown, HasRow
  <2>. QED  BY <2>1, <2>2 DEF CellsKnown
<1>9. CASE Deliver
  BY <1>9, DeliverKnown
<1>10. CASE UNCHANGED vars \/ Gives
  BY <1>1, <1>10 DEF vars, Gives
<1>11. CASE Acknowledges
  <2>1. PICK c \in AnyCommand : c.at # 0 /\ wire' = Append(wire, AckOf(c))
    BY <1>11 DEF Acknowledges
  <2>. DEFINE a == AckOf(c)
              u == <<a>>
  <2>2. a \in ServerEvent /\ a.name = "ack" /\ a.time # 0
    BY <2>1, AckIs DEF AckOf
  <2>. HIDE DEF a
  <2>3. u \in Seq(ServerEvent) /\ wire \in Seq(ServerEvent) /\ wire' = wire \o u
    BY <2>1, <2>2 DEF TypeInv, a
  <2>4. \A e : HasRow(u, e) => e = a
    BY DEF HasRow
  <2>5. Plain(a) /\ \A y : KnownAs(a, y)
    BY <2>2 DEF Plain, KnownAs, InertName
  <2>. HIDE DEF u
  <2>6. \A e : HasRow(wire', e) <=> HasRow(wire, e) \/ HasRow(u, e)
    BY <2>3, HasRowConcat
  <2>7. WireKnown(dashboard, wire')
    BY <2>4, <2>5, <2>6 DEF CellsKnown, WireKnown
  <2>. QED  BY <1>11, <2>7 DEF Acknowledges, CellsKnown, serverVars
<1>12. CASE HearsAck
  <2>1. /\ wire # <<>> /\ wire' = Tail(wire) /\ wire \in Seq(ServerEvent)
        /\ UNCHANGED <<happening, readings, dashboard, answer, data, view, past>>
    BY <1>12 DEF HearsAck, serverVars, TypeInv
  <2>2. \A i \in 1 .. Len(Tail(wire)) : i + 1 \in 1 .. Len(wire) /\ Tail(wire)[i] = wire[i + 1]
    BY <2>1
  <2>3. \A f : HasRow(Tail(wire), f) => HasRow(wire, f)
    BY <2>2 DEF HasRow
  <2>. QED  BY <2>1, <2>3 DEF CellsKnown, WireKnown
<1>. QED  BY <1>2, <1>3, <1>4, <1>5, <1>6, <1>7, <1>8, <1>9, <1>10, <1>11, <1>12 DEF Next

\* Acknowledgements are nothing to the page.
LEMMA ScanPageKept ==
    ASSUME IInv, PageInv, [Next]_vars \/ Gives \/ Acknowledges \/ HearsAck
    PROVE  PageInv'
<1>1. TypeInv
  BY DEF IInv
<1>2. CASE Gives
  BY <1>2 DEF Gives, PageInv, Clean, LinkInv, Hears, serverVars, pageVars
<1>3. CASE Acknowledges
  <2>1. PICK c \in AnyCommand : c.at # 0 /\ wire' = Append(wire, AckOf(c))
    BY <1>3 DEF Acknowledges
  <2>2. /\ link = "up"
        /\ UNCHANGED <<happening, readings, dashboard, link, answer, data, view, topic, past>>
    BY <1>3 DEF Acknowledges, serverVars
  <2>. DEFINE a == AckOf(c)
              u == <<a>>
              D == dashboard
  <2>3. a \in ServerEvent /\ a.name = "ack" /\ a.time # 0 /\ ~IsApplied(a)
    BY <2>1, AckIs DEF AckOf
  <2>. HIDE DEF a
  <2>4. u \in Seq(ServerEvent) /\ wire \in Seq(ServerEvent) /\ wire' = wire \o u
    BY <1>1, <2>1, <2>3 DEF TypeInv, a
  <2>5. \A e : HasRow(u, e) => e = a
    BY DEF HasRow
  <2>6. Sound(a) /\ SoundRows(u)
    BY <2>3, <2>5 DEF Sound, SoundRows
  <2>7. \A z, d, p : Leads(z, z, u, d, p)
    <3>1. \A z, d, p : CellStep(z, a, d, p) = z
      BY <2>3 DEF CellStep, CellAfter
    <3>. QED  BY <3>1, LeadsOnce
  <2>. HIDE DEF u
  <2>. SUFFICES ASSUME Clean PROVE SoundRows(wire') /\ Hears(dashboard, wire)'
    BY <2>2 DEF PageInv, Clean, LinkInv
  <2>8. ServerCells(happening, readings, D) /\ SoundRows(wire) /\ Hears(D, wire) /\ D \in DashboardState
    BY <1>1 DEF PageInv, TypeInv
  <2>9. SoundRows(wire')
    BY <2>4, <2>6, <2>8, SoundConcat
  <2>10. CommandDone(happening, readings, D, D, u)
    BY <2>7, <2>8 DEF CommandDone, Follows
  <2>. HIDE DEF D
  <2>11. /\ Waits(D, wire) => Waits(D, wire \o u)
         /\ \A V : Agrees(V, D, wire) => Agrees(V, D, wire \o u)
    BY <2>4, <2>8, <2>10, AgreesOn, WaitsOn
  <2>. QED  BY <2>2, <2>4, <2>8, <2>9, <2>11 DEF Hears, D
<1>4. CASE HearsAck
  <2>1. /\ wire # <<>> /\ Head(wire).name = "ack" /\ wire' = Tail(wire)
        /\ UNCHANGED <<happening, readings, dashboard, link, answer, data, view, topic, past>>
        /\ wire \in Seq(ServerEvent) /\ dashboard \in DashboardState
    BY <1>1, <1>4 DEF HearsAck, serverVars, TypeInv
  <2>. SUFFICES ASSUME Clean PROVE SoundRows(wire') /\ LinkInv' /\ Hears(dashboard, wire)'
    BY <2>1 DEF PageInv, Clean
  <2>2. SoundRows(wire) /\ LinkInv /\ Hears(dashboard, wire)
    BY DEF PageInv
  <2>3. LinkInv'
    BY <2>1, <2>2 DEF LinkInv
  <2>4. HasRow(wire, Head(wire)) /\ \A f : HasRow(Tail(wire), f) => HasRow(wire, f)
    <3>1. 1 \in 1 .. Len(wire) /\ wire[1] = Head(wire)
      BY <2>1
    <3>2. \A i \in 1 .. Len(Tail(wire)) : i + 1 \in 1 .. Len(wire) /\ Tail(wire)[i] = wire[i + 1]
      BY <2>1
    <3>. QED  BY <3>1, <3>2 DEF HasRow
  <2>5. SoundRows(wire') /\ Sound(Head(wire))
    BY <2>1, <2>2, <2>4 DEF SoundRows
  <2>6. ~IsApplied(Head(wire))
    BY <2>1 DEF IsApplied, ScanType, RemovedType
  <2>7. /\ Waits(dashboard, wire) => Waits(dashboard, Tail(wire))
        /\ \A V : Agrees(V, dashboard, wire) => Agrees(V, dashboard, Tail(wire))
    BY <2>1, <2>5, <2>6, InertGone
  <2>8. Hears(dashboard, wire)'
    BY <2>1, <2>2, <2>7 DEF Hears
  <2>. QED  BY <2>3, <2>5, <2>8
<1>. QED  BY <1>2, <1>3, <1>4, NextPage

-----------------------------------------------------------------------------
(* Where a person is scanned next.                                         *)

\* What the report tells of a person is told by their cells.
LEMMA InferredIs ==
    ASSUME NEW V, AllVisitsOK(V), NEW p
    PROVE  /\ \A c : c \in VisitedPlaces(V, p) <=> c \in Place /\ ~IsBlank(CellAt(V, c, p))
           /\ CanInfer(V, p) =>
                 LET c == LastVisited(V, p)
                 IN  /\ c \in Place /\ c \in Nat /\ c # 0 /\ ~IsBlank(CellAt(V, c, p))
                     /\ \A d \in Place : ~IsBlank(CellAt(V, d, p)) => d <= c
                     /\ CellAt(V, c, p).out = 0 => InferredPlace(V, p) = c
                     /\ CellAt(V, c, p).out # 0 =>
                           InferredPlace(V, p) = IF HasNext(c) THEN c + 1 ELSE NoPlace
<1>1. \A c : c \in VisitedPlaces(V, p) <=> c \in Place /\ ~IsBlank(CellAt(V, c, p))
  BY PresentIs DEF VisitedPlaces, AllVisitsOK, CellAt
<1>2. ASSUME CanInfer(V, p)
      PROVE  LET c == LastVisited(V, p)
             IN  /\ c \in Place /\ c \in Nat /\ c # 0 /\ ~IsBlank(CellAt(V, c, p))
                 /\ \A d \in Place : ~IsBlank(CellAt(V, d, p)) => d <= c
                 /\ CellAt(V, c, p).out = 0 => InferredPlace(V, p) = c
                 /\ CellAt(V, c, p).out # 0 =>
                       InferredPlace(V, p) = IF HasNext(c) THEN c + 1 ELSE NoPlace
  <2>. DEFINE c == LastVisited(V, p)
              v == TheVisit(V.visits[c], p)
  <2>1. PICK n \in Nat : Place = 1 .. n
    BY TypeOfAssumption DEF Place
  <2>2. c \in VisitedPlaces(V, p) /\ \A d \in VisitedPlaces(V, p) : d <= c
    BY <1>2, <2>1, LastIs
  <2>3. c \in Place /\ ~IsBlank(CellAt(V, c, p)) /\ HasVisit(V.visits[c], p)
    BY <1>1, <2>2 DEF VisitedPlaces
  <2>4. c \in Nat /\ c # 0
    BY <2>1, <2>3
  <2>5. \A d \in Place : ~IsBlank(CellAt(V, d, p)) => d <= c
    BY <1>1, <2>2
  <2>6. InferredPlace(V, p) =
          CASE ~IsTime(v.out) -> c
            [] IsTime(v.out) /\ HasNext(c) -> c + 1
            [] OTHER -> NoPlace
    BY DEF InferredPlace
  <2>. HIDE DEF c
  <2>7. v \in V.visits[c]
    BY <2>3, TheVisitIs
  <2>8. CellAt(V, c, p).out = v.out
    BY <2>3 DEF CellAt, Cell, CellOf
  <2>9. v.out \in Nat
    BY <2>3, <2>7 DEF AllVisitsOK, VisitsOK
  <2>. HIDE DEF v
  <2>10. IsTime(v.out) <=> v.out # 0
    BY <2>9 DEF IsTime
  <2>11. /\ v.out = 0 => InferredPlace(V, p) = c
         /\ v.out # 0 => InferredPlace(V, p) = IF HasNext(c) THEN c + 1 ELSE NoPlace
    BY <2>6, <2>10
  <2>. QED  BY <2>3, <2>4, <2>5, <2>8, <2>11 DEF c
<1>. QED  BY <1>1, <1>2

\* Where the cells are the same, so is the checkpoint.
LEMMA SamePlace ==
    ASSUME NEW V, NEW W, AllVisitsOK(V), AllVisitsOK(W), NEW p,
           \A c \in Place : CellAt(V, c, p) = CellAt(W, c, p)
    PROVE  /\ CanInfer(V, p) = CanInfer(W, p)
           /\ CanInfer(W, p) => InferredPlace(V, p) = InferredPlace(W, p)
<1>1. VisitedPlaces(V, p) = VisitedPlaces(W, p)
  <2>1. \A c : c \in VisitedPlaces(V, p) <=> c \in Place /\ ~IsBlank(CellAt(V, c, p))
    BY InferredIs
  <2>2. \A c : c \in VisitedPlaces(W, p) <=> c \in Place /\ ~IsBlank(CellAt(W, c, p))
    BY InferredIs
  <2>3. \A c : c \in VisitedPlaces(V, p) <=> c \in VisitedPlaces(W, p)
    BY <2>1, <2>2
  <2>4. VisitedPlaces(V, p) \subseteq Place /\ VisitedPlaces(W, p) \subseteq Place
    BY <2>1, <2>2
  <2>. QED  BY ONLY <2>3, <2>4
<1>2. CanInfer(V, p) = CanInfer(W, p) /\ LastVisited(V, p) = LastVisited(W, p)
  BY <1>1 DEF CanInfer, LastVisited
<1>. DEFINE c == LastVisited(W, p)
<1>3. ASSUME CanInfer(W, p) PROVE InferredPlace(V, p) = InferredPlace(W, p)
  <2>1. CanInfer(V, p) /\ c = LastVisited(V, p)
    BY <1>2, <1>3
  <2>2. /\ c \in Place
        /\ CellAt(W, c, p).out = 0 => InferredPlace(W, p) = c
        /\ CellAt(W, c, p).out # 0 =>
              InferredPlace(W, p) = IF HasNext(c) THEN c + 1 ELSE NoPlace
    BY <1>3, InferredIs
  <2>. HIDE DEF c
  <2>3. /\ CellAt(V, c, p).out = 0 => InferredPlace(V, p) = c
        /\ CellAt(V, c, p).out # 0 =>
              InferredPlace(V, p) = IF HasNext(c) THEN c + 1 ELSE NoPlace
    BY <2>1, InferredIs
  <2>. QED  BY <2>2, <2>3
<1>. QED  BY <1>2, <1>3

\* Where no cell is ahead, the checkpoint is not.
LEMMA PlaceBehind ==
    ASSUME NEW V, NEW W, Behind(V, W), AllVisitsOK(W), NEW p, CanInfer(V, p)
    PROVE  /\ CanInfer(W, p)
           /\ \/ InferredPlace(W, p) = NoPlace
              \/ InferredPlace(V, p) # NoPlace /\ InferredPlace(V, p) <= InferredPlace(W, p)
<1>. DEFINE a == LastVisited(V, p)
            b == LastVisited(W, p)
            x == CellAt(V, a, p)
            y == CellAt(W, b, p)
            i == InferredPlace(V, p)
            j == InferredPlace(W, p)
<1>1. AllVisitsOK(V) /\ \A c \in Place : BehindCell(CellAt(V, c, p), CellAt(W, c, p))
  BY DEF Behind
<1>2. /\ a \in Place /\ a \in Nat /\ a # 0 /\ ~IsBlank(x)
      /\ x.out = 0 => i = a
      /\ x.out # 0 => i = IF HasNext(a) THEN a + 1 ELSE NoPlace
  BY <1>1, InferredIs
<1>. HIDE DEF a
<1>3. ~IsBlank(CellAt(W, a, p)) /\ (x.out # 0 => CellAt(W, a, p).out # 0)
  BY <1>1, <1>2 DEF BehindCell
<1>4. a \in VisitedPlaces(W, p)
  BY <1>2, <1>3, InferredIs
<1>5. CanInfer(W, p)
  BY <1>4 DEF CanInfer
<1>6. /\ b \in Place /\ b \in Nat /\ b # 0
      /\ \A d \in Place : ~IsBlank(CellAt(W, d, p)) => d <= b
      /\ y.out = 0 => j = b
      /\ y.out # 0 => j = IF HasNext(b) THEN b + 1 ELSE NoPlace
  BY <1>5, InferredIs
<1>. HIDE DEF b
<1>7. a <= b
  BY <1>2, <1>3, <1>6
<1>8. PICK n \in Nat : Place = 1 .. n
  BY TypeOfAssumption DEF Place
<1>9. a = b => (x.out # 0 => y.out # 0)
  BY <1>3
<1>. HIDE DEF x, y, i, j
<1>10. CASE a = b
  <2>1. (x.out # 0 /\ y.out # 0) => i = j
    BY ONLY <1>2, <1>6, <1>10
  <2>2. x.out = 0 => i = a /\ i # 0
    BY ONLY <1>2
  <2>3. (x.out = 0 /\ y.out = 0) => i = j
    BY ONLY <1>2, <1>6, <1>10
  <2>4. y.out # 0 => j = NoPlace \/ j = b + 1
    BY ONLY <1>6
  <2>5. i \in Nat \/ i = NoPlace
    BY ONLY <1>2 DEF NoPlace
  <2>6. i = j \/ (i = a /\ i # 0 /\ (j = NoPlace \/ j = b + 1))
    BY ONLY <2>1, <2>2, <2>3, <2>4, <1>9, <1>10
  <2>7. j = NoPlace \/ (i # NoPlace /\ i <= j)
    <3>1. CASE i = j
      <4>1. i = NoPlace \/ i <= j
        BY ONLY <2>5, <3>1
      <4>. QED  BY ONLY <3>1, <4>1
    <3>2. CASE i = a /\ i # 0 /\ (j = NoPlace \/ j = b + 1)
      BY <1>2, <1>10, <3>2 DEF NoPlace
    <3>. QED  BY ONLY <2>6, <3>1, <3>2
  <2>. QED  BY <1>5, <2>7 DEF i, j
<1>11. CASE a < b
  <2>1. a + 1 <= b /\ a + 1 \in Place
    BY ONLY <1>2, <1>6, <1>8, <1>11
  <2>10. HasNext(a)
    BY ONLY <2>1 DEF HasNext
  <2>2. i \in Nat /\ i # 0 /\ i <= b
    <3>1. i = a \/ i = a + 1
      BY ONLY <1>2, <2>10
    <3>. HIDE DEF a, b, i
    <3>. QED  BY ONLY <1>2, <1>6, <1>11, <2>1, <3>1
  <2>3. j = NoPlace \/ (j \in Nat /\ b <= j)
    BY <1>6
  <2>. QED  BY <1>5, <1>6, <2>2, <2>3 DEF NoPlace, i, j
<1>. QED  BY <1>2, <1>5, <1>6, <1>7, <1>10, <1>11 DEF i, j

\* The inductive invariant of a page where everybody scans and does nothing else.
ScansInv == ScanInv /\ ScansSent /\ CellsKnown /\ PageInv

\* It holds in every state.
LEMMA ScansInvariant == ASSUME ScansOnly PROVE ScanSpec => []ScansInv
<1>1. ScanInit => ScansSent /\ CellsKnown /\ PageInv
  <2>. SUFFICES ASSUME ScanInit PROVE ScansSent /\ CellsKnown /\ PageInv
    OBVIOUS
  <2>1. Init /\ PageInv
    BY InitPage DEF ScanInit
  <2>2. past = {} /\ sent = {} /\ wire = <<>> /\ answer = "asked"
    BY <2>1 DEF Init
  <2>3. ServerCells(happening, readings, dashboard)
    BY <2>1, <2>2 DEF PageInv, Clean
  <2>4. WireKnown(dashboard, wire)
    BY <2>2 DEF WireKnown, HasRow
  <2>. QED  BY <2>1, <2>2, <2>3, <2>4 DEF ScansSent, CellsKnown
<1>2. ScanInv /\ ScanInv' /\ ScansSent /\ CellsKnown /\ PageInv /\ [ScanNext]_allVars
        => ScansSent' /\ CellsKnown' /\ PageInv'
  <2>. SUFFICES ASSUME ScanInv, ScanInv', ScansSent, CellsKnown, PageInv, [ScanNext]_allVars
                PROVE  ScansSent' /\ CellsKnown' /\ PageInv'
    OBVIOUS
  <2>1. IInv /\ TypeInv /\ TypeInv' /\ ScanTypes
    BY DEF ScanInv, IInv
  <2>2. [Next]_vars \/ Gives \/ Acknowledges \/ HearsAck
    BY <2>1, ScanStep
  <2>3. ScansSent'
    BY NextSent
  <2>4. CellsKnown'
    BY <2>1, <2>2, NextKnown
  <2>5. PageInv'
    BY <2>1, <2>2, ScanPageKept
  <2>. QED  BY <2>3, <2>4, <2>5
<1>. QED  BY <1>1, <1>2, ScanInvariant, PTL DEF ScanSpec, ScansInv

\* What a reload would show has the dashboard's cells.
LEMMA ReloadCells ==
    ASSUME TypeInv, CellsKnown
    PROVE  /\ AllVisitsOK(DataInit(dashboard))
           /\ \A c \in Place : \A p : CellAt(DataInit(dashboard), c, p) = CellAt(dashboard, c, p)
<1>1. dashboard \in DashboardState /\ AllVisitsOK(dashboard)
  BY DEF TypeInv, CellsKnown, ServerCells
<1>. QED  BY <1>1, LoadedCells DEF CellAt

\* As long as the other pages do nothing but scan, no page sends a reading to a checkpoint ahead
\* of where the server has the person: whatever it has missed, and whether it still hears of
\* events or not.
THEOREM NeverAheadHolds == ASSUME ScansOnly PROVE ScanSpec => []NeverAhead
<1>1. ASSUME ScansInv PROVE NeverAhead
  <2>. SUFFICES ASSUME NEW p \in Person, answer = "loaded", CanInfer(view, p)
                PROVE  LET V == DataInit(dashboard)
                       IN  /\ CanInfer(V, p)
                           /\ \/ InferredPlace(V, p) = NoPlace
                              \/ /\ InferredPlace(view, p) # NoPlace
                                 /\ InferredPlace(view, p) <= InferredPlace(V, p)
    BY DEF NeverAhead
  <2>1. TypeInv /\ CellsKnown
    BY <1>1 DEF ScansInv, ScanInv, IInv
  <2>. DEFINE V == DataInit(dashboard)
  <2>2. AllVisitsOK(V) /\ \A c \in Place : \A q : CellAt(V, c, q) = CellAt(dashboard, c, q)
    BY <2>1, ReloadCells
  <2>. HIDE DEF V
  <2>3. Behind(view, V)
    BY <2>1, <2>2 DEF CellsKnown, Behind
  <2>. QED  BY <2>2, <2>3, PlaceBehind DEF V
<1>2. ScansInv => NeverAhead
  BY <1>1
<1>. QED  BY <1>2, ScansInvariant, PTL

\* As long as the other pages do nothing but scan, a page that has caught up tells the checkpoint
\* as the server's dashboard would.
THEOREM SamePlaceHolds == ASSUME ScansOnly PROVE ScanSpec => []SamePlaceWhenCaughtUp
<1>1. ASSUME ScansInv PROVE SamePlaceWhenCaughtUp
  <2>. SUFFICES ASSUME CaughtUp, NEW p \in Person
                PROVE  LET V == DataInit(dashboard)
                       IN  /\ CanInfer(view, p) = CanInfer(V, p)
                           /\ CanInfer(V, p) => InferredPlace(view, p) = InferredPlace(V, p)
    BY DEF SamePlaceWhenCaughtUp
  <2>1. TypeInv /\ CellsKnown /\ PageInv
    BY <1>1 DEF ScansInv, ScanInv, IInv
  <2>2. answer = "loaded" /\ topic = "live" /\ wire = <<>> /\ Clean
    BY <2>1 DEF CaughtUp, Clean, Excluded, CellsKnown
  <2>3. Agrees(view, dashboard, wire)
    BY <2>1, <2>2 DEF PageInv, Hears
  <2>. DEFINE V == DataInit(dashboard)
  <2>4. AllVisitsOK(V) /\ \A c \in Place : \A q : CellAt(V, c, q) = CellAt(dashboard, c, q)
    BY <2>1, ReloadCells
  <2>. HIDE DEF V
  <2>5. AllVisitsOK(view) /\ \A c \in Place : CellAt(view, c, p) = CellAt(V, c, p)
    BY <2>2, <2>3, <2>4, LeadsNowhere DEF Agrees
  <2>. QED  BY <2>4, <2>5, SamePlace DEF V
<1>2. ScansInv => SamePlaceWhenCaughtUp
  BY <1>1
<1>. QED  BY <1>2, ScansInvariant, PTL

=============================================================================
