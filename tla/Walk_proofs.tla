----------------------------- MODULE Walk_proofs -----------------------------
(***************************************************************************)
(* The invariants of Walk, for every set of walkers, of checkpoints and of *)
(* bounds.                                                                 *)
(***************************************************************************)
EXTENDS Walk, Checkpoint_proofs, FiniteSetTheorems

\* The rows of the happening, and the commands that are given up to time n.
HappeningRowType ==
    {"AttendeeStarted", "AttendeeCompleted", "AttendeeQuit", "AttendeeQuitRemoved"}

HappeningRow == [type : HappeningRowType, person : Person, at : Nat]

CommandKind == {"StartScan", "Scan", "RemoveScan", "Quit", "RemoveQuit"}

CommandsUpTo(n) ==
    {c \in [kind : CommandKind, place : Place \cup {"anywhere"}, person : Person,
            at : 1 .. n, time : 1 .. n] :
        [kind |-> c.kind, place |-> c.place] \in Order}

RequestsUpTo(n) ==
    [command : CommandsUpTo(n), step : Step,
     given : SUBSET HappeningRow, state : State(Person)]

\* Types; a command that goes on after the validation is one of a checkpoint,
\* and only a scan at a finish completes a walk.
Typed ==
    /\ now \in 0 .. MaxCommands
    /\ sent \in SUBSET CommandsUpTo(now)
    /\ requests \in SUBSET RequestsUpTo(now)
    /\ happening \in SUBSET HappeningRow
    /\ scans \in [Place -> SortedRows(Person)]
    /\ overlapped \in BOOLEAN
    /\ failures \in 0 .. MaxFailures
    /\ \A r \in requests : r.command \notin sent
    /\ \A q, r \in requests : q.command = r.command => q = r
    /\ \A r \in requests : r.step # "validating" => r.command.kind \notin {"Quit", "RemoveQuit"}
    /\ \A r \in requests : r.step = "completed" =>
          r.command.kind = "Scan" /\ r.command.place \in At("Finish")

\* The person of r has a reading in what r has read of its checkpoint.
HasRead(r) ==
    IsRead(r.state.in, r.command.person) \/ IsRead(r.state.out, r.command.person)

\* What the invocation r has seen of the start of a walk is so in rows.
Begun(r, rows) ==
    /\ r.given \subseteq rows
    /\ r.step \in {"validated", "recording"} /\ r.command.kind = "Scan"
          => r.command.person \in Started(rows)
    /\ r.step = "recording" /\ r.command.place \notin At("Start") /\ HasRead(r)
          => r.command.person \in Started(rows)

KnownStarted == ScannedAfterStart /\ \A r \in requests : Begun(r, happening)

\* Alone, an invocation validates what is, and what it validated stays so.
KnownQuit ==
    ~overlapped =>
        /\ Quitters(happening) \cap Completed(happening) = {}
        /\ \A q, r \in requests : q = r
        /\ \A r \in requests : r.step = "validating" => r.given = happening
        /\ \A r \in requests :
              r.step \in {"validated", "recording", "completed"} /\ r.command.kind = "Scan"
                 => r.command.person \notin Quitters(happening)

\* Those who have completed, or of whom an invocation is about to say so.
Completing ==
    Completed(happening)
      \cup {r.command.person : r \in {q \in requests : q.step = "completed"}}

\* Every reading at a finish, recorded or read, is followed by a completion.
KnownFinished ==
    failures = 0 =>
        /\ \A cp \in At("Finish") : \A i \in DOMAIN scans[cp] :
              AddsIn(scans[cp][i]) \/ AddsOut(scans[cp][i]) => scans[cp][i].person \in Completing
        /\ \A r \in requests :
              r.step = "recording" /\ r.command.place \in At("Finish") /\ HasRead(r)
                 => r.command.person \in Completing

\* The row of a scan in at a finish.
ScannedIn(p) ==
    \E cp \in At("Finish") : \E i \in DOMAIN scans[cp] :
        scans[cp][i].type = "AttendeeScanIn" /\ scans[cp][i].person = p

\* Alone and unbroken, an invocation finds a finish where nothing has been
\* taken back, and nobody scanned twice.
KnownAtFinish ==
    ~overlapped /\ failures = 0 =>
        /\ \A cp \in At("Finish") : \A i \in DOMAIN scans[cp] :
              scans[cp][i].type = "AttendeeScanIn"
        /\ \A p \in Completed(happening) : ScannedIn(p)
        /\ \A r \in requests : r.step = "completed" => ScannedIn(r.command.person)
        /\ \A r \in requests :
              r.step \in {"validated", "recording"} /\ r.command.kind \in {"Scan", "RemoveScan"}
                 => r.command.person \notin Completed(happening)

IInv == Typed /\ KnownStarted /\ KnownQuit /\ KnownFinished /\ KnownAtFinish
-----------------------------------------------------------------------------
(* Types.                                                                  *)

\* What is known of the members of requests, and of the sets of commands.
LEMMA RequestFacts ==
    ASSUME NEW n \in Nat, NEW r \in RequestsUpTo(n)
    PROVE  /\ r.command \in CommandsUpTo(n)
           /\ r.step \in Step
           /\ r.given \in SUBSET HappeningRow
           /\ r.state \in State(Person)
           /\ r.command.person \in Person
           /\ r.command.at \in 1 .. n /\ r.command.time \in 1 .. n
           /\ r.command.kind \in CommandKind
           /\ IsInfo(r.command, Person)
           /\ r.command.kind = "StartScan" => r.command.place \in At("Start")
           /\ r.command.kind = "Scan" => r.command.place \in Place \ At("Start")
           /\ r.command.kind = "RemoveScan" => r.command.place \in Place
<1>. DEFINE c == r.command
<1>1. /\ r.command \in CommandsUpTo(n)
      /\ r.step \in Step
      /\ r.given \in SUBSET HappeningRow
      /\ r.state \in State(Person)
  BY DEF RequestsUpTo
<1>2. /\ c.person \in Person
      /\ c.at \in 1 .. n /\ c.time \in 1 .. n
      /\ c.kind \in CommandKind
      /\ [kind |-> c.kind, place |-> c.place] \in Order
  <2>1. c \in CommandsUpTo(n)
    BY <1>1
  <2>. HIDE DEF c
  <2>. QED  BY <2>1 DEF CommandsUpTo
<1>3. IsInfo(c, Person)
  <2>. HIDE DEF c
  <2>. QED  BY <1>2 DEF IsInfo
<1>4. /\ c.kind = "StartScan" => c.place \in At("Start")
      /\ c.kind = "Scan" => c.place \in Place \ At("Start")
      /\ c.kind = "RemoveScan" => c.place \in Place
  <2>. HIDE DEF c
  <2>. QED  BY <1>2 DEF Order
<1>. QED  BY <1>1, <1>2, <1>3, <1>4

\* The commands, and the invocations, of an earlier time are of a later one.
LEMMA UpToGrows ==
    ASSUME NEW m \in Nat, NEW n \in Nat, m <= n
    PROVE  /\ CommandsUpTo(m) \subseteq CommandsUpTo(n)
           /\ RequestsUpTo(m) \subseteq RequestsUpTo(n)
<1>1. CommandsUpTo(m) \subseteq CommandsUpTo(n)
  <2>1. 1 .. m \subseteq 1 .. n
    OBVIOUS
  <2>. QED  BY <2>1 DEF CommandsUpTo
<1>2. RequestsUpTo(m) \subseteq RequestsUpTo(n)
  BY <1>1 DEF RequestsUpTo
<1>. QED  BY <1>1, <1>2

\* The types, at first.
LEMMA TypedInit == Init => Typed
<1>. SUFFICES ASSUME Init PROVE Typed
  OBVIOUS
<1>. USE DEF Init
<1>1. Cardinality(Person) \in Nat
  BY PersonAssumption, FS_CardinalityType
<1>0. PICK n \in 0 .. Cardinality(Person) : \E early \in [1 .. n -> Person] :
         /\ happening = {Row("AttendeeStarted", early[i], 0) : i \in 1 .. n}
         /\ scans = [cp \in Place |->
                       IF TypeOf[cp] = "Start" THEN [i \in 1 .. n |-> StartRow(early[i])]
                                               ELSE <<>>]
  OBVIOUS
<1>2. PICK early \in [1 .. n -> Person] :
         /\ happening = {Row("AttendeeStarted", early[i], 0) : i \in 1 .. n}
         /\ scans = [cp \in Place |->
                       IF TypeOf[cp] = "Start" THEN [i \in 1 .. n |-> StartRow(early[i])]
                                               ELSE <<>>]
  BY <1>0
<1>3. n \in Nat
  BY <1>1
<1>4. happening \in SUBSET HappeningRow
  BY <1>2, <1>3 DEF HappeningRow, HappeningRowType, Row
<1>5. \A i \in 1 .. n : StartRow(early[i]) \in EventRow(Person) /\ StartRow(early[i]).at = 0
  BY <1>2 DEF StartRow, EventRow, EventType
<1>. DEFINE rows == [i \in 1 .. n |-> StartRow(early[i])]
<1>6. rows \in SortedRows(Person)
  <2>1. rows \in Seq(EventRow(Person)) /\ Len(rows) = n
    BY <1>3, <1>5
  <2>2. \A i \in 1 .. n : rows[i].at = 0
    BY <1>5
  <2>. HIDE DEF rows
  <2>. QED  BY <2>1, <2>2 DEF SortedRows, Sorted
<1>7. <<>> \in SortedRows(Person)
  <2>1. <<>> \in Seq(EventRow(Person)) /\ Len(<<>>) = 0
    OBVIOUS
  <2>. QED  BY <2>1 DEF SortedRows, Sorted
<1>8. scans \in [Place -> SortedRows(Person)]
  <2>. DEFINE none == <<>>
  <2>1. scans = [cp \in Place |-> IF TypeOf[cp] = "Start" THEN rows ELSE none]
    BY <1>2
  <2>2. none \in SortedRows(Person)
    BY <1>7
  <2>. HIDE DEF rows, none
  <2>. QED  BY <1>6, <2>1, <2>2
<1>9. now \in 0 .. MaxCommands /\ failures \in 0 .. MaxFailures
  BY BoundsAssumption
<1>. QED  BY <1>4, <1>8, <1>9 DEF Typed

\* What an invocation records are rows of its command's person.
LEMMA OperationRows ==
    ASSUME NEW n \in Nat, NEW r \in RequestsUpTo(n), r.command.kind \notin {"Quit", "RemoveQuit"}
    PROVE  /\ r.command.place \in Place
           /\ Operation(r) \in Seq(EventRow(Person))
           /\ \A f : HasRow(Operation(r), f) => f.person = r.command.person
<1>. DEFINE type == TypeOf[r.command.place]
            c == r.command
<1>1. r.command.place \in Place /\ IsInfo(c, Person)
  <2>1. r.command.kind \in {"StartScan", "Scan", "RemoveScan"}
    BY RequestFacts DEF CommandKind
  <2>. QED  BY <2>1, RequestFacts DEF At
<1>2. \A t : Event(t, c).person = r.command.person
  BY DEF Event
<1>. HIDE DEF type, c
<1>3. CASE r.command.kind = "RemoveScan"
  <2>1. Operation(r) = RemoveScan(type, r.state, c)
    BY <1>3 DEF Operation, type, c
  <2>. QED  BY <1>1, <1>2, <2>1, RemoveScanRows
<1>4. CASE r.command.kind # "RemoveScan"
  <2>1. Operation(r) = AddScan(type, r.state, c)
    BY <1>4 DEF Operation, type, c
  <2>. QED  BY <1>1, <1>2, <2>1, AddScanRows
<1>. QED  BY <1>3, <1>4

\* The part of Typed that is about R, a set of invocations.
TypedRequests(R) ==
    /\ R \in SUBSET RequestsUpTo(now)
    /\ \A r \in R : r.command \notin sent
    /\ \A q, r \in R : q.command = r.command => q = r
    /\ \A r \in R : r.step # "validating" => r.command.kind \notin {"Quit", "RemoveQuit"}
    /\ \A r \in R : r.step = "completed" =>
          r.command.kind = "Scan" /\ r.command.place \in At("Finish")

\* An invocation ends.
LEMMA TypedEnd ==
    ASSUME Typed, NEW r \in requests
    PROVE  TypedRequests(requests \ {r})
BY DEF Typed, TypedRequests

\* An invocation goes on to its next step, as q.
LEMMA TypedProceed ==
    ASSUME Typed, NEW r \in requests, NEW q \in RequestsUpTo(now),
           q.command = r.command, r.command.kind \notin {"Quit", "RemoveQuit"},
           q.step = "completed" => r.command.kind = "Scan" /\ r.command.place \in At("Finish")
    PROVE  TypedRequests((requests \ {r}) \cup {q})
BY DEF Typed, TypedRequests

\* What Proceed makes of an invocation.
LEMMA ProceedFacts ==
    ASSUME Typed, NEW r \in requests, NEW step \in Step
    PROVE  LET q == [r EXCEPT !.step = step, !.given = {}, !.state = Blank]
           IN  /\ q \in RequestsUpTo(now)
               /\ q.command = r.command /\ q.step = step /\ q.given = {} /\ q.state = Blank
<1>1. Blank \in State(Person)
  BY DEF Blank, State
<1>2. r \in RequestsUpTo(now)
  BY DEF Typed
<1>. QED  BY <1>1, <1>2 DEF RequestsUpTo

\* The types, when a command is given.
LEMMA TypedGiveCommand ==
    ASSUME Typed, NEW order \in Order, NEW p \in Person, GiveCommand(order, p)
    PROVE  Typed'
<1>. DEFINE c == [kind |-> order.kind, place |-> order.place,
                  person |-> p, at |-> now', time |-> now']
<1>1. now \in Nat /\ now' = now + 1 /\ now' \in 0 .. MaxCommands /\ now' \in Nat
  BY BoundsAssumption DEF Typed, GiveCommand
<1>2. c \in CommandsUpTo(now')
  <2>1. /\ order = [kind |-> order.kind, place |-> order.place]
        /\ order.kind \in CommandKind /\ order.place \in Place \cup {"anywhere"}
    BY DEF Order, CommandKind, At
  <2>2. now' \in 1 .. now'
    BY <1>1
  <2>. QED  BY <2>1, <2>2 DEF CommandsUpTo
<1>3. sent' = sent \cup {c}
  BY DEF GiveCommand
<1>4. CommandsUpTo(now) \subseteq CommandsUpTo(now') /\ RequestsUpTo(now) \subseteq RequestsUpTo(now')
  <2>1. now <= now'
    BY <1>1
  <2>. QED  BY <1>1, <2>1, UpToGrows
<1>5. \A r \in requests : r.command # c
  <2>. SUFFICES ASSUME NEW r \in requests PROVE r.command.at # c.at
    OBVIOUS
  <2>1. r.command.at \in 1 .. now
    BY <1>1, RequestFacts DEF Typed
  <2>2. c.at = now + 1
    BY <1>1
  <2>. QED  BY <1>1, <2>1, <2>2
<1>. HIDE DEF c
<1>6. UNCHANGED <<requests, happening, scans, overlapped, failures>>
  BY DEF GiveCommand
<1>. QED  BY <1>1, <1>2, <1>3, <1>4, <1>5, <1>6 DEF Typed

\* The types, when an invocation begins.
LEMMA TypedInvoke ==
    ASSUME Typed, NEW c \in sent, Invoke(c)
    PROVE  Typed'
<1>. DEFINE q == [command |-> c, step |-> "validating", given |-> happening, state |-> Blank]
<1>1. /\ sent' = sent \ {c} /\ requests' = requests \cup {q}
      /\ overlapped' = (overlapped \/ requests # {})
      /\ UNCHANGED <<now, happening, scans, failures>>
  BY DEF Invoke
<1>2. q \in RequestsUpTo(now)
  <2>1. Blank \in State(Person)
    BY DEF Blank, State
  <2>. QED  BY <2>1 DEF Typed, RequestsUpTo, Step
<1>3. q.command = c /\ q.step = "validating"
  OBVIOUS
<1>. HIDE DEF q
<1>. QED  BY <1>1, <1>2, <1>3 DEF Typed

\* The types, when the happening validates.
LEMMA TypedValidate ==
    ASSUME Typed, NEW r \in requests, Validate(r)
    PROVE  Typed'
<1>1. now \in Nat /\ r \in RequestsUpTo(now)
  BY BoundsAssumption DEF Typed
<1>2. TypedRequests(requests')
  <2>1. CASE Validates(r)
    <3>1. requests' = (requests \ {r}) \cup
             {[r EXCEPT !.step = "validated", !.given = {}, !.state = Blank]}
      BY <2>1 DEF Validate, Proceed
    <3>2. r.command.kind \notin {"Quit", "RemoveQuit"}
      BY <2>1 DEF Validates
    <3>. DEFINE q == [r EXCEPT !.step = "validated", !.given = {}, !.state = Blank]
    <3>3. q \in RequestsUpTo(now) /\ q.command = r.command /\ q.step = "validated"
      BY ProceedFacts DEF Step
    <3>. HIDE DEF q
    <3>4. TypedRequests((requests \ {r}) \cup {q})
      BY <3>2, <3>3, TypedProceed
    <3>. QED  BY <3>1, <3>4 DEF q
  <2>2. CASE ~Validates(r)
    BY <2>2, TypedEnd DEF Validate, End
  <2>. QED  BY <2>1, <2>2
<1>3. happening' \in SUBSET HappeningRow
  <2>1. QuitRows(r) \in SUBSET HappeningRow
    <3>1. r.command.person \in Person /\ r.command.at \in Nat
      BY <1>1, RequestFacts
    <3>2. \A t \in HappeningRowType : Row(t, r.command.person, r.command.at) \in HappeningRow
      BY <3>1 DEF Row, HappeningRow
    <3>3. \A f \in QuitRows(r) : \E t \in {"AttendeeQuit", "AttendeeQuitRemoved"} :
             f = Row(t, r.command.person, r.command.at)
      BY DEF QuitRows
    <3>. QED  BY <3>2, <3>3 DEF HappeningRowType
  <2>. QED  BY <2>1 DEF Typed, Validate
<1>4. UNCHANGED <<now, sent, scans, overlapped, failures>>
  BY DEF Validate
<1>. QED  BY <1>2, <1>3, <1>4 DEF Typed, TypedRequests

\* Which operations announce a start, and which a finish.
LEMMA OperationAnnounces ==
    ASSUME NEW n \in Nat, NEW r \in RequestsUpTo(n), r.command.kind \notin {"Quit", "RemoveQuit"}
    PROVE  /\ Announces(Operation(r), "AttendeeScannedAtStartCheckpoint") =>
                 r.command.place \in At("Start")
           /\ Announces(Operation(r), "AttendeeScannedAtFinishCheckpoint") <=>
                 /\ r.command.kind = "Scan"
                 /\ r.command.place \in At("Finish")
                 /\ ScanEvent("Finish", r.state, r.command) = "AttendeeScanIn"
<1>. DEFINE type == TypeOf[r.command.place]
            c == r.command
            scan == ScanEvent(type, r.state, c)
            events == Operation(r)
<1>1. /\ c.place \in Place /\ IsInfo(c, Person)
      /\ events \in Seq(EventRow(Person))
  BY OperationRows, RequestFacts
<1>2. \A t : Announces(events, t) <=> \E f : HasRow(events, f) /\ f.type = t
  <2>. HIDE DEF events
  <2>. QED  BY <1>1 DEF Announces, HasRow
<1>3. \A t : Event(t, c).type = t
  BY DEF Event
<1>4. c.kind = "StartScan" => type = "Start"
  BY RequestFacts DEF At
<1>5. c.kind \in {"StartScan", "Scan", "RemoveScan"}
  BY RequestFacts DEF CommandKind
<1>6. \A t : c.place \in At(t) <=> type = t
  BY <1>1 DEF At
<1>7. CASE c.kind = "RemoveScan"
  <2>1. events = RemoveScan(type, r.state, c)
    BY <1>7 DEF Operation
  <2>. HIDE DEF events, type, c
  <2>2. \A f : HasRow(events, f) =>
           f = Event("AttendeeScanInRemoved", c) \/ f = Event("AttendeeScanOutRemoved", c)
    BY <1>1, <2>1, RemoveScanRows
  <2>3. /\ ~Announces(events, "AttendeeScannedAtStartCheckpoint")
        /\ ~Announces(events, "AttendeeScannedAtFinishCheckpoint")
    BY <1>2, <1>3, <2>2
  <2>. QED  BY <1>7, <2>3 DEF events, c
<1>8. CASE c.kind # "RemoveScan"
  <2>1. events = AddScan(type, r.state, c)
    BY <1>8 DEF Operation
  <2>2. scan \notin {"AttendeeScannedAtStartCheckpoint", "AttendeeScannedAtFinishCheckpoint"}
    <3>. HIDE DEF type, c
    <3>. QED  BY ScanEventIs
  <2>. HIDE DEF events
  <2>3. \A f : HasRow(events, f) <=>
                  \/ /\ type = "Start" /\ r.state.out = <<>>
                     /\ f = Event("FirstAttendeeForHappeningScanned", c)
                  \/ f = Event(scan, c)
                  \/ /\ type = "Start" /\ scan = "AttendeeScanOut"
                     /\ f = Event("AttendeeScannedAtStartCheckpoint", c)
                  \/ /\ type = "Finish" /\ scan = "AttendeeScanIn"
                     /\ f = Event("AttendeeScannedAtFinishCheckpoint", c)
    <3>. HIDE DEF type, c
    <3>. QED  BY <1>1, <2>1, AddScanRows
  <2>. HIDE DEF scan, type, c
  <2>4. Announces(events, "AttendeeScannedAtStartCheckpoint") => type = "Start"
    BY <1>2, <1>3, <2>2, <2>3
  <2>5. Announces(events, "AttendeeScannedAtFinishCheckpoint")
           <=> type = "Finish" /\ scan = "AttendeeScanIn"
    <3>1. ASSUME Announces(events, "AttendeeScannedAtFinishCheckpoint")
          PROVE  type = "Finish" /\ scan = "AttendeeScanIn"
      <4>1. PICK f : HasRow(events, f) /\ f.type = "AttendeeScannedAtFinishCheckpoint"
        BY <1>2, <3>1
      <4>. QED  BY <1>3, <2>2, <2>3, <4>1
    <3>2. ASSUME type = "Finish" /\ scan = "AttendeeScanIn"
          PROVE  Announces(events, "AttendeeScannedAtFinishCheckpoint")
      <4>1. HasRow(events, Event("AttendeeScannedAtFinishCheckpoint", c))
        BY <2>3, <3>2
      <4>. QED  BY <1>2, <1>3, <4>1
    <3>. QED  BY <3>1, <3>2
  <2>6. type = "Finish" => c.kind = "Scan" /\ scan = ScanEvent("Finish", r.state, c)
    BY <1>4, <1>5, <1>8 DEF scan
  <2>7. c.kind = "Scan" /\ type = "Finish" /\ ScanEvent("Finish", r.state, c) = "AttendeeScanIn"
           => scan = "AttendeeScanIn"
    BY DEF scan
  <2>. QED  BY <1>6, <2>4, <2>5, <2>6, <2>7 DEF c, events
<1>. QED  BY <1>7, <1>8

\* The readings of a checkpoint.
LEMMA ReadingsAtFacts ==
    ASSUME Typed, NEW cp \in Place, NEW q
    PROVE  /\ ReadingsAt(cp) \in State(Person)
           /\ IsRead(ReadingsAt(cp).in, q) =>
                 \E i \in DOMAIN scans[cp] : AddsIn(scans[cp][i]) /\ scans[cp][i].person = q
           /\ IsRead(ReadingsAt(cp).out, q) =>
                 \E i \in DOMAIN scans[cp] : AddsOut(scans[cp][i]) /\ scans[cp][i].person = q
<1>1. scans[cp] \in Seq(EventRow(Person)) /\ DOMAIN scans[cp] = 1 .. Len(scans[cp])
  BY DEF Typed, SortedRows
<1>. DEFINE rows == scans[cp]
<1>. HIDE DEF rows
<1>2. LET states == States(rows)
          S == states[Len(states)]
      IN  /\ S \in State(Person)
          /\ IsRead(S.in, q) =>
                \E i \in 1 .. Len(rows) : AddsIn(rows[i]) /\ rows[i].person = q
          /\ IsRead(S.out, q) =>
                \E i \in 1 .. Len(rows) : AddsOut(rows[i]) /\ rows[i].person = q
  BY <1>1, ReplayedReadingsAreRows DEF rows
<1>. QED  BY <1>1, <1>2 DEF rows, ReadingsAt

\* The types, when the checkpoint is read.
LEMMA TypedReadCheckpoint ==
    ASSUME Typed, NEW r \in requests, ReadCheckpoint(r)
    PROVE  Typed'
<1>. DEFINE S == ReadingsAt(r.command.place)
            q == [r EXCEPT !.step = "recording", !.state = S]
<1>1. now \in Nat /\ r \in RequestsUpTo(now) /\ r.command.kind \notin {"Quit", "RemoveQuit"}
  BY BoundsAssumption DEF Typed, ReadCheckpoint
<1>2. S \in State(Person)
  <2>1. r.command.place \in Place
    BY <1>1, OperationRows
  <2>. QED  BY <2>1, ReadingsAtFacts
<1>3. requests' = (requests \ {r}) \cup {q} /\ UNCHANGED <<now, sent, happening, scans, overlapped, failures>>
  BY DEF ReadCheckpoint
<1>. HIDE DEF S
<1>4. q \in RequestsUpTo(now) /\ q.command = r.command /\ q.step = "recording"
  BY <1>1, <1>2 DEF RequestsUpTo, Step
<1>. HIDE DEF q
<1>5. TypedRequests(requests')
  BY <1>1, <1>3, <1>4, TypedProceed
<1>. QED  BY <1>3, <1>5 DEF Typed, TypedRequests

\* The types, when the checkpoint records.
LEMMA TypedRecord ==
    ASSUME Typed, NEW r \in requests, Record(r)
    PROVE  Typed'
<1>. DEFINE place == r.command.place
            events == Operation(r)
<1>1. now \in Nat /\ r \in RequestsUpTo(now) /\ r.command.kind \notin {"Quit", "RemoveQuit"}
  BY BoundsAssumption DEF Typed, Record
<1>2. place \in Place /\ events \in Seq(EventRow(Person))
  BY <1>1, OperationRows
<1>3. scans' = [scans EXCEPT ![place] = AllStored(scans[place], events)]
  BY DEF Record
<1>4. AllStored(scans[place], events) \in SortedRows(Person)
  <2>1. scans[place] \in SortedRows(Person)
    BY <1>2 DEF Typed
  <2>. HIDE DEF events
  <2>. QED  BY <1>2, <2>1, AllStoredRows
<1>5. scans' \in [Place -> SortedRows(Person)]
  <2>. HIDE DEF events, place
  <2>. QED  BY <1>2, <1>3, <1>4 DEF Typed
<1>6. TypedRequests(requests')
  <2>1. CASE /\ Announces(events, "AttendeeScannedAtStartCheckpoint")
             /\ Proceed(r, "started")
    <3>. DEFINE q == [r EXCEPT !.step = "started", !.given = {}, !.state = Blank]
    <3>1. q \in RequestsUpTo(now) /\ q.command = r.command /\ q.step = "started"
      BY ProceedFacts DEF Step
    <3>2. requests' = (requests \ {r}) \cup {q}
      BY <2>1 DEF Proceed
    <3>. HIDE DEF q
    <3>. QED  BY <1>1, <3>1, <3>2, TypedProceed
  <2>2. CASE /\ Announces(events, "AttendeeScannedAtFinishCheckpoint")
             /\ Proceed(r, "completed")
    <3>. DEFINE q == [r EXCEPT !.step = "completed", !.given = {}, !.state = Blank]
    <3>1. q \in RequestsUpTo(now) /\ q.command = r.command /\ q.step = "completed"
      BY ProceedFacts DEF Step
    <3>2. requests' = (requests \ {r}) \cup {q}
      BY <2>2 DEF Proceed
    <3>3. r.command.kind = "Scan" /\ r.command.place \in At("Finish")
      BY <1>1, <2>2, OperationAnnounces
    <3>. HIDE DEF q
    <3>. QED  BY <1>1, <3>1, <3>2, <3>3, TypedProceed
  <2>3. CASE End(r)
    BY <2>3, TypedEnd DEF End
  <2>. QED  BY <2>1, <2>2, <2>3 DEF Record
<1>7. UNCHANGED <<now, sent, happening, overlapped, failures>>
  BY DEF Record
<1>. QED  BY <1>5, <1>6, <1>7 DEF Typed, TypedRequests

\* The types, when the happening hears of a start or a completion.
LEMMA TypedAnnounce ==
    ASSUME Typed, NEW r \in requests, Announce(r)
    PROVE  Typed'
<1>1. r.command.person \in Person
  BY BoundsAssumption, RequestFacts DEF Typed
<1>2. \A t \in HappeningRowType : Row(t, r.command.person, 0) \in HappeningRow
  BY <1>1 DEF Row, HappeningRow
<1>3. happening' \in SUBSET HappeningRow
  BY <1>2 DEF Typed, Announce, HappeningRowType
<1>4. TypedRequests(requests')
  BY TypedEnd DEF Announce, End
<1>5. UNCHANGED <<now, sent, scans, overlapped, failures>>
  BY DEF Announce
<1>. QED  BY <1>3, <1>4, <1>5 DEF Typed, TypedRequests

\* The types, when an invocation breaks off.
LEMMA TypedBreakOff ==
    ASSUME Typed, NEW r \in requests, BreakOff(r)
    PROVE  Typed'
<1>1. /\ requests' = requests \ {r} /\ sent' = sent \cup {r.command}
      /\ failures' = failures + 1 /\ failures < MaxFailures
      /\ UNCHANGED <<now, happening, scans, overlapped>>
  BY DEF BreakOff, End
<1>2. r.command \in CommandsUpTo(now)
  BY BoundsAssumption, RequestFacts DEF Typed
<1>3. failures' \in 0 .. MaxFailures
  BY <1>1, BoundsAssumption DEF Typed
<1>4. \A q \in requests' : q.command \notin sent'
  BY <1>1 DEF Typed
<1>. QED  BY <1>1, <1>2, <1>3, <1>4 DEF Typed

\* A step keeps all types.
LEMMA TypedStep == Typed /\ [Next]_vars => Typed'
<1>. SUFFICES ASSUME Typed, [Next]_vars PROVE Typed'
  OBVIOUS
<1>1. ASSUME NEW order \in Order, NEW p \in Person, GiveCommand(order, p) PROVE Typed'
  BY <1>1, TypedGiveCommand
<1>2. ASSUME NEW c \in sent, Invoke(c) PROVE Typed'
  BY <1>2, TypedInvoke
<1>3. ASSUME NEW r \in requests, Validate(r) PROVE Typed'
  BY <1>3, TypedValidate
<1>4. ASSUME NEW r \in requests, ReadCheckpoint(r) PROVE Typed'
  BY <1>4, TypedReadCheckpoint
<1>5. ASSUME NEW r \in requests, Record(r) PROVE Typed'
  BY <1>5, TypedRecord
<1>6. ASSUME NEW r \in requests, Announce(r) PROVE Typed'
  BY <1>6, TypedAnnounce
<1>7. ASSUME NEW r \in requests, BreakOff(r) PROVE Typed'
  BY <1>7, TypedBreakOff
<1>8. CASE UNCHANGED vars
  BY <1>8 DEF Typed, vars
<1>. QED  BY <1>1, <1>2, <1>3, <1>4, <1>5, <1>6, <1>7, <1>8 DEF Next, Progress

-----------------------------------------------------------------------------
(* Nobody is scanned before the happening knows that they have started.    *)

\* The rows of a happening only become more.
LEMMA HappeningGrows == [Next]_vars => happening \subseteq happening'
BY DEF Next, vars, GiveCommand, Invoke, Progress, Validate, ReadCheckpoint, Record,
       Announce, BreakOff

\* More rows of the happening, and nobody has started or completed the less.
LEMMA StartedGrows ==
    ASSUME NEW R, NEW Q, R \subseteq Q
    PROVE  Started(R) \subseteq Started(Q) /\ Completed(R) \subseteq Completed(Q)
BY DEF Started, Completed

\* The rows that are there once an invocation has recorded its events.
LEMMA RecordedRows ==
    ASSUME Typed, NEW r \in requests, Record(r)
    PROVE  /\ \A cp \in Place : cp # r.command.place => scans'[cp] = scans[cp]
           /\ \A f : HasRow(scans'[r.command.place], f) <=>
                 \/ HasRow(scans[r.command.place], f)
                 \/ HasRow(Operation(r), f) /\ ~ChangesNothing(f)
           /\ \A cp \in Place : DOMAIN scans[cp] = 1 .. Len(scans[cp])
           /\ \A cp \in Place : DOMAIN scans'[cp] = 1 .. Len(scans'[cp])
<1>. DEFINE place == r.command.place
            events == Operation(r)
<1>1. place \in Place /\ events \in Seq(EventRow(Person))
  BY BoundsAssumption, OperationRows DEF Typed, Record
<1>2. scans' = [scans EXCEPT ![place] = AllStored(scans[place], events)]
  BY DEF Record
<1>3. scans \in [Place -> SortedRows(Person)] /\ scans' \in [Place -> SortedRows(Person)]
  BY TypedRecord DEF Typed
<1>. HIDE DEF place, events
<1>4. scans'[place] = AllStored(scans[place], events)
  BY <1>1, <1>2, <1>3
<1>5. \A f : HasRow(scans'[place], f) <=>
                 HasRow(scans[place], f) \/ (HasRow(events, f) /\ ~ChangesNothing(f))
  <2>1. scans[place] \in SortedRows(Person)
    BY <1>1, <1>3
  <2>. QED  BY <1>1, <1>4, <2>1, AllStoredRows
<1>6. \A cp \in Place : cp # place => scans'[cp] = scans[cp]
  BY <1>2, <1>3
<1>7. /\ \A cp \in Place : DOMAIN scans[cp] = 1 .. Len(scans[cp])
      /\ \A cp \in Place : DOMAIN scans'[cp] = 1 .. Len(scans'[cp])
  <2>1. \A cp \in Place : scans[cp] \in Seq(EventRow(Person)) /\ scans'[cp] \in Seq(EventRow(Person))
    BY <1>3 DEF SortedRows
  <2>. QED  BY <2>1
<1>. QED  BY <1>5, <1>6, <1>7 DEF place, events

\* Nobody has been scanned too early, at first.
LEMMA StartedInit == Init => KnownStarted
<1>. SUFFICES ASSUME Init PROVE KnownStarted
  OBVIOUS
<1>1. requests = {}
  BY DEF Init
<1>2. ScannedAfterStart
  <2>1. \A cp \in Place \ At("Start") : scans[cp] = <<>>
    BY DEF Init, At
  <2>. QED  BY <2>1 DEF ScannedAfterStart
<1>. QED  BY <1>1, <1>2 DEF KnownStarted

\* What holds of invocations goes on to hold when rows are added.
LEMMA StartedRequestsStep ==
    ASSUME KnownStarted, [Next]_vars, ScannedAfterStart',
           \A r \in requests' : r \in requests \/ Begun(r, happening')
    PROVE  KnownStarted'
<1>1. happening \subseteq happening' /\ Started(happening) \subseteq Started(happening')
  BY HappeningGrows, StartedGrows
<1>2. \A r \in requests : Begun(r, happening')
  BY <1>1 DEF KnownStarted, Begun
<1>. QED  BY <1>2 DEF KnownStarted

\* A step scans nobody too early.
LEMMA StartedStep == Typed /\ KnownStarted /\ [Next]_vars => KnownStarted'
<1>. SUFFICES ASSUME Typed, KnownStarted, [Next]_vars PROVE KnownStarted'
  OBVIOUS
<1>1. happening \subseteq happening' /\ Started(happening) \subseteq Started(happening')
  BY HappeningGrows, StartedGrows
<1>2. ASSUME UNCHANGED scans PROVE ScannedAfterStart'
  BY <1>1, <1>2 DEF KnownStarted, ScannedAfterStart
<1>3. ASSUME NEW r \in requests, NEW step \in Step, Proceed(r, step),
             step = "validated" /\ r.command.kind = "Scan"
                => r.command.person \in Started(happening'),
             step # "recording",
             ScannedAfterStart'
      PROVE  KnownStarted'
  <2>. DEFINE q == [r EXCEPT !.step = step, !.given = {}, !.state = Blank]
  <2>1. q.command = r.command /\ q.step = step /\ q.given = {}
    BY ProceedFacts
  <2>2. requests' = (requests \ {r}) \cup {q}
    BY <1>3 DEF Proceed
  <2>. HIDE DEF q
  <2>3. requests' \subseteq requests \cup {q}
    BY <2>2
  <2>4. Begun(q, happening')
    BY <1>3, <2>1 DEF Begun
  <2>. QED  BY <1>3, <2>3, <2>4, StartedRequestsStep
<1>4. ASSUME requests' \subseteq requests, ScannedAfterStart' PROVE KnownStarted'
  <2>1. \A s \in requests' : s \in requests
    BY <1>4
  <2>. QED  BY <1>4, <2>1, StartedRequestsStep
<1>5. ASSUME NEW order \in Order, NEW p \in Person, GiveCommand(order, p)
      PROVE  KnownStarted'
  BY <1>2, <1>4, <1>5 DEF GiveCommand
<1>6. ASSUME NEW c \in sent, Invoke(c)
      PROVE  KnownStarted'
  <2>. DEFINE q == [command |-> c, step |-> "validating", given |-> happening, state |-> Blank]
  <2>1. requests' = requests \cup {q} /\ UNCHANGED <<happening, scans>>
    BY <1>6 DEF Invoke
  <2>2. q.step = "validating" /\ q.given = happening
    OBVIOUS
  <2>. HIDE DEF q
  <2>3. requests' \subseteq requests \cup {q} /\ Begun(q, happening') /\ ScannedAfterStart'
    BY <1>2, <2>1, <2>2 DEF Begun
  <2>. QED  BY <2>3, StartedRequestsStep
<1>7. ASSUME NEW r \in requests, Validate(r)
      PROVE  KnownStarted'
  <2>1. UNCHANGED scans
    BY <1>7 DEF Validate
  <2>2. CASE Validates(r)
    <3>1. Proceed(r, "validated")
      BY <1>7, <2>2 DEF Validate
    <3>2. r.command.kind = "Scan" => r.command.person \in Started(happening')
      <4>1. ASSUME r.command.kind = "Scan" PROVE r.command.person \in Started(r.given)
        BY <2>2, <4>1 DEF Validates, ValidatesScan
      <4>2. Started(r.given) \subseteq Started(happening)
        BY StartedGrows DEF KnownStarted, Begun
      <4>. QED  BY <1>1, <4>1, <4>2
    <3>. QED  BY <1>2, <1>3, <2>1, <3>1, <3>2 DEF Step
  <2>3. CASE ~Validates(r)
    BY <1>2, <1>4, <1>7, <2>1, <2>3 DEF Validate, End
  <2>. QED  BY <2>2, <2>3
<1>8. ASSUME NEW r \in requests, ReadCheckpoint(r)
      PROVE  KnownStarted'
  <2>. DEFINE place == r.command.place
              S == ReadingsAt(place)
              q == [r EXCEPT !.step = "recording", !.state = S]
  <2>1. now \in Nat /\ r \in RequestsUpTo(now) /\ r.command.kind \notin {"Quit", "RemoveQuit"}
    BY <1>8, BoundsAssumption DEF Typed, ReadCheckpoint
  <2>2. place \in Place
    BY <2>1, OperationRows
  <2>3. requests' = (requests \ {r}) \cup {q} /\ UNCHANGED <<happening, scans>> /\ r.step = "validated"
    BY <1>8 DEF ReadCheckpoint
  <2>4. ASSUME place \notin At("Start"),
               IsRead(S.in, r.command.person) \/ IsRead(S.out, r.command.person)
        PROVE  r.command.person \in Started(happening)
    <3>1. \E i \in DOMAIN scans[place] : scans[place][i].person = r.command.person
      <4>. DEFINE p == r.command.person
      <4>. HIDE DEF place, p
      <4>2. IsRead(ReadingsAt(place).in, p) \/ IsRead(ReadingsAt(place).out, p)
               => \E i \in DOMAIN scans[place] : scans[place][i].person = p
        BY <2>2, ReadingsAtFacts
      <4>. QED  BY <2>4, <4>2 DEF p
    <3>. QED  BY <2>2, <2>4, <3>1 DEF KnownStarted, ScannedAfterStart
  <2>. HIDE DEF S
  <2>5. q.command = r.command /\ q.step = "recording" /\ q.given = r.given /\ q.state = S
    BY <2>1 DEF RequestsUpTo
  <2>. HIDE DEF q
  <2>6. Begun(r, happening) /\ happening' = happening
    BY <2>3 DEF KnownStarted
  <2>7. Begun(q, happening')
    BY <2>3, <2>4, <2>5, <2>6 DEF Begun, HasRead
  <2>8. ScannedAfterStart' /\ requests' \subseteq requests \cup {q}
    BY <1>2, <2>3
  <2>. QED  BY <2>7, <2>8, StartedRequestsStep
<1>9. ASSUME NEW r \in requests, Record(r)
      PROVE  KnownStarted'
  <2>. DEFINE place == r.command.place
              p == r.command.person
  <2>1. now \in Nat /\ r \in RequestsUpTo(now) /\ r.command.kind \notin {"Quit", "RemoveQuit"}
        /\ r.step = "recording"
    BY <1>9, BoundsAssumption DEF Typed, Record
  <2>2. place \in Place /\ \A f : HasRow(Operation(r), f) => f.person = p
    BY <2>1, OperationRows
  <2>3. ASSUME place \notin At("Start"), NEW f, HasRow(Operation(r), f)
        PROVE  p \in Started(happening)
    <3>1. r.command.kind \in {"Scan", "RemoveScan"}
      BY <2>1, <2>3, RequestFacts DEF CommandKind
    <3>2. CASE r.command.kind = "Scan"
      BY <2>1, <3>2 DEF KnownStarted, Begun
    <3>3. CASE r.command.kind = "RemoveScan"
      <4>1. IsInfo(r.command, Person)
        BY <2>1, RequestFacts
      <4>2. Operation(r) = RemoveScan(TypeOf[place], r.state, r.command)
        BY <3>3 DEF Operation
      <4>3. \A type, S, c : IsInfo(c, Person) /\ HasRow(RemoveScan(type, S, c), f)
               => IsRead(S.in, c.person) \/ IsRead(S.out, c.person)
        BY RemoveScanRows
      <4>4. HasRead(r)
        BY <2>3, <4>1, <4>2, <4>3 DEF HasRead
      <4>. QED  BY <2>1, <2>3, <4>4 DEF KnownStarted, Begun
    <3>. QED  BY <3>1, <3>2, <3>3
  <2>4. ScannedAfterStart'
    <3>. SUFFICES ASSUME NEW cp \in Place \ At("Start"), NEW i \in DOMAIN scans'[cp]
                  PROVE  scans'[cp][i].person \in Started(happening')
      BY DEF ScannedAfterStart, At
    <3>0. /\ \A x \in Place : x # place => scans'[x] = scans[x]
          /\ \A f : HasRow(scans'[place], f) <=>
                \/ HasRow(scans[place], f)
                \/ HasRow(Operation(r), f) /\ ~ChangesNothing(f)
          /\ \A x \in Place : DOMAIN scans[x] = 1 .. Len(scans[x])
          /\ \A x \in Place : DOMAIN scans'[x] = 1 .. Len(scans'[x])
      BY <1>9, RecordedRows
    <3>1. CASE cp # place
      BY <1>1, <3>0, <3>1 DEF KnownStarted, ScannedAfterStart
    <3>2. CASE cp = place
      <4>. DEFINE f == scans'[place][i]
      <4>1. HasRow(scans'[place], f)
        BY <2>2, <3>0, <3>2 DEF HasRow
      <4>. HIDE DEF f
      <4>2. CASE HasRow(Operation(r), f)
        <5>1. f.person = p /\ p \in Started(happening)
          BY <2>2, <2>3, <3>2, <4>2
        <5>. QED  BY <1>1, <3>2, <5>1 DEF f
      <4>3. CASE HasRow(scans[place], f)
        <5>1. f.person \in Started(happening)
          BY <2>2, <3>0, <3>2, <4>3 DEF HasRow, KnownStarted, ScannedAfterStart
        <5>. QED  BY <1>1, <3>2, <5>1 DEF f
      <4>. QED  BY <3>0, <4>1, <4>2, <4>3
    <3>. QED  BY <3>1, <3>2
  <2>. QED  BY <1>3, <1>4, <1>9, <2>4 DEF Record, End, Step
<1>10. ASSUME NEW r \in requests, Announce(r)
       PROVE  KnownStarted'
  BY <1>2, <1>4, <1>10 DEF Announce, End
<1>11. ASSUME NEW r \in requests, BreakOff(r)
       PROVE  KnownStarted'
  BY <1>2, <1>4, <1>11 DEF BreakOff, End
<1>12. CASE UNCHANGED vars
  BY <1>2, <1>4, <1>12 DEF vars
<1>. QED  BY <1>5, <1>6, <1>7, <1>8, <1>9, <1>10, <1>11, <1>12 DEF Next, Progress

-----------------------------------------------------------------------------
(* Alone, an invocation never makes a quitter of one who has completed.    *)

\* What one row more does to the quitters, and to those who have completed.
LEMMA OneRowMore ==
    ASSUME NEW R, NEW type, NEW p, NEW at, NEW Q, Q = R \cup {Row(type, p, at)}
    PROVE  /\ Quitters(Q) \subseteq Quitters(R) \cup {p}
           /\ type # "AttendeeQuit" => Quitters(Q) \subseteq Quitters(R)
           /\ Completed(Q) \subseteq Completed(R) \cup {p}
           /\ type # "AttendeeCompleted" => Completed(Q) \subseteq Completed(R)
<1>. DEFINE f == Row(type, p, at)
<1>1. f.type = type /\ f.person = p /\ Q = R \cup {f}
  BY DEF Row
<1>. HIDE DEF f
<1>2. ASSUME NEW q \in Quitters(Q)
      PROVE  q \in Quitters(R) \/ (type = "AttendeeQuit" /\ q = p)
  <2>1. PICK e \in Q :
           /\ e.type = "AttendeeQuit" /\ e.person = q
           /\ \A g \in Q : g.type = "AttendeeQuitRemoved" /\ g.person = e.person
                               => g.at < e.at
    BY DEF Quitters
  <2>2. CASE e = f
    BY <1>1, <2>1, <2>2
  <2>3. CASE e \in R
    BY <1>1, <2>1, <2>3 DEF Quitters
  <2>. QED  BY <1>1, <2>1, <2>2, <2>3
<1>3. /\ Completed(Q) \subseteq Completed(R) \cup {p}
      /\ type # "AttendeeCompleted" => Completed(Q) \subseteq Completed(R)
  BY <1>1 DEF Completed
<1>. QED  BY <1>2, <1>3

\* Nobody has quit and completed, at first.
LEMMA QuitInit == Init => KnownQuit
<1>. SUFFICES ASSUME Init PROVE KnownQuit
  OBVIOUS
<1>1. requests = {}
  BY DEF Init
<1>2. \A e \in happening : e.type = "AttendeeStarted"
  BY DEF Init, Row
<1>3. Quitters(happening) = {}
  BY <1>2 DEF Quitters
<1>. QED  BY <1>1, <1>3 DEF KnownQuit

\* No step lets anybody quit and complete.
LEMMA QuitStep == Typed /\ KnownQuit /\ [Next]_vars => KnownQuit'
<1>. SUFFICES ASSUME Typed, KnownQuit, [Next]_vars, ~overlapped'
              PROVE  /\ Quitters(happening') \cap Completed(happening') = {}
                     /\ \A q, r \in requests' : q = r
                     /\ \A r \in requests' : r.step = "validating" => r.given = happening'
                     /\ \A r \in requests' :
                           r.step \in {"validated", "recording", "completed"}
                             /\ r.command.kind = "Scan"
                              => r.command.person \notin Quitters(happening')
  BY DEF KnownQuit
<1>. DEFINE Goal == /\ Quitters(happening') \cap Completed(happening') = {}
                    /\ \A q, r \in requests' : q = r
                    /\ \A r \in requests' : r.step = "validating" => r.given = happening'
                    /\ \A r \in requests' :
                          r.step \in {"validated", "recording", "completed"}
                            /\ r.command.kind = "Scan"
                             => r.command.person \notin Quitters(happening')
<1>0. ~overlapped
  BY DEF Typed, Next, vars, GiveCommand, Invoke, Progress, Validate, ReadCheckpoint,
         Record, Announce, BreakOff
<1>1. /\ Quitters(happening) \cap Completed(happening) = {}
      /\ \A q, r \in requests : q = r
      /\ \A r \in requests : r.step = "validating" => r.given = happening
      /\ \A r \in requests :
            r.step \in {"validated", "recording", "completed"} /\ r.command.kind = "Scan"
               => r.command.person \notin Quitters(happening)
  BY <1>0 DEF KnownQuit
<1>2. ASSUME UNCHANGED <<requests, happening>> PROVE Goal
  BY <1>1, <1>2
<1>3. ASSUME NEW r \in requests, NEW step \in Step, Proceed(r, step), step # "validating",
             UNCHANGED happening,
             step \in {"validated", "recording", "completed"} /\ r.command.kind = "Scan"
                => r.command.person \notin Quitters(happening)
      PROVE  Goal
  <2>. DEFINE q == [r EXCEPT !.step = step, !.given = {}, !.state = Blank]
  <2>1. q.command = r.command /\ q.step = step
    BY ProceedFacts
  <2>2. requests' = (requests \ {r}) \cup {q}
    BY <1>3 DEF Proceed
  <2>. HIDE DEF q
  <2>3. requests' = {q}
    BY <1>1, <2>2
  <2>. QED  BY <1>1, <1>3, <2>1, <2>3
<1>4. ASSUME NEW r \in requests, End(r), Quitters(happening') \cap Completed(happening') = {}
      PROVE  Goal
  <2>1. requests' = {}
    BY <1>1, <1>4 DEF End
  <2>. QED  BY <1>4, <2>1
<1>. HIDE DEF Goal
<1>5. ASSUME NEW order \in Order, NEW p \in Person, GiveCommand(order, p)
      PROVE  Goal
  BY <1>2, <1>5 DEF GiveCommand
<1>6. ASSUME NEW c \in sent, Invoke(c)
      PROVE  Goal
  <2>. DEFINE q == [command |-> c, step |-> "validating", given |-> happening, state |-> Blank]
  <2>1. requests' = requests \cup {q} /\ UNCHANGED happening /\ requests = {}
    BY <1>6 DEF Invoke
  <2>2. q.step = "validating" /\ q.given = happening
    OBVIOUS
  <2>. HIDE DEF q
  <2>3. requests' = {q}
    BY <2>1
  <2>. QED  BY <1>1, <2>1, <2>2, <2>3 DEF Goal
<1>7. ASSUME NEW r \in requests, Validate(r)
      PROVE  Goal
  <2>0. r.given = happening
    BY <1>1, <1>7 DEF Validate
  <2>1. CASE Validates(r)
    <3>1. QuitRows(r) = {}
      BY <2>1 DEF Validates, QuitRows
    <3>2. Proceed(r, "validated") /\ UNCHANGED happening
      BY <1>7, <2>1, <3>1 DEF Validate
    <3>3. r.command.kind = "Scan" => r.command.person \notin Quitters(happening)
      BY <2>0, <2>1 DEF Validates, ValidatesScan, OnTheWay
    <3>4. "validated" \in Step /\ "validated" # "validating"
      BY DEF Step
    <3>. QED  BY <1>3, <3>2, <3>3, <3>4
  <2>2. CASE ~Validates(r)
    <3>. DEFINE p == r.command.person
                at == r.command.at
    <3>1. End(r) /\ happening' = happening \cup QuitRows(r)
      BY <1>7, <2>2 DEF Validate
    <3>2. \/ QuitRows(r) = {}
          \/ QuitRows(r) = {Row("AttendeeQuit", p, at)} /\ p \notin Completed(happening)
          \/ QuitRows(r) = {Row("AttendeeQuitRemoved", p, at)}
      BY <2>0 DEF QuitRows, Quits, OnTheWay
    <3>. HIDE DEF p, at
    <3>3. CASE QuitRows(r) = {}
      <4>1. happening' = happening
        BY <3>1, <3>3
      <4>. QED  BY <1>1, <1>4, <3>1, <4>1
    <3>4. CASE QuitRows(r) = {Row("AttendeeQuit", p, at)} /\ p \notin Completed(happening)
      <4>1. /\ Quitters(happening') \subseteq Quitters(happening) \cup {p}
            /\ Completed(happening') \subseteq Completed(happening)
        <5>1. happening' = happening \cup {Row("AttendeeQuit", p, at)}
          BY <3>1, <3>4
        <5>. QED  BY <5>1, OneRowMore
      <4>2. Quitters(happening') \cap Completed(happening') = {}
        BY <1>1, <3>4, <4>1
      <4>. QED  BY <1>4, <3>1, <4>2
    <3>5. CASE QuitRows(r) = {Row("AttendeeQuitRemoved", p, at)}
      <4>1. /\ Quitters(happening') \subseteq Quitters(happening)
            /\ Completed(happening') \subseteq Completed(happening)
        <5>1. happening' = happening \cup {Row("AttendeeQuitRemoved", p, at)}
          BY <3>1, <3>5
        <5>. QED  BY <5>1, OneRowMore
      <4>2. Quitters(happening') \cap Completed(happening') = {}
        BY <1>1, <4>1
      <4>. QED  BY <1>4, <3>1, <4>2
    <3>. QED  BY <3>2, <3>3, <3>4, <3>5
  <2>. QED  BY <2>1, <2>2
<1>8. ASSUME NEW r \in requests, ReadCheckpoint(r)
      PROVE  Goal
  <2>. DEFINE S == ReadingsAt(r.command.place)
              q == [r EXCEPT !.step = "recording", !.state = S]
  <2>1. r \in RequestsUpTo(now) /\ r.step = "validated"
        /\ requests' = (requests \ {r}) \cup {q} /\ UNCHANGED happening
    BY <1>8 DEF Typed, ReadCheckpoint
  <2>. HIDE DEF S
  <2>2. q.command = r.command /\ q.step = "recording"
    BY <2>1 DEF RequestsUpTo
  <2>. HIDE DEF q
  <2>3. requests' = {q}
    BY <1>1, <2>1
  <2>. QED  BY <1>1, <2>1, <2>2, <2>3 DEF Goal
<1>9. ASSUME NEW r \in requests, Record(r)
      PROVE  Goal
  <2>1. r.step = "recording" /\ UNCHANGED happening
    BY <1>9 DEF Record
  <2>2. r.command.kind = "Scan" => r.command.person \notin Quitters(happening)
    BY <1>1, <2>1
  <2>3. "started" \in Step /\ "completed" \in Step
    BY DEF Step
  <2>4. CASE Proceed(r, "started")
    BY <1>3, <2>1, <2>2, <2>3, <2>4
  <2>5. CASE Proceed(r, "completed")
    BY <1>3, <2>1, <2>2, <2>3, <2>5
  <2>6. CASE End(r)
    BY <1>1, <1>4, <2>1, <2>6
  <2>. QED  BY <1>9, <2>4, <2>5, <2>6 DEF Record
<1>10. ASSUME NEW r \in requests, Announce(r)
       PROVE  Goal
  <2>. DEFINE p == r.command.person
              type == IF r.step = "started" THEN "AttendeeStarted" ELSE "AttendeeCompleted"
  <2>1. End(r) /\ happening' = happening \cup {Row(type, p, 0)} /\ r.step \in {"started", "completed"}
    BY <1>10 DEF Announce
  <2>2. type = "AttendeeCompleted" => p \notin Quitters(happening)
    BY <1>1, <2>1 DEF Typed
  <2>3. type # "AttendeeQuit"
    OBVIOUS
  <2>. HIDE DEF p, type
  <2>4. /\ Quitters(happening') \subseteq Quitters(happening)
        /\ Completed(happening') \subseteq Completed(happening) \cup {p}
        /\ type # "AttendeeCompleted" => Completed(happening') \subseteq Completed(happening)
    BY <2>1, <2>3, OneRowMore
  <2>5. Quitters(happening') \cap Completed(happening') = {}
    BY <1>1, <2>2, <2>4
  <2>. QED  BY <1>4, <2>1, <2>5
<1>11. ASSUME NEW r \in requests, BreakOff(r)
       PROVE  Goal
  BY <1>1, <1>4, <1>11 DEF BreakOff
<1>12. ASSUME UNCHANGED vars PROVE Goal
  BY <1>2, <1>12 DEF vars
<1>13. Goal
  BY <1>5, <1>6, <1>7, <1>8, <1>9, <1>10, <1>11, <1>12 DEF Next, Progress
<1>. QED  BY <1>13 DEF Goal

-----------------------------------------------------------------------------
(* Unbroken, every reading at a finish completes a walk.                   *)

\* Failures are only counted up.
LEMMA FailuresGrow == Typed /\ [Next]_vars => failures \in Nat /\ failures' >= failures
<1>. SUFFICES ASSUME Typed, [Next]_vars PROVE failures \in Nat /\ failures' >= failures
  OBVIOUS
<1>1. failures \in Nat
  BY BoundsAssumption DEF Typed
<1>2. failures' = failures \/ failures' = failures + 1
  BY DEF Next, vars, GiveCommand, Invoke, Progress, Validate, ReadCheckpoint, Record,
         Announce, BreakOff
<1>. QED  BY <1>1, <1>2

\* Only an invocation that breaks off loses a completion.
LEMMA CompletingStays ==
    ASSUME Typed, [Next]_vars, failures' = 0
    PROVE  Completing \subseteq Completing'
<1>1. Completed(happening) \subseteq Completed(happening')
  BY HappeningGrows, StartedGrows
<1>3. ASSUME NEW q \in requests, NEW p, q.command.person = p, q.step = "completed"
      PROVE  p \in Completing'
  <2>1. ASSUME q \in requests' PROVE p \in Completing'
    BY <1>3, <2>1 DEF Completing
  <2>2. ASSUME NEW r \in requests, requests \ {r} \subseteq requests', r # q PROVE p \in Completing'
    BY <2>1, <2>2
  <2>3. ASSUME NEW order \in Order, NEW person \in Person, GiveCommand(order, person)
        PROVE  p \in Completing'
    BY <2>1, <2>3 DEF GiveCommand
  <2>4. ASSUME NEW c \in sent, Invoke(c)
        PROVE  p \in Completing'
    BY <2>1, <2>4 DEF Invoke
  <2>5. ASSUME NEW r \in requests, Validate(r)
        PROVE  p \in Completing'
    BY <1>3, <2>2, <2>5 DEF Validate, Proceed, End
  <2>6. ASSUME NEW r \in requests, ReadCheckpoint(r)
        PROVE  p \in Completing'
    BY <1>3, <2>2, <2>6 DEF ReadCheckpoint
  <2>7. ASSUME NEW r \in requests, Record(r)
        PROVE  p \in Completing'
    BY <1>3, <2>2, <2>7 DEF Record, Proceed, End
  <2>8. ASSUME NEW r \in requests, Announce(r)
        PROVE  p \in Completing'
    <3>1. CASE r # q
      BY <2>2, <2>8, <3>1 DEF Announce, End
    <3>2. CASE r = q
      <4>1. Row("AttendeeCompleted", p, 0) \in happening'
        BY <1>3, <2>8, <3>2 DEF Announce
      <4>2. p \in Completed(happening')
        BY <4>1 DEF Completed, Row
      <4>. QED  BY <4>2 DEF Completing
    <3>. QED  BY <3>1, <3>2
  <2>9. ASSUME NEW r \in requests, BreakOff(r)
        PROVE  p \in Completing'
    BY <2>9, BoundsAssumption DEF BreakOff, Typed
  <2>10. ASSUME UNCHANGED vars PROVE p \in Completing'
    BY <2>1, <2>10 DEF vars
  <2>. QED  BY <2>3, <2>4, <2>5, <2>6, <2>7, <2>8, <2>9, <2>10 DEF Next, Progress
<1>. QED  BY <1>1, <1>3 DEF Completing

\* A scan at a finish stores its row and, if the walk is thereby completed, says so.
LEMMA FinishScanRows ==
    \A type, S, info, f :
        /\ IsInfo(info, Person) /\ type = "Finish"
        /\ HasRow(AddScan(type, S, info), f)
        => \/ f = Event(ScanEvent(type, S, info), info)
           \/ f = Event("AttendeeScannedAtFinishCheckpoint", info)
<1>. SUFFICES ASSUME NEW type, NEW S, NEW info, IsInfo(info, Person)
              PROVE  \A f : type = "Finish" /\ HasRow(AddScan(type, S, info), f) =>
                        \/ f = Event(ScanEvent(type, S, info), info)
                        \/ f = Event("AttendeeScannedAtFinishCheckpoint", info)
  OBVIOUS
<1>. DEFINE events == AddScan(type, S, info)
            scan == ScanEvent(type, S, info)
<1>1. /\ events = AddScan(type, S, info) /\ IsInfo(info, Person)
      /\ events \in Seq(EventRow(Person))
  BY AddScanRows
<1>. HIDE DEF events
<1>2. \A f : HasRow(events, f) <=>
                  \/ /\ type = "Start" /\ S.out = <<>>
                     /\ f = Event("FirstAttendeeForHappeningScanned", info)
                  \/ f = Event(scan, info)
                  \/ /\ type = "Start" /\ scan = "AttendeeScanOut"
                     /\ f = Event("AttendeeScannedAtStartCheckpoint", info)
                  \/ /\ type = "Finish" /\ scan = "AttendeeScanIn"
                     /\ f = Event("AttendeeScannedAtFinishCheckpoint", info)
  BY <1>1, AddScanRows
<1>. QED  BY <1>1, <1>2

\* What a scan or a removal at a finish adds to its rows.
LEMMA FinishOperation ==
    ASSUME NEW n \in Nat, NEW r \in RequestsUpTo(n), r.command.kind \notin {"Quit", "RemoveQuit"},
           r.command.place \in At("Finish"), NEW f, HasRow(Operation(r), f)
    PROVE  \/ HasRead(r)
           \/ /\ Announces(Operation(r), "AttendeeScannedAtFinishCheckpoint")
              /\ ChangesNothing(f) \/ f.type = "AttendeeScanIn"
<1>. DEFINE c == r.command
            type == TypeOf[c.place]
            scan == ScanEvent(type, r.state, c)
<1>1. /\ IsInfo(c, Person) /\ type = "Finish"
      /\ c.kind \in {"Scan", "RemoveScan"}
  BY RequestFacts DEF At, CommandKind
<1>2. \A t : Event(t, c).type = t
  BY DEF Event
<1>3. SUFFICES ASSUME ~HasRead(r)
               PROVE  /\ Announces(Operation(r), "AttendeeScannedAtFinishCheckpoint")
                      /\ ChangesNothing(f) \/ f.type = "AttendeeScanIn"
  OBVIOUS
<1>4. ~IsRead(r.state.in, c.person) /\ ~IsRead(r.state.out, c.person)
  BY <1>3 DEF HasRead
<1>5. c.kind = "Scan"
  <2>1. ASSUME c.kind = "RemoveScan" PROVE FALSE
    <3>1. Operation(r) = RemoveScan(type, r.state, c)
      BY <2>1 DEF Operation
    <3>2. \A t, S, info : IsInfo(info, Person) /\ HasRow(RemoveScan(t, S, info), f)
             => IsRead(S.in, info.person) \/ IsRead(S.out, info.person)
      BY RemoveScanRows
    <3>. HIDE DEF c, type
    <3>. QED  BY <1>1, <1>4, <3>1, <3>2
  <2>. QED  BY <1>1, <2>1
<1>6. scan = "AttendeeScanIn"
  <2>1. ~IsDouble(r.state, c)
    BY <1>4 DEF IsDouble
  <2>. HIDE DEF c, type
  <2>. QED  BY <1>1, <1>4, <2>1, ScanEventIs
<1>7. Operation(r) = AddScan(type, r.state, c)
  BY <1>5 DEF Operation
<1>8. Announces(Operation(r), "AttendeeScannedAtFinishCheckpoint")
  BY <1>1, <1>5, <1>6, OperationAnnounces
<1>. HIDE DEF scan, type, c
<1>9. f = Event(scan, c) \/ f = Event("AttendeeScannedAtFinishCheckpoint", c)
  BY <1>1, <1>7, FinishScanRows DEF scan
<1>10. ChangesNothing(f) \/ f.type = "AttendeeScanIn"
  <2>1. CASE f = Event(scan, c)
    BY <1>2, <1>6, <2>1
  <2>2. CASE f = Event("AttendeeScannedAtFinishCheckpoint", c)
    <3>1. f.type = "AttendeeScannedAtFinishCheckpoint"
      BY <1>2, <2>2
    <3>. QED  BY <3>1 DEF ChangesNothing, AddsIn, AddsOut, RemovesIn, RemovesOut,
                          ChangesIn, ChangesOut
  <2>. QED  BY <1>9, <2>1, <2>2
<1>. QED  BY <1>8, <1>10

\* What Record goes on with: at a finish, an announced completion.
LEMMA FinishAnnounced ==
    ASSUME Typed, NEW r \in requests, Record(r), r.command.place \in At("Finish"),
           Announces(Operation(r), "AttendeeScannedAtFinishCheckpoint")
    PROVE  \E q \in requests' : q.command = r.command /\ q.step = "completed"
<1>. DEFINE q == [r EXCEPT !.step = "completed", !.given = {}, !.state = Blank]
<1>1. now \in Nat /\ r \in RequestsUpTo(now) /\ r.command.kind \notin {"Quit", "RemoveQuit"}
  BY BoundsAssumption DEF Typed, Record
<1>2. ~Announces(Operation(r), "AttendeeScannedAtStartCheckpoint")
  <2>1. r.command.place \notin At("Start")
    BY DEF At
  <2>. QED  BY <1>1, <2>1, OperationAnnounces
<1>3. Proceed(r, "completed")
  BY <1>2 DEF Record
<1>4. q.command = r.command /\ q.step = "completed"
  BY ProceedFacts DEF Step
<1>5. q \in requests'
  BY <1>3 DEF Proceed
<1>. QED  BY <1>4, <1>5

\* No completion is lost, at first.
LEMMA FinishedInit == Init => KnownFinished
<1>. SUFFICES ASSUME Init PROVE KnownFinished
  OBVIOUS
<1>1. requests = {}
  BY DEF Init
<1>2. \A cp \in At("Finish") : scans[cp] = <<>>
  BY DEF Init, At
<1>. QED  BY <1>1, <1>2 DEF KnownFinished

\* No step loses a completion.
LEMMA FinishedStep == Typed /\ KnownFinished /\ [Next]_vars => KnownFinished'
<1>. DEFINE Rows == \A cp \in At("Finish") : \A i \in DOMAIN scans[cp] :
                       AddsIn(scans[cp][i]) \/ AddsOut(scans[cp][i])
                          => scans[cp][i].person \in Completing
            Read == \A r \in requests :
                       r.step = "recording" /\ r.command.place \in At("Finish") /\ HasRead(r)
                          => r.command.person \in Completing
<1>. SUFFICES ASSUME Typed, KnownFinished, [Next]_vars, failures' = 0
              PROVE  Rows' /\ Read'
  BY DEF KnownFinished, At
<1>0. failures = 0
  BY FailuresGrow
<1>1. Rows /\ Read
  BY <1>0 DEF KnownFinished
<1>2. Completing \subseteq Completing'
  BY CompletingStays
<1>3. ASSUME UNCHANGED scans PROVE Rows'
  BY <1>1, <1>2, <1>3
<1>4. ASSUME \A r \in requests' : r \in requests \/ r.step # "recording" PROVE Read'
  BY <1>1, <1>2, <1>4
<1>5. ASSUME NEW r \in requests, NEW step \in Step, Proceed(r, step), step # "recording"
      PROVE  Read'
  <2>. DEFINE q == [r EXCEPT !.step = step, !.given = {}, !.state = Blank]
  <2>1. q.step = step
    BY ProceedFacts
  <2>2. requests' = (requests \ {r}) \cup {q}
    BY <1>5 DEF Proceed
  <2>. HIDE DEF q, Read
  <2>. QED  BY <1>4, <1>5, <2>1, <2>2
<1>6. "validated" \in Step /\ "started" \in Step /\ "completed" \in Step
  BY DEF Step
<1>. HIDE DEF Rows, Read
<1>7. ASSUME NEW order \in Order, NEW p \in Person, GiveCommand(order, p)
      PROVE  Rows' /\ Read'
  BY <1>3, <1>4, <1>7 DEF GiveCommand
<1>8. ASSUME NEW c \in sent, Invoke(c)
      PROVE  Rows' /\ Read'
  BY <1>3, <1>4, <1>8 DEF Invoke
<1>9. ASSUME NEW r \in requests, Validate(r)
      PROVE  Rows' /\ Read'
  <2>1. Rows'
    BY <1>3, <1>9 DEF Validate
  <2>2. CASE Proceed(r, "validated")
    BY <1>5, <1>6, <2>1, <2>2
  <2>3. CASE End(r)
    BY <1>4, <2>1, <2>3 DEF End
  <2>. QED  BY <1>9, <2>2, <2>3 DEF Validate
<1>10. ASSUME NEW r \in requests, ReadCheckpoint(r)
       PROVE  Rows' /\ Read'
  <2>. DEFINE place == r.command.place
              p == r.command.person
              S == ReadingsAt(place)
              q == [r EXCEPT !.step = "recording", !.state = S]
  <2>1. r \in RequestsUpTo(now) /\ requests' = (requests \ {r}) \cup {q} /\ UNCHANGED scans
    BY <1>10 DEF Typed, ReadCheckpoint
  <2>2. ASSUME place \in At("Finish"), IsRead(S.in, p) \/ IsRead(S.out, p)
        PROVE  p \in Completing
    <3>1. place \in Place
      BY <2>2 DEF At
    <3>2. \E i \in DOMAIN scans[place] : /\ AddsIn(scans[place][i]) \/ AddsOut(scans[place][i])
                                         /\ scans[place][i].person = p
      <4>. HIDE DEF place, p
      <4>. QED  BY <2>2, <3>1, ReadingsAtFacts
    <3>. QED  BY <1>1, <2>2, <3>2 DEF Rows
  <2>. HIDE DEF S
  <2>3. q.command = r.command /\ q.step = "recording" /\ q.state = S
    BY <2>1 DEF RequestsUpTo
  <2>. HIDE DEF q
  <2>4. q.command.place \in At("Finish") /\ HasRead(q) => q.command.person \in Completing'
    BY <1>2, <2>2, <2>3 DEF HasRead
  <2>5. Read'
    BY <1>1, <1>2, <2>1, <2>4 DEF Read
  <2>. QED  BY <1>3, <2>1, <2>5
<1>11. ASSUME NEW r \in requests, Record(r)
       PROVE  Rows' /\ Read'
  <2>. DEFINE place == r.command.place
              p == r.command.person
              events == Operation(r)
  <2>1. now \in Nat /\ r \in RequestsUpTo(now) /\ r.command.kind \notin {"Quit", "RemoveQuit"}
        /\ r.step = "recording"
    BY <1>11, BoundsAssumption DEF Typed, Record
  <2>2. place \in Place /\ \A f : HasRow(events, f) => f.person = p
    BY <2>1, OperationRows
  <2>3. /\ \A cp \in Place : cp # place => scans'[cp] = scans[cp]
        /\ \A f : HasRow(scans'[place], f) <=>
              \/ HasRow(scans[place], f)
              \/ HasRow(events, f) /\ ~ChangesNothing(f)
        /\ \A cp \in Place : DOMAIN scans[cp] = 1 .. Len(scans[cp])
        /\ \A cp \in Place : DOMAIN scans'[cp] = 1 .. Len(scans'[cp])
    BY <1>11, RecordedRows
  <2>4. ASSUME place \in At("Finish"), NEW f, HasRow(events, f)
        PROVE  p \in Completing'
    <3>1. CASE HasRead(r)
      BY <1>1, <1>2, <2>1, <2>4, <3>1 DEF Read
    <3>2. CASE ~HasRead(r)
      <4>1. Announces(events, "AttendeeScannedAtFinishCheckpoint")
        BY <2>1, <2>4, <3>2, FinishOperation
      <4>2. \E q \in requests' : q.command = r.command /\ q.step = "completed"
        BY <1>11, <2>4, <4>1, FinishAnnounced
      <4>. QED  BY <4>2 DEF Completing
    <3>. QED  BY <3>1, <3>2
  <2>. HIDE DEF events, p
  <2>5. ASSUME NEW cp \in At("Finish"), NEW i \in DOMAIN scans'[cp],
               AddsIn(scans'[cp][i]) \/ AddsOut(scans'[cp][i])
        PROVE  scans'[cp][i].person \in Completing'
    <3>. DEFINE f == scans'[cp][i]
    <3>0. cp \in Place
      BY DEF At
    <3>1. CASE cp # place
      BY <1>1, <1>2, <2>3, <2>5, <3>0, <3>1 DEF Rows
    <3>2. CASE cp = place
      <4>1. HasRow(scans'[place], f)
        BY <2>3, <3>0, <3>2 DEF HasRow
      <4>2. CASE HasRow(scans[place], f)
        <5>. HIDE DEF f
        <5>1. f.person \in Completing
          BY <1>1, <2>3, <2>5, <3>0, <3>2, <4>2 DEF HasRow, Rows, f
        <5>. QED  BY <1>2, <5>1 DEF f
      <4>3. CASE HasRow(events, f)
        <5>. HIDE DEF f
        <5>1. f.person = p /\ p \in Completing'
          BY <2>2, <2>4, <3>2, <4>3
        <5>. QED  BY <5>1 DEF f
      <4>. HIDE DEF f
      <4>. QED  BY <2>3, <4>1, <4>2, <4>3
    <3>. QED  BY <3>1, <3>2
  <2>6. Rows'
    BY <2>5 DEF Rows, At
  <2>7. Read'
    BY <1>4, <1>5, <1>6, <1>11 DEF Record, End
  <2>. QED  BY <2>6, <2>7
<1>12. ASSUME NEW r \in requests, Announce(r)
       PROVE  Rows' /\ Read'
  BY <1>3, <1>4, <1>12 DEF Announce, End
<1>13. ASSUME NEW r \in requests, BreakOff(r)
       PROVE  Rows' /\ Read'
  BY <1>3, <1>4, <1>13 DEF BreakOff, End
<1>14. ASSUME UNCHANGED vars PROVE Rows' /\ Read'
  BY <1>3, <1>4, <1>14 DEF vars
<1>. QED  BY <1>7, <1>8, <1>9, <1>10, <1>11, <1>12, <1>13, <1>14 DEF Next, Progress
-----------------------------------------------------------------------------
(* Alone and unbroken, whoever has completed is found at a finish.         *)

\* At first nobody has been at a finish, and nobody has completed.
LEMMA AtFinishInit == Init => KnownAtFinish
<1>. SUFFICES ASSUME Init PROVE KnownAtFinish
  OBVIOUS
<1>1. requests = {}
  BY DEF Init
<1>2. \A cp \in At("Finish") : scans[cp] = <<>>
  BY DEF Init, At
<1>3. \A e \in happening : e.type = "AttendeeStarted"
  BY DEF Init, Row
<1>4. Completed(happening) = {}
  BY <1>3 DEF Completed
<1>. QED  BY <1>1, <1>2, <1>4 DEF KnownAtFinish

\* No scan in at a finish is lost when rows are recorded.
LEMMA ScannedInStays ==
    ASSUME Typed, NEW r \in requests, Record(r), NEW p, ScannedIn(p)
    PROVE  ScannedIn(p)'
<1>1. PICK cp \in At("Finish") : \E i \in DOMAIN scans[cp] :
         scans[cp][i].type = "AttendeeScanIn" /\ scans[cp][i].person = p
  BY DEF ScannedIn
<1>2. PICK i \in DOMAIN scans[cp] :
         scans[cp][i].type = "AttendeeScanIn" /\ scans[cp][i].person = p
  BY <1>1
<1>. DEFINE place == r.command.place
            f == scans[cp][i]
<1>3. /\ \A x \in Place : x # place => scans'[x] = scans[x]
      /\ \A g : HasRow(scans[place], g) => HasRow(scans'[place], g)
      /\ \A x \in Place : DOMAIN scans[x] = 1 .. Len(scans[x])
      /\ \A x \in Place : DOMAIN scans'[x] = 1 .. Len(scans'[x])
  BY RecordedRows
<1>4. cp \in Place
  BY DEF At
<1>5. HasRow(scans[cp], f)
  BY <1>2, <1>3, <1>4 DEF HasRow
<1>. HIDE DEF f, place
<1>6. HasRow(scans'[cp], f)
  BY <1>3, <1>4, <1>5
<1>7. PICK j \in 1 .. Len(scans'[cp]) : scans'[cp][j] = f
  BY <1>6 DEF HasRow
<1>8. f.type = "AttendeeScanIn" /\ f.person = p
  BY <1>2 DEF f
<1>9. j \in DOMAIN scans'[cp] /\ scans'[cp][j].type = "AttendeeScanIn" /\ scans'[cp][j].person = p
  BY <1>3, <1>4, <1>7, <1>8
<1>. QED  BY <1>9 DEF ScannedIn, At

\* A scan that completes a walk leaves its row at the finish.
LEMMA FinishIsScanned ==
    ASSUME Typed, NEW r \in requests, Record(r),
           Announces(Operation(r), "AttendeeScannedAtFinishCheckpoint")
    PROVE  ScannedIn(r.command.person)'
<1>. DEFINE c == r.command
            S == r.state
            place == c.place
            f == Event("AttendeeScanIn", c)
<1>1. now \in Nat /\ r \in RequestsUpTo(now) /\ c.kind \notin {"Quit", "RemoveQuit"}
  BY BoundsAssumption DEF Typed, Record
<1>2. /\ c.kind = "Scan" /\ place \in At("Finish")
      /\ ScanEvent("Finish", S, c) = "AttendeeScanIn"
  BY <1>1, OperationAnnounces
<1>3. HasRow(Operation(r), f)
  <2>. DEFINE type == TypeOf[place]
              events == Operation(r)
  <2>1. IsInfo(c, Person) /\ events \in Seq(EventRow(Person))
    BY <1>1, RequestFacts, OperationRows
  <2>2. events = AddScan(type, S, c)
    BY <1>2 DEF Operation
  <2>3. ScanEvent(type, S, c) = "AttendeeScanIn"
    BY <1>2 DEF At
  <2>. HIDE DEF events, type, c, S, f
  <2>4. HasRow(events, Event(ScanEvent(type, S, c), c))
    BY <2>1, <2>2, AddScanRows
  <2>. QED  BY <2>3, <2>4 DEF events, f
<1>4. f.type = "AttendeeScanIn" /\ f.person = c.person
  BY DEF Event
<1>. HIDE DEF f
<1>5. ~ChangesNothing(f)
  BY <1>4 DEF ChangesNothing, AddsIn
<1>6. place \in Place
  BY <1>2 DEF At
<1>7. HasRow(scans'[place], f) /\ DOMAIN scans'[place] = 1 .. Len(scans'[place])
  BY <1>3, <1>5, <1>6, RecordedRows
<1>8. PICK j \in 1 .. Len(scans'[place]) : scans'[place][j] = f
  BY <1>7 DEF HasRow
<1>9. /\ j \in DOMAIN scans'[place]
      /\ scans'[place][j].type = "AttendeeScanIn" /\ scans'[place][j].person = c.person
  BY <1>4, <1>7, <1>8
<1>. QED  BY <1>2, <1>9 DEF ScannedIn, At

\* The step of KnownAtFinish, which needs that a lone invocation validates what
\* is and that a reading at a finish has been followed by a completion.
LEMMA AtFinishStep ==
    Typed /\ KnownQuit /\ KnownFinished /\ KnownAtFinish /\ [Next]_vars => KnownAtFinish'
<1>. DEFINE OnlyIn == \A cp \in At("Finish") : \A i \in DOMAIN scans[cp] :
                         scans[cp][i].type = "AttendeeScanIn"
            Found == \A p \in Completed(happening) : ScannedIn(p)
            Announced == \A r \in requests : r.step = "completed" => ScannedIn(r.command.person)
            Walking == \A r \in requests :
                          r.step \in {"validated", "recording"}
                            /\ r.command.kind \in {"Scan", "RemoveScan"}
                             => r.command.person \notin Completed(happening)
            Goal == OnlyIn' /\ Found' /\ Announced' /\ Walking'
<1>. SUFFICES ASSUME Typed, KnownQuit, KnownFinished, KnownAtFinish, [Next]_vars,
                     ~overlapped', failures' = 0
              PROVE  Goal
  BY DEF KnownAtFinish, At
<1>0. ~overlapped /\ failures = 0
  <2>1. ~overlapped
    BY DEF Typed, Next, vars, GiveCommand, Invoke, Progress, Validate, ReadCheckpoint,
           Record, Announce, BreakOff
  <2>. QED  BY <2>1, FailuresGrow
<1>1. OnlyIn /\ Found /\ Announced /\ Walking
  BY <1>0 DEF KnownAtFinish
<1>2. /\ \A q, r \in requests : q = r
      /\ \A r \in requests : r.step = "validating" => r.given = happening
  BY <1>0 DEF KnownQuit
<1>3. ASSUME UNCHANGED scans
      PROVE  OnlyIn' /\ \A p : ScannedIn(p) => ScannedIn(p)'
  BY <1>1, <1>3 DEF ScannedIn, At
<1>4. ASSUME NEW r \in requests, NEW step \in Step, Proceed(r, step), UNCHANGED <<scans, happening>>,
             step \notin {"recording", "completed"},
             step = "validated" /\ r.command.kind \in {"Scan", "RemoveScan"}
                => r.command.person \notin Completed(happening)
      PROVE  Goal
  <2>. DEFINE q == [r EXCEPT !.step = step, !.given = {}, !.state = Blank]
  <2>1. q.command = r.command /\ q.step = step
    BY ProceedFacts
  <2>2. requests' = {q}
    BY <1>2, <1>4 DEF Proceed
  <2>3. OnlyIn' /\ Found'
    <3>. HIDE DEF OnlyIn
    <3>. QED  BY <1>1, <1>3, <1>4
  <2>. HIDE DEF q, OnlyIn, Found
  <2>4. Announced' /\ Walking'
    BY <1>4, <2>1, <2>2
  <2>. QED  BY <2>3, <2>4
<1>5. ASSUME UNCHANGED <<requests, scans, happening>> PROVE Goal
  <2>1. OnlyIn' /\ Found' /\ Announced'
    <3>. HIDE DEF OnlyIn
    <3>. QED  BY <1>1, <1>3, <1>5
  <2>2. Walking'
    BY <1>1, <1>5
  <2>. HIDE DEF OnlyIn, Found, Announced, Walking
  <2>. QED  BY <2>1, <2>2
<1>6. ASSUME requests' = {}, UNCHANGED scans,
             \A p \in Completed(happening') : ScannedIn(p)
      PROVE  Goal
  <2>1. OnlyIn' /\ Found'
    <3>. HIDE DEF OnlyIn
    <3>. QED  BY <1>3, <1>6
  <2>2. Announced' /\ Walking'
    BY <1>6
  <2>. HIDE DEF OnlyIn, Found, Announced, Walking
  <2>. QED  BY <2>1, <2>2
<1>. HIDE DEF Goal
<1>7. ASSUME NEW order \in Order, NEW p \in Person, GiveCommand(order, p)
      PROVE  Goal
  BY <1>5, <1>7 DEF GiveCommand
<1>8. ASSUME NEW c \in sent, Invoke(c)
      PROVE  Goal
  <2>. DEFINE q == [command |-> c, step |-> "validating", given |-> happening, state |-> Blank]
  <2>1. requests' = {q} /\ UNCHANGED <<happening, scans>>
    BY <1>8 DEF Invoke
  <2>2. q.step = "validating"
    OBVIOUS
  <2>3. OnlyIn' /\ Found'
    <3>. HIDE DEF OnlyIn
    <3>. QED  BY <1>1, <1>3, <2>1
  <2>. HIDE DEF q, OnlyIn, Found
  <2>4. Announced' /\ Walking'
    BY <2>1, <2>2
  <2>. QED  BY <2>3, <2>4 DEF Goal
<1>9. ASSUME NEW r \in requests, Validate(r)
      PROVE  Goal
  <2>0. r.given = happening /\ UNCHANGED scans
    BY <1>2, <1>9 DEF Validate
  <2>1. CASE Validates(r)
    <3>1. QuitRows(r) = {}
      BY <2>1 DEF Validates, QuitRows
    <3>2. Proceed(r, "validated") /\ UNCHANGED happening
      BY <1>9, <2>1, <3>1 DEF Validate
    <3>3. r.command.kind \in {"Scan", "RemoveScan"} => r.command.person \notin Completed(happening)
      BY <2>0, <2>1 DEF Validates, ValidatesScan, ValidatesRemoveScan, OnTheWay
    <3>4. "validated" \in Step
      BY DEF Step
    <3>. QED  BY <1>4, <2>0, <3>2, <3>3, <3>4
  <2>2. CASE ~Validates(r)
    <3>1. requests' = {} /\ happening' = happening \cup QuitRows(r)
      BY <1>2, <1>9, <2>2 DEF Validate, End
    <3>2. \A f \in QuitRows(r) : f.type # "AttendeeCompleted"
      BY DEF QuitRows, Row
    <3>3. Completed(happening') \subseteq Completed(happening)
      BY <3>1, <3>2 DEF Completed
    <3>4. \A p \in Completed(happening') : ScannedIn(p)
      BY <1>1, <3>3
    <3>. QED  BY <1>6, <2>0, <3>1, <3>4
  <2>. QED  BY <2>1, <2>2
<1>10. ASSUME NEW r \in requests, ReadCheckpoint(r)
       PROVE  Goal
  <2>. DEFINE S == ReadingsAt(r.command.place)
              q == [r EXCEPT !.step = "recording", !.state = S]
  <2>1. r \in RequestsUpTo(now) /\ r.step = "validated"
        /\ requests' = {q} /\ UNCHANGED <<happening, scans>>
    BY <1>2, <1>10 DEF Typed, ReadCheckpoint
  <2>. HIDE DEF S
  <2>2. q.command = r.command /\ q.step = "recording"
    BY <2>1 DEF RequestsUpTo
  <2>3. OnlyIn' /\ Found'
    <3>. HIDE DEF OnlyIn
    <3>. QED  BY <1>1, <1>3, <2>1
  <2>. HIDE DEF q, OnlyIn, Found
  <2>4. Announced' /\ Walking'
    BY <1>1, <2>1, <2>2
  <2>. QED  BY <2>3, <2>4 DEF Goal
<1>11. ASSUME NEW r \in requests, Record(r)
       PROVE  Goal
  <2>. DEFINE place == r.command.place
              p == r.command.person
              events == Operation(r)
  <2>1. /\ now \in Nat /\ r \in RequestsUpTo(now) /\ r.step = "recording"
        /\ r.command.kind \notin {"Quit", "RemoveQuit"} /\ UNCHANGED happening
    BY <1>11, BoundsAssumption DEF Typed, Record
  <2>2. /\ \A cp \in Place : cp # place => scans'[cp] = scans[cp]
        /\ \A f : HasRow(scans'[place], f) <=>
              \/ HasRow(scans[place], f)
              \/ HasRow(events, f) /\ ~ChangesNothing(f)
        /\ \A cp \in Place : DOMAIN scans[cp] = 1 .. Len(scans[cp])
        /\ \A cp \in Place : DOMAIN scans'[cp] = 1 .. Len(scans'[cp])
    BY <1>11, RecordedRows
  <2>3. ASSUME place \in At("Finish") PROVE ~HasRead(r)
    <3>1. r.command.kind \in {"Scan", "RemoveScan"}
      BY <2>1, <2>3, RequestFacts DEF CommandKind, At
    <3>2. p \notin Completed(happening)
      BY <1>1, <2>1, <3>1
    <3>3. \A q \in requests : q.step # "completed"
      BY <1>2, <2>1
    <3>4. p \notin Completing
      BY <3>2, <3>3 DEF Completing
    <3>. QED  BY <1>0, <2>1, <2>3, <3>4 DEF KnownFinished
  <2>4. ASSUME place \in At("Finish"), NEW f, HasRow(events, f)
        PROVE  ChangesNothing(f) \/ f.type = "AttendeeScanIn"
    BY <2>1, <2>3, <2>4, FinishOperation
  <2>. HIDE DEF events, p
  <2>5. ASSUME NEW cp \in At("Finish"), NEW i \in DOMAIN scans'[cp]
        PROVE  scans'[cp][i].type = "AttendeeScanIn"
    <3>. DEFINE f == scans'[cp][i]
    <3>0. cp \in Place
      BY DEF At
    <3>1. CASE cp # place
      BY <1>1, <2>2, <2>5, <3>0, <3>1
    <3>2. CASE cp = place
      <4>1. HasRow(scans'[place], f)
        BY <2>2, <3>0, <3>2 DEF HasRow
      <4>2. CASE HasRow(scans[place], f)
        <5>. HIDE DEF f
        <5>1. f.type = "AttendeeScanIn"
          BY <1>1, <2>2, <3>0, <3>2, <4>2 DEF HasRow
        <5>. QED  BY <5>1 DEF f
      <4>3. CASE HasRow(events, f) /\ ~ChangesNothing(f)
        <5>. HIDE DEF f
        <5>1. f.type = "AttendeeScanIn"
          BY <2>4, <3>2, <4>3
        <5>. QED  BY <5>1 DEF f
      <4>. HIDE DEF f
      <4>4. QED  BY <2>2, <4>1, <4>2, <4>3
    <3>. QED  BY <3>1, <3>2
  <2>6. OnlyIn'
    BY <2>5 DEF At
  <2>7. Found'
    BY <1>1, <1>11, <2>1, ScannedInStays
  <2>8. Announced' /\ Walking'
    <3>1. \A step \in Step : Proceed(r, step) =>
             \A q \in requests' : q.step = step /\ q.command = r.command
      <4>. SUFFICES ASSUME NEW step \in Step, Proceed(r, step)
                    PROVE  \A q \in requests' : q.step = step /\ q.command = r.command
        OBVIOUS
      <4>. DEFINE q == [r EXCEPT !.step = step, !.given = {}, !.state = Blank]
      <4>1. q.command = r.command /\ q.step = step
        BY ProceedFacts
      <4>2. requests' = {q}
        BY <1>2 DEF Proceed
      <4>. QED  BY <4>1, <4>2
    <3>2. "started" \in Step /\ "completed" \in Step
      BY DEF Step
    <3>3. CASE Proceed(r, "started")
      <4>1. \A q \in requests' : q.step = "started"
        BY <3>1, <3>2, <3>3
      <4>. QED  BY <4>1
    <3>4. CASE Announces(events, "AttendeeScannedAtFinishCheckpoint") /\ Proceed(r, "completed")
      <4>1. \A q \in requests' : q.step = "completed" /\ q.command = r.command
        BY <3>1, <3>2, <3>4
      <4>2. ScannedIn(r.command.person)'
        BY <1>11, <3>4, FinishIsScanned DEF events
      <4>3. Announced'
        BY <4>1, <4>2
      <4>4. Walking'
        BY <4>1
      <4>. QED  BY <4>3, <4>4
    <3>5. CASE End(r)
      <4>1. requests' = {}
        BY <1>2, <3>5 DEF End
      <4>. QED  BY <4>1
    <3>. HIDE DEF Announced, Walking
    <3>. QED  BY <1>11, <3>3, <3>4, <3>5 DEF Record, events
  <2>. HIDE DEF OnlyIn, Found, Announced, Walking
  <2>. QED  BY <2>6, <2>7, <2>8 DEF Goal
<1>12. ASSUME NEW r \in requests, Announce(r)
       PROVE  Goal
  <2>. DEFINE p == r.command.person
              type == IF r.step = "started" THEN "AttendeeStarted" ELSE "AttendeeCompleted"
  <2>1. /\ requests' = {} /\ happening' = happening \cup {Row(type, p, 0)}
        /\ UNCHANGED scans /\ r.step \in {"started", "completed"}
    BY <1>2, <1>12 DEF Announce, End
  <2>2. type = "AttendeeCompleted" => ScannedIn(p)
    BY <1>1, <2>1
  <2>. HIDE DEF p, type
  <2>3. /\ Completed(happening') \subseteq Completed(happening) \cup {p}
        /\ type # "AttendeeCompleted" => Completed(happening') \subseteq Completed(happening)
    BY <2>1, OneRowMore
  <2>4. \A q \in Completed(happening') : ScannedIn(q)
    BY <1>1, <2>2, <2>3
  <2>. QED  BY <1>6, <2>1, <2>4
<1>13. ASSUME NEW r \in requests, BreakOff(r)
       PROVE  Goal
  BY <1>0, <1>13 DEF BreakOff
<1>14. ASSUME UNCHANGED vars PROVE Goal
  BY <1>5, <1>14 DEF vars
<1>. QED  BY <1>7, <1>8, <1>9, <1>10, <1>11, <1>12, <1>13, <1>14 DEF Next, Progress

-----------------------------------------------------------------------------
(* The theorems.                                                           *)

\* The invariant holds throughout, whatever overlaps or breaks off.
LEMMA InvariantHolds == Spec => []IInv
<1>1. Init => IInv
  BY TypedInit, StartedInit, QuitInit, FinishedInit, AtFinishInit DEF IInv
<1>2. IInv /\ [Next]_vars => IInv'
  BY TypedStep, StartedStep, QuitStep, FinishedStep, AtFinishStep DEF IInv
<1>. QED  BY <1>1, <1>2, PTL DEF Spec

\* The rows, commands and invocations of a walk keep their types, and no two
\* invocations are of the same command.
THEOREM TypeIsCorrect == Spec => []TypeOK
<1>1. IInv => TypeOK
  <2>. SUFFICES ASSUME Typed PROVE TypeOK
    BY DEF IInv
  <2>1. now \in Nat
    BY BoundsAssumption DEF Typed
  <2>2. \A c \in sent : c.at \in 1 .. now
    BY DEF Typed, CommandsUpTo
  <2>3. \A r \in requests : r.step \in Step /\ r.command \notin sent
    BY <2>1, RequestFacts DEF Typed
  <2>4. \A e \in happening : e.person \in Person
    BY DEF Typed, HappeningRow
  <2>. QED  BY <2>2, <2>3, <2>4 DEF Typed, TypeOK
<1>. QED  BY <1>1, InvariantHolds, PTL

\* Nobody has a scan after the start before the happening knows that they have
\* started: ValidateScan saw the row, and the rows of a happening stay.
THEOREM NobodyIsScannedBeforeTheStart == Spec => []ScannedAfterStart
<1>1. IInv => ScannedAfterStart
  BY DEF IInv, KnownStarted
<1>. QED  BY <1>1, InvariantHolds, PTL

\* Nobody both quits and completes, as long as no two invocations of the hub
\* overlap: what one has validated is still so when it records.
THEOREM NobodyQuitsAndCompletes == Spec => []SerialQuitOrCompleted
<1>1. IInv => SerialQuitOrCompleted
  BY DEF IInv, KnownQuit, SerialQuitOrCompleted
<1>. QED  BY <1>1, InvariantHolds, PTL

\* Only an invocation that breaks off loses a completion: every reading at a
\* finish, or an invocation on its way, makes AttendeeCompleted.
THEOREM ReadingsCompleteTheWalk == Spec => []NoCompletionLost
<1>1. IInv => NoCompletionLost
  <2>. SUFFICES ASSUME Typed, KnownFinished, failures = 0,
                       NEW cp \in At("Finish"), NEW p \in Person, HasReading(cp, p)
                PROVE  \/ p \in Completed(happening)
                       \/ \E r \in requests : r.command.person = p /\ r.step = "completed"
    BY DEF IInv, NoCompletionLost
  <2>1. cp \in Place
    BY DEF At
  <2>2. \E i \in DOMAIN scans[cp] : /\ AddsIn(scans[cp][i]) \/ AddsOut(scans[cp][i])
                                    /\ scans[cp][i].person = p
    BY <2>1, ReadingsAtFacts DEF HasReading
  <2>3. p \in Completing
    BY <2>2 DEF KnownFinished
  <2>. QED  BY <2>3 DEF Completing
<1>. QED  BY <1>1, InvariantHolds, PTL

\* Where only scans in have been stored, the replay throws nowhere and reads
\* every one of them.
LEMMA ScansInAreRead ==
    ASSUME NEW P, NEW rows \in Seq(EventRow(P)),
           \A i \in 1 .. Len(rows) : rows[i].type = "AttendeeScanIn",
           NEW i \in 1 .. Len(rows)
    PROVE  LET states == States(rows) IN IsRead(states[Len(states)].in, rows[i].person)
<1>. DEFINE states == States(rows)
            n == Len(states)
            q == rows[i].person
<1>1. IsReplay(states, P, rows)
  BY StatesReplay
<1>. HIDE DEF states
<1>2. \A S : \A j \in 1 .. Len(rows) : ~Throws(S, rows[j])
  BY DEF Throws, ChangesIn, ChangesOut
<1>3. Len(rows) \in Nat /\ n = Len(rows) + 1 /\ n \in 1 .. n
  <2>. DEFINE N == Len(rows)
  <2>1. /\ n \in 1 .. N + 1 /\ N \in Nat
        /\ n <= N => Throws(states[n], rows[n])
    BY <1>1 DEF IsReplay
  <2>. HIDE DEF n, N
  <2>2. ~(n <= N)
    <3>1. n <= N => n \in 1 .. N
      BY <2>1
    <3>2. \A j \in 1 .. N : ~Throws(states[n], rows[j])
      BY <1>2 DEF N
    <3>. QED  BY <2>1, <3>1, <3>2
  <2>3. n = N + 1 /\ n \in 1 .. n
    BY <2>1, <2>2
  <2>. QED  BY <2>1, <2>3 DEF N
<1>4. IsRead(states[n].in, q) <=> InBy(rows, n - 1, q)
  BY <1>1, <1>3, ReplayedReadings
<1>5. InBy(rows, Len(rows), q)
  BY DEF InBy, AddsIn, RemovesIn
<1>6. n - 1 = Len(rows)
  <2>. HIDE DEF n
  <2>. QED  BY <1>3
<1>7. IsRead(states[n].in, q)
  <2>. HIDE DEF n, q
  <2>. QED  BY <1>4, <1>5, <1>6
<1>. QED  BY <1>7 DEF states

\* Whoever has completed keeps a reading at a finish, as long as invocations
\* neither overlap nor break off: a scan is not removed once it has completed
\* the walk, because ValidateRemoveScan sees the completion.
THEOREM CompletedIsReadAtFinish == Spec => []SerialCompletedAtFinish
<1>1. IInv => SerialCompletedAtFinish
  <2>. SUFFICES ASSUME Typed, KnownAtFinish, ~overlapped, failures = 0,
                       NEW p \in Completed(happening)
                PROVE  \E cp \in At("Finish") : IsRead(ReadingsAt(cp).in, p)
    BY DEF IInv, SerialCompletedAtFinish
  <2>1. ScannedIn(p)
    BY DEF KnownAtFinish
  <2>2. PICK cp \in At("Finish") : \E i \in DOMAIN scans[cp] :
           scans[cp][i].type = "AttendeeScanIn" /\ scans[cp][i].person = p
    BY <2>1 DEF ScannedIn
  <2>. DEFINE rows == scans[cp]
  <2>3. rows \in Seq(EventRow(Person)) /\ DOMAIN rows = 1 .. Len(rows)
    BY DEF Typed, SortedRows, At
  <2>4. \A i \in 1 .. Len(rows) : rows[i].type = "AttendeeScanIn"
    BY <2>3 DEF KnownAtFinish
  <2>5. \E i \in 1 .. Len(rows) : rows[i].person = p
    BY <2>2, <2>3
  <2>. HIDE DEF rows
  <2>6. LET states == States(rows) IN IsRead(states[Len(states)].in, p)
    BY <2>3, <2>4, <2>5, ScansInAreRead
  <2>. QED  BY <2>6 DEF rows, ReadingsAt
<1>. QED  BY <1>1, InvariantHolds, PTL


=============================================================================
