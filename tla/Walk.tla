--------------------------------- MODULE Walk ---------------------------------
(***************************************************************************)
(* A walker's way through a happening: the saga that runs, inside one      *)
(* invocation of the hub, from a command over the happening that validates *)
(* it and the checkpoint that records it back to the happening, each with  *)
(* an event stream of its own:                                             *)
(*                                                                         *)
(*   StartScan, Scan -> ScanValidated -> Checkpoint.AddScan                *)
(*      -> AttendeeScannedAtStartCheckpoint  -> AttendeeStarted            *)
(*      -> AttendeeScannedAtFinishCheckpoint -> AttendeeCompleted          *)
(*   RemoveScan -> RemoveScanValidated -> Checkpoint.RemoveScan            *)
(*   Quit -> AttendeeQuit, RemoveQuit -> AttendeeQuitRemoved               *)
(*                                                                         *)
(* An invocation may break off between two steps: the server dies, the     *)
(* storage fails, or a handler of an event throws, which keeps the topic   *)
(* from the events after it.  Nobody resumes the saga; the client sends    *)
(* the whole command again (CommandDelivery).                              *)
(***************************************************************************)
EXTENDS Checkpoint, Happening, FiniteSets

CONSTANTS
    Person,      \* the walkers
    TypeOf,      \* TypeOf[cp]: the type of checkpoint cp
    MaxCommands, \* bound: the commands that are given
    MaxFailures  \* bound: how often an invocation breaks off

Place == DOMAIN TypeOf

ASSUME PersonAssumption == IsFiniteSet(Person)

ASSUME TypeOfAssumption == \A cp \in Place : TypeOf[cp] \in CheckpointType

ASSUME BoundsAssumption == MaxCommands \in Nat /\ MaxFailures \in Nat

VARIABLES
    now,        \* how many commands have been given; the last one's timestamp
    sent,       \* the commands that wait for an invocation
    requests,   \* the invocations, each with its step and what it has read
    happening,  \* the rows of the happening's stream
    scans,      \* scans[cp]: the rows of checkpoint cp's stream
    overlapped, \* history: two invocations were under way
    failures    \* how often an invocation has broken off

vars == <<now, sent, requests, happening, scans, overlapped, failures>>

At(type) == {cp \in Place : TypeOf[cp] = type}

\* The start is scanned by StartScan, every other checkpoint by Scan. Where a
\* walker quits is of no consequence here.
Order ==
    [kind : {"StartScan"}, place : At("Start")]
      \cup [kind : {"Scan"}, place : Place \ At("Start")]
      \cup [kind : {"RemoveScan"}, place : Place]
      \cup [kind : {"Quit", "RemoveQuit"}, place : {"anywhere"}]

Step == {"validating", "validated", "recording", "started", "completed"}

\* Some may have started before: they have been scanned at the start, at 0.
StartRow(p) == [type |-> "AttendeeScanOut", person |-> p, at |-> 0, time |-> 0]

Init ==
    /\ now = 0
    /\ sent = {}
    /\ requests = {}
    /\ \E n \in 0 .. Cardinality(Person) : \E early \in [1 .. n -> Person] :
          /\ happening = {Row("AttendeeStarted", early[i], 0) : i \in 1 .. n}
          /\ scans = [cp \in Place |->
                        IF TypeOf[cp] = "Start" THEN [i \in 1 .. n |-> StartRow(early[i])]
                                                ELSE <<>>]
    /\ overlapped = FALSE
    /\ failures = 0

-----------------------------------------------------------------------------
(* The client.                                                             *)

GiveCommand(order, p) ==
    /\ now < MaxCommands
    /\ now' = now + 1
    /\ sent' = sent \cup {[kind |-> order.kind, place |-> order.place,
                           person |-> p, at |-> now', time |-> now']}
    /\ UNCHANGED <<requests, happening, scans, overlapped, failures>>

-----------------------------------------------------------------------------
(* The invocation: every step ends where another's may come between.       *)

\* The happening's stream is read.
Invoke(c) ==
    /\ c \in sent
    /\ sent' = sent \ {c}
    /\ requests' = requests \cup
         {[command |-> c, step |-> "validating", given |-> happening, state |-> Blank]}
    /\ overlapped' = (overlapped \/ requests # {})
    /\ UNCHANGED <<now, happening, scans, failures>>

End(r) == requests' = requests \ {r}

Proceed(r, step) ==
    requests' = (requests \ {r}) \cup {[r EXCEPT !.step = step, !.given = {}, !.state = Blank]}

\* The happening lets the command go on to its checkpoint.
Validates(r) ==
    LET p == r.command.person
    IN  CASE r.command.kind = "StartScan"  -> ValidatesStartScan(r.given, p)
          [] r.command.kind = "Scan"       -> ValidatesScan(r.given, p)
          [] r.command.kind = "RemoveScan" -> ValidatesRemoveScan(r.given, p)
          [] OTHER                         -> FALSE

\* What the happening records of the command itself.
QuitRows(r) ==
    LET p == r.command.person
    IN  CASE r.command.kind = "Quit" /\ Quits(r.given, p) ->
               {Row("AttendeeQuit", p, r.command.at)}
          [] r.command.kind = "RemoveQuit" /\ RemovesQuit(r.given, p) ->
               {Row("AttendeeQuitRemoved", p, r.command.at)}
          [] OTHER -> {}

Validate(r) ==
    /\ r.step = "validating"
    /\ happening' = happening \cup QuitRows(r)
    /\ IF Validates(r) THEN Proceed(r, "validated") ELSE End(r)
    /\ UNCHANGED <<now, sent, scans, overlapped, failures>>

\* The readings of a checkpoint, as whoever reads its stream now finds them.
ReadingsAt(cp) == LET states == States(scans[cp]) IN states[Len(states)]

\* ScanValidated and RemoveScanValidated: the checkpoint's stream is read.
ReadCheckpoint(r) ==
    /\ r.step = "validated"
    /\ requests' = (requests \ {r}) \cup
         {[r EXCEPT !.step = "recording", !.state = ReadingsAt(r.command.place)]}
    /\ UNCHANGED <<now, sent, happening, scans, overlapped, failures>>

Operation(r) ==
    LET type == TypeOf[r.command.place]
    IN  IF r.command.kind = "RemoveScan" THEN RemoveScan(type, r.state, r.command)
                                         ELSE AddScan(type, r.state, r.command)

Announces(events, type) == \E i \in DOMAIN events : events[i].type = type

\* The checkpoint's events are stored, then published one after the other.
Record(r) ==
    /\ r.step = "recording"
    /\ LET events == Operation(r)
       IN  /\ scans' = [scans EXCEPT ![r.command.place] = AllStored(@, events)]
           /\ \/ /\ Announces(events, "AttendeeScannedAtStartCheckpoint")
                 /\ Proceed(r, "started")
              \/ /\ Announces(events, "AttendeeScannedAtFinishCheckpoint")
                 /\ Proceed(r, "completed")
              \/ /\ ~Announces(events, "AttendeeScannedAtStartCheckpoint")
                 /\ ~Announces(events, "AttendeeScannedAtFinishCheckpoint")
                 /\ End(r)
    /\ UNCHANGED <<now, sent, happening, overlapped, failures>>

\* AttendeeStarted, AttendeeCompleted: once more changes nothing, so that it
\* does not matter whether the row was there when the stream was read.
Announce(r) ==
    /\ r.step \in {"started", "completed"}
    /\ happening' = happening \cup
         {Row(IF r.step = "started" THEN "AttendeeStarted" ELSE "AttendeeCompleted",
              r.command.person, 0)}
    /\ End(r)
    /\ UNCHANGED <<now, sent, scans, overlapped, failures>>

\* What has been stored stays; the client sends the command again.
BreakOff(r) ==
    /\ failures < MaxFailures
    /\ failures' = failures + 1
    /\ End(r)
    /\ sent' = sent \cup {r.command}
    /\ UNCHANGED <<now, happening, scans, overlapped>>

Progress(r) == Validate(r) \/ ReadCheckpoint(r) \/ Record(r) \/ Announce(r)

Next ==
    \/ \E order \in Order, p \in Person : GiveCommand(order, p)
    \/ \E c \in sent : Invoke(c)
    \/ \E r \in requests : Progress(r) \/ BreakOff(r)

Spec == Init /\ [][Next]_vars

\* A command that was given at time t is sent until it has been executed, and
\* what the server has begun it goes on with.
Fairness ==
    \A t \in 1 .. MaxCommands :
        /\ WF_vars(\E c \in sent : c.at = t /\ Invoke(c))
        /\ WF_vars(\E r \in requests : r.command.at = t /\ Progress(r))

FairSpec == Spec /\ Fairness

-----------------------------------------------------------------------------
(* Properties.                                                             *)

HasReading(cp, p) ==
    IsRead(ReadingsAt(cp).in, p) \/ IsRead(ReadingsAt(cp).out, p)

\* A row of the happening belongs to a walker, a command is in one place, and
\* an invocation is of a command that was given.
TypeOK ==
    /\ now \in 0 .. MaxCommands
    /\ \A c \in sent : c.at \in 1 .. now
    /\ \A r \in requests : r.step \in Step /\ r.command \notin sent
    /\ \A q, r \in requests : q.command = r.command => q = r
    /\ \A e \in happening : e.person \in Person
    /\ overlapped \in BOOLEAN
    /\ failures \in 0 .. MaxFailures

\* Nobody has a scan at any checkpoint after the start before the happening
\* knows that they have started, whatever overlaps, comes late or breaks off.
ScannedAfterStart ==
    \A cp \in Place \ At("Start") : \A i \in DOMAIN scans[cp] :
        scans[cp][i].person \in Started(happening)

\* "User either quit or completed" (Happening.ValidateScan): nobody does both,
\* as long as invocations do not overlap.
SerialQuitOrCompleted ==
    ~overlapped => Quitters(happening) \cap Completed(happening) = {}

\* Whoever has completed keeps a reading at a finish, as long as invocations
\* neither overlap nor break off.
SerialCompletedAtFinish ==
    ~overlapped /\ failures = 0 =>
        \A p \in Completed(happening) :
            \E cp \in At("Finish") : IsRead(ReadingsAt(cp).in, p)

\* A reading at a finish completes the walk, or an invocation is about to see
\* to it: no order of the commands and no overlap loses this, only an
\* invocation that breaks off does.
NoCompletionLost ==
    failures = 0 =>
        \A cp \in At("Finish") : \A p \in Person :
            HasReading(cp, p) =>
                \/ p \in Completed(happening)
                \/ \E r \in requests : r.command.person = p /\ r.step = "completed"

\* Whoever has been scanned at the start is at last known to have started, even
\* when the invocation breaks off: the scan is made again, as a further reading.
EventuallyStarted ==
    \A p \in Person : \A cp \in At("Start") :
        HasReading(cp, p) ~> p \in Started(happening)

=============================================================================
