--------------------------- MODULE CheckpointScans ---------------------------
(***************************************************************************)
(* Scans, removals and time changes as they reach one checkpoint.  Every   *)
(* command is stamped by the client when it is given, and arrives later,   *)
(* in any order: it may have waited in the outbox of a telephone without a *)
(* network.  A request reads the checkpoint's stream, runs an operation of *)
(* the aggregate (Checkpoint) and appends its events.  The stream is       *)
(* replayed in the order of the events' timestamps, which for scans and    *)
(* removals is that of the client, and for changes of time the server's:   *)
(* a late event takes a place among those that are there.                  *)
(***************************************************************************)
EXTENDS Checkpoint, FiniteSets

CONSTANTS
    Person,      \* those who are scanned
    TypedTime,   \* the times users type
    MaxCommands  \* bound: the commands that are given

ASSUME TypedTimeAssumption == TypedTime \in SUBSET Nat

ASSUME MaxCommandsAssumption == MaxCommands \in Nat

VARIABLES
    type,       \* the checkpoint's type
    now,        \* the clock of the clients and the server
    commands,   \* how many commands have been given
    stream,     \* the rows a replay does something with, in its order
    sent,       \* the commands under way, none with another's timestamp
    requests,   \* those the server executes, each with the rows it has read
    overlapped, \* history: two requests have been between read and append
    late,       \* history: a removal took a place before rows already there
    refused     \* history: an out reading was refused that is not before
                \* the time the in reading is shown with

vars == <<type, now, commands, stream, sent, requests, overlapped, late, refused>>

Kind == {"Scan", "RemoveScan"} \cup ScanTimeType

Command == [kind : Kind, person : Person, at : 1 .. now, time : Nat]

Init ==
    /\ type \in CheckpointType
    /\ now = 0
    /\ commands = 0
    /\ stream = <<>>
    /\ sent = {}
    /\ requests = {}
    /\ overlapped = FALSE
    /\ late = FALSE
    /\ refused = FALSE

-----------------------------------------------------------------------------
(* A client gives a command, some time after the one before.               *)

Give(kind, p, delay, time) ==
    /\ commands < MaxCommands
    /\ commands' = commands + 1
    /\ now' = now + delay
    /\ sent' = sent \cup {[kind |-> kind, person |-> p, at |-> now', time |-> time]}
    /\ UNCHANGED <<type, stream, requests, overlapped, late, refused>>

\* The time is what the user typed or, for a scan, the command's timestamp. A
\* removal carries no other time than its timestamp.
GiveCommand ==
    \E kind \in Kind, p \in Person, delay \in {1, DoubleReadingThreshold} :
        \E time \in CASE kind = "Scan" -> TypedTime \cup {now + delay}
                      [] kind = "RemoveScan" -> {now + delay}
                      [] OTHER -> TypedTime :
            Give(kind, p, delay, time)

-----------------------------------------------------------------------------
(* The server executes it.                                                 *)

Read(c) ==
    /\ c \in sent
    /\ sent' = sent \ {c}
    /\ requests' = requests \cup {[command |-> c, given |-> stream]}
    /\ overlapped' = (overlapped \/ requests # {})
    /\ UNCHANGED <<type, now, commands, stream, late, refused>>

Operation(S, c) ==
    CASE c.kind = "Scan"       -> AddScan(type, S, c)
      [] c.kind = "RemoveScan" -> RemoveScan(type, S, c)
      [] OTHER                 -> ChangeScanTime(type, S, c, c.kind)

\* Mutant: a change of time is stamped by the client, as scans are.
StampedByClient(events) == events

\* The constructor of the changes of time takes the server's clock.
Stamped(events) ==
    [i \in DOMAIN events |-> IF ChangesIn(events[i]) \/ ChangesOut(events[i])
                               THEN [events[i] EXCEPT !.at = now'] ELSE events[i]]

IsRemoval(e) == RemovesIn(e) \/ RemovesOut(e)

\* The operation's own Apply may throw as well: its events are dropped.
AppendEvents(c, S, events) ==
    /\ stream' = IF \E i \in DOMAIN events : Throws(S, events[i])
                   THEN stream ELSE AllStored(stream, Stamped(events))
    /\ late' = (late \/ \E i \in DOMAIN events, j \in DOMAIN stream :
                           IsRemoval(events[i]) /\ stream[j].at > events[i].at)
    /\ refused' = (refused \/
                     /\ c.kind = "Scan"
                     /\ \E i \in DOMAIN events :
                           events[i].type = "AttendeeScanOutPreceedsScanIn"
                     /\ FirstReading(S.in, c.person).shown <= c.time)

\* Replay, operation and append. A stream that cannot be replayed refuses all.
Execute(r) ==
    /\ now' = IF r.command.kind \in ScanTimeType THEN now + 1 ELSE now
    /\ LET states == States(r.given)
           S == states[Len(states)]
       IN  IF Len(states) = Len(r.given) + 1
             THEN AppendEvents(r.command, S, Operation(S, r.command))
             ELSE UNCHANGED <<stream, late, refused>>
    /\ requests' = requests \ {r}
    /\ UNCHANGED <<type, commands, sent, overlapped>>

Next ==
    \/ GiveCommand
    \/ \E c \in sent : Read(c)
    \/ \E r \in requests : Execute(r)

Spec == Init /\ [][Next]_vars

-----------------------------------------------------------------------------
(* Properties.                                                             *)

\* Types; and the rows are in the order of their timestamps.
TypeOK ==
    /\ type \in CheckpointType
    /\ now \in Nat
    /\ commands \in 0 .. MaxCommands
    /\ sent \in SUBSET Command
    /\ \A r \in requests : r.command \in Command
    /\ overlapped \in BOOLEAN /\ late \in BOOLEAN /\ refused \in BOOLEAN
    /\ \A i \in DOMAIN stream : stream[i].person \in Person /\ stream[i].at \in 1 .. now
    /\ \A i, j \in DOMAIN stream : i <= j => stream[i].at <= stream[j].at

\* A property of the state that a stream that can be replayed stands for.
OnReplay(P(_)) ==
    LET states == States(stream)
    IN  Len(states) = Len(stream) + 1 => P(states[Len(states)])

Times(list, p) == Cardinality(Readings(list, p))

\* As long as requests do not overlap, nobody has two in or two out readings at
\* a checkpoint, however late and in whatever order scans and removals arrive.
SerialOneReading ==
    ~overlapped /\ type # "Start" =>
        OnReplay(LAMBDA S : \A p \in Person : Times(S.in, p) <= 1 /\ Times(S.out, p) <= 1)

\* ... and nobody leaves before they came, by the times that the aggregate keeps: those
\* of the commands, until a time is changed, whatever else was typed for the scans.
SerialOutAfterIn ==
    ~overlapped =>
        OnReplay(LAMBDA S : \A p \in Person :
            IsRead(S.in, p) /\ IsRead(S.out, p) =>
                FirstReading(S.in, p).at <= FirstReading(S.out, p).at)

\* ... nor by the time that was typed for the out reading, until somebody changes that of
\* the in reading: it is compared with the command of the latter, and with nothing else,
\* so that it may well be before the time typed for the in reading.
SerialTypedOutAfterIn ==
    ~overlapped /\ type # "Passthrough" =>
        OnReplay(LAMBDA S : \A p \in Person :
            /\ IsRead(S.in, p) /\ IsRead(S.out, p)
            /\ \A i \in DOMAIN stream : stream[i].person = p => ~ChangesIn(stream[i])
            => FirstReading(S.in, p).at <= FirstReading(S.out, p).shown)

\* A passthrough has as many in readings of a person as out readings, even
\* when requests overlap and rows take their places late.
PassthroughInStep ==
    type = "Passthrough" =>
        OnReplay(LAMBDA S : \A p \in Person : Times(S.in, p) = Times(S.out, p))

\* Only a removal that arrives late, or requests that overlap, leave a stream
\* that no request can replay: a time changed before its scan was made.
StreamReplays == ~overlapped /\ ~late => Replays(stream)

\* "Check that this out reading is not before in reading" (Checkpoint.AddScan):
\* none is refused that is not before the time the in reading was given.
OutRefusedOnlyBeforeIn == ~refused

=============================================================================
