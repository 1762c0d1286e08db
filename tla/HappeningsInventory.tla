------------------------- MODULE HappeningsInventory -------------------------
(***************************************************************************)
(* The list of happenings: aggregate HappeningsInventory, the single event *)
(* stream HappeningsInventory-root it is rebuilt from, and the requests    *)
(* that AggregateRepository.Execute runs against it.                       *)
(*                                                                         *)
(* A request reads the stream, replays it one event at a time into a fresh *)
(* state, runs one operation of the aggregate, and appends the events the  *)
(* operation collected as one table batch.  Nothing orders two requests:   *)
(* every hub invocation and every event handler runs on its own thread and *)
(* the append checks no version, so reads and appends of different         *)
(* requests interleave freely.                                             *)
(***************************************************************************)
EXTENDS Naturals, FiniteSets

CONSTANTS
    Request,        \* the concurrent executions against the root stream
    Key,            \* happening keys, as they are typed
    Fold,           \* Fold[k]: k without its case (OrdinalIgnoreCase)
    InitialStreams, \* the root streams earlier requests may have left
    InitialClock    \* a time after every event of those streams

EventType == {"HappeningInventoryItemCreated", "HappeningSetAsDefault",
              "HappeningDeleted", "HappeningStarted",
              "PersonUnlinkFailed", "PersonUnlinkValidated"}

\* A stored event. "at" is EventTimestamp, the server's clock when the event
\* was constructed; isDefault is used by HappeningInventoryItemCreated only.
Event == [type : EventType, key : Key, isDefault : BOOLEAN, at : Nat]

OperationKind == {"Create", "ChangeDefault", "Delete", "Start",
                  "ValidatePersonUnlink"}

Operation == {o \in [kind : OperationKind, key : Key, isDefault : BOOLEAN] :
                o.isDefault => o.kind = "Create"}

NoOperation == [kind |-> "none"]

\* A row of State.Happenings. The list order is the order of creation, which
\* "at", the time of the creating event, keeps.
HappeningInfo == [key : Key, isDefault : BOOLEAN, started : BOOLEAN, at : Nat]

SameKey(a, b) == Fold[a] = Fold[b]

IsCreated(e) == e.type = "HappeningInventoryItemCreated"

\* What every stream satisfies: its events are in the past, a key is created
\* by at most one row (the key is the RowKey of the creation), and a deletion
\* never carries the timestamp of a creation.
Consistent(S, now) ==
    /\ \A e \in S : e.at <= now
    /\ \A c, d \in S : IsCreated(c) /\ IsCreated(d) /\ c.key = d.key => c = d
    /\ \A c, d \in S : IsCreated(c) /\ d.type = "HappeningDeleted"
                          => c.at # d.at

ASSUME FoldAssumption == DOMAIN Fold = Key

ASSUME InitialClockAssumption == InitialClock \in Nat

ASSUME InitialStreamsAssumption ==
    \A S \in InitialStreams : S \in SUBSET Event /\ Consistent(S, InitialClock)

VARIABLES
    stream,     \* rows of partition HappeningsInventory-root
    clock,      \* DateTimeOffset.UtcNow of the last event constructed
    phase,      \* phase[r]: how far request r has come
    operation,  \* operation[r]: the aggregate operation r executes
    given,      \* given[r]: the events r read
    todo,       \* todo[r]: those it has not replayed yet
    happenings, \* happenings[r]: State.Happenings of r's aggregate
    thenEvents, \* thenEvents[r]: the events r's operation collected
    raced       \* history: two requests have overlapped

vars == <<stream, clock, phase, operation, given, todo, happenings,
          thenEvents, raced>>

Phase == {"idle", "replaying", "executed", "appended", "nothing",
          "refused", "conflict", "poisoned"}

Init ==
    /\ stream \in InitialStreams
    /\ clock = InitialClock
    /\ phase = [r \in Request |-> "idle"]
    /\ operation = [r \in Request |-> NoOperation]
    /\ given = [r \in Request |-> {}]
    /\ todo = [r \in Request |-> {}]
    /\ happenings = [r \in Request |-> {}]
    /\ thenEvents = [r \in Request |-> {}]
    /\ raced = FALSE

-----------------------------------------------------------------------------
(* HappeningsInventoryState: looking rows up and applying events.          *)

Earliest(L) == CHOOSE h \in L : \A g \in L : h.at <= g.at

Latest(L) == CHOOSE h \in L : \A g \in L : g.at <= h.at

\* GetHappening compares keys ignoring case ...
Matching(L, k) == {h \in L : SameKey(h.key, k)}

\* ... but the Find of When(HappeningSetAsDefault) compares them exactly.
Exactly(L, k) == {h \in L : h.key = k}

MarkAllAsNotDefault(L) == {[h EXCEPT !.isDefault = FALSE] : h \in L}

\* When(e) dereferences the row e is about: null (Find) or an exception
\* (First) when there is none.
Throws(L, e) ==
    \/ e.type = "HappeningSetAsDefault" /\ Exactly(L, e.key) = {}
    \/ e.type = "HappeningStarted" /\ Matching(L, e.key) = {}

\* Mutant: a new default does not replace the old one.
WhenCreatedKeepsDefaults(L, e) ==
    L \cup {[key |-> e.key, isDefault |-> e.isDefault, started |-> FALSE,
             at |-> e.at]}

WhenCreated(L, e) ==
    (IF e.isDefault THEN MarkAllAsNotDefault(L) ELSE L)
      \cup {[key |-> e.key, isDefault |-> e.isDefault, started |-> FALSE,
             at |-> e.at]}

WhenSetAsDefault(L, e) ==
    {[h EXCEPT !.isDefault = (h = Earliest(Exactly(L, e.key)))] : h \in L}

WhenDeleted(L, e) == L \ Matching(L, e.key)

WhenStarted(L, e) ==
    {IF h = Earliest(Matching(L, e.key)) THEN [h EXCEPT !.started = TRUE]
                                         ELSE h : h \in L}

Applied(L, e) ==
    CASE e.type = "HappeningInventoryItemCreated" -> WhenCreated(L, e)
      [] e.type = "HappeningSetAsDefault"         -> WhenSetAsDefault(L, e)
      [] e.type = "HappeningDeleted"              -> WhenDeleted(L, e)
      [] e.type = "HappeningStarted"              -> WhenStarted(L, e)
      [] OTHER                                    -> L

-----------------------------------------------------------------------------
(* AggregateRepository.Execute: read, replay, (operation), append.         *)

\* From its read to its append a request may act on a stream that changes.
Running(r) == phase[r] \in {"replaying", "executed"}

Read(r, o) ==
    /\ phase[r] = "idle"
    /\ phase' = [phase EXCEPT ![r] = "replaying"]
    /\ operation' = [operation EXCEPT ![r] = o]
    /\ given' = [given EXCEPT ![r] = stream]
    /\ todo' = [todo EXCEPT ![r] = stream]
    /\ raced' = (raced \/ \E q \in Request : Running(q))
    /\ UNCHANGED <<stream, clock, happenings, thenEvents>>

\* Mutant: the rows are replayed as the table returns them, in any order.
ReplayUnordered(r) ==
    /\ phase[r] = "replaying"
    /\ \E e \in todo[r] :
         IF Throws(happenings[r], e)
           THEN /\ phase' = [phase EXCEPT ![r] = "poisoned"]
                /\ UNCHANGED <<happenings, todo>>
           ELSE /\ happenings' = [happenings EXCEPT ![r] = Applied(@, e)]
                /\ todo' = [todo EXCEPT ![r] = @ \ {e}]
                /\ UNCHANGED phase
    /\ UNCHANGED <<stream, clock, operation, given, thenEvents, raced>>

\* One turn of "foreach (var e in given) state.Apply(e)", in EventTimestamp
\* order; rows with equal timestamps come in the order of their random ids.
ReplayEvent(r) ==
    /\ phase[r] = "replaying"
    /\ \E e \in todo[r] :
         /\ \A f \in todo[r] : e.at <= f.at
         /\ IF Throws(happenings[r], e)
              THEN /\ phase' = [phase EXCEPT ![r] = "poisoned"]
                   /\ UNCHANGED <<happenings, todo>>
              ELSE /\ happenings' = [happenings EXCEPT ![r] = Applied(@, e)]
                   /\ todo' = [todo EXCEPT ![r] = @ \ {e}]
                   /\ UNCHANGED phase
    /\ UNCHANGED <<stream, clock, operation, given, thenEvents, raced>>

\* Mutant: creations get a random id, as the other events do.
RowKeyNeverTaken(r) == FALSE

RowKeyTaken(r) ==
    \E e \in thenEvents[r], s \in stream :
        IsCreated(e) /\ IsCreated(s) /\ e.key = s.key

\* Mutant: the batch replaces the rows of the partition.
AppendOverwrites(r) ==
    /\ phase[r] = "executed"
    /\ phase' = [phase EXCEPT ![r] = "appended"]
    /\ stream' = thenEvents[r]
    /\ UNCHANGED <<clock, operation, given, todo, happenings, thenEvents, raced>>

\* The batch insert is one transaction of the event table: all rows, or, when
\* a RowKey is taken, none. An empty batch is refused before it is sent, and
\* the request ends without an event.
AppendEvents(r) ==
    /\ phase[r] = "executed"
    /\ \/ /\ thenEvents[r] = {}
          /\ phase' = [phase EXCEPT ![r] = "nothing"]
          /\ UNCHANGED stream
       \/ /\ thenEvents[r] # {} /\ RowKeyTaken(r)
          /\ phase' = [phase EXCEPT ![r] = "conflict"]
          /\ UNCHANGED stream
       \/ /\ thenEvents[r] # {} /\ ~RowKeyTaken(r)
          /\ phase' = [phase EXCEPT ![r] = "appended"]
          /\ stream' = stream \cup thenEvents[r]
    /\ UNCHANGED <<clock, operation, given, todo, happenings, thenEvents, raced>>

-----------------------------------------------------------------------------
(* The operations of the aggregate. Each runs on the rebuilt state.        *)

Rebuilt(r) == phase[r] = "replaying" /\ todo[r] = {}

Ready(r, kind) == Rebuilt(r) /\ operation[r].kind = kind

\* Mutant: GetHappening compares keys exactly.
FoundExactly(r) == Exactly(happenings[r], operation[r].key)

\* GetHappening(key): the first row of that key, if there is one
Found(r) == Matching(happenings[r], operation[r].key)
TheHappening(r) == Earliest(Found(r))

NewEvent(r, type) ==
    [type |-> type, key |-> operation[r].key,
     isDefault |-> operation[r].isDefault, at |-> clock + 1]

\* The operation throws: the unit of work is dropped.
Refuse(r) ==
    /\ phase' = [phase EXCEPT ![r] = "refused"]
    /\ UNCHANGED <<clock, happenings, thenEvents>>

\* The operation returns without applying an event.
ApplyNothing(r) ==
    /\ phase' = [phase EXCEPT ![r] = "executed"]
    /\ UNCHANGED <<clock, happenings, thenEvents>>

\* Mutant: the event is collected without the state having handled it.
CollectOnly(r, e) ==
    /\ phase' = [phase EXCEPT ![r] = "executed"]
    /\ thenEvents' = [thenEvents EXCEPT ![r] = {e}]
    /\ clock' = clock + 1
    /\ UNCHANGED happenings

\* Apply(e): the state handles the event first, then it is collected.
ApplyOne(r, e) ==
    \/ Throws(happenings[r], e) /\ Refuse(r)
    \/ /\ ~Throws(happenings[r], e)
       /\ phase' = [phase EXCEPT ![r] = "executed"]
       /\ happenings' = [happenings EXCEPT ![r] = Applied(@, e)]
       /\ thenEvents' = [thenEvents EXCEPT ![r] = {e}]
       /\ clock' = clock + 1

aggregateVars == <<stream, operation, given, todo, raced>>

Create(r) ==
    /\ Ready(r, "Create")
    /\ \/ Found(r) # {} /\ Refuse(r)
       \/ Found(r) = {} /\ ApplyOne(r, NewEvent(r, "HappeningInventoryItemCreated"))
    /\ UNCHANGED aggregateVars

ChangeDefault(r) ==
    /\ Ready(r, "ChangeDefault")
    /\ IF Found(r) # {} /\ ~TheHappening(r).isDefault
         THEN ApplyOne(r, NewEvent(r, "HappeningSetAsDefault"))
         ELSE ApplyNothing(r)
    /\ UNCHANGED aggregateVars

\* Mutant: deleting the default appoints no other default.
DeleteOnly(r) ==
    /\ Ready(r, "Delete")
    /\ \/ Found(r) = {} /\ ApplyNothing(r)
       \/ Found(r) # {} /\ ApplyOne(r, NewEvent(r, "HappeningDeleted"))
    /\ UNCHANGED aggregateVars

\* Deleting the default makes the last happening left the default. The two
\* events are constructed one after the other and may get the same tick.
Delete(r) ==
    /\ Ready(r, "Delete")
    /\ LET deleted == NewEvent(r, "HappeningDeleted")
           left == Applied(happenings[r], deleted)
       IN \/ Found(r) = {} /\ ApplyNothing(r)
          \/ /\ Found(r) # {}
             /\ ~(TheHappening(r).isDefault /\ left # {})
             /\ ApplyOne(r, deleted)
          \/ /\ Found(r) # {}
             /\ TheHappening(r).isDefault /\ left # {}
             /\ \E tick \in {clock + 1, clock + 2} :
                  LET e == [type |-> "HappeningSetAsDefault",
                            key |-> Latest(left).key,
                            isDefault |-> FALSE, at |-> tick]
                  IN /\ phase' = [phase EXCEPT ![r] = "executed"]
                     /\ happenings' = [happenings EXCEPT ![r] = Applied(left, e)]
                     /\ thenEvents' = [thenEvents EXCEPT ![r] = {deleted, e}]
                     /\ clock' = tick
    /\ UNCHANGED aggregateVars

Start(r) ==
    /\ Ready(r, "Start")
    /\ \/ Found(r) = {} /\ ApplyNothing(r)
       \/ Found(r) # {} /\ ApplyOne(r, NewEvent(r, "HappeningStarted"))
    /\ UNCHANGED aggregateVars

ValidatePersonUnlink(r) ==
    /\ Ready(r, "ValidatePersonUnlink")
    /\ \/ Found(r) = {} /\ ApplyNothing(r)
       \/ /\ Found(r) # {} /\ TheHappening(r).started
          /\ ApplyOne(r, NewEvent(r, "PersonUnlinkFailed"))
       \/ /\ Found(r) # {} /\ ~TheHappening(r).started
          /\ ApplyOne(r, NewEvent(r, "PersonUnlinkValidated"))
    /\ UNCHANGED aggregateVars

Next ==
    \E r \in Request :
        \/ \E o \in Operation : Read(r, o)
        \/ ReplayEvent(r)
        \/ AppendEvents(r)
        \/ Create(r) \/ ChangeDefault(r) \/ Delete(r) \/ Start(r)
        \/ ValidatePersonUnlink(r)

Spec == Init /\ [][Next]_vars

-----------------------------------------------------------------------------
(* Properties.                                                             *)

\* Every variable has its type, a request replays what it read, and what any
\* request has read is still in the stream: the store only grows.
TypeOK ==
    /\ stream \in SUBSET Event
    /\ clock \in Nat
    /\ phase \in [Request -> Phase]
    /\ operation \in [Request -> Operation \cup {NoOperation}]
    /\ given \in [Request -> SUBSET Event]
    /\ todo \in [Request -> SUBSET Event]
    /\ happenings \in [Request -> SUBSET HappeningInfo]
    /\ thenEvents \in [Request -> SUBSET Event]
    /\ raced \in BOOLEAN
    /\ \A r \in Request : todo[r] \subseteq given[r] /\ given[r] \subseteq stream

\* "list of happenings has unique keys" (HappeningsInventory, class comment):
\* no execution ever holds the same key twice, however the requests interleave.
UniqueKeys ==
    \A r \in Request : \A g, h \in happenings[r] : g.key = h.key => g = h

\* "only one happening is default" (same comment): no execution ever holds two
\* defaults, not even while it replays a stream that raced requests wrote.
AtMostOneDefault ==
    \A r \in Request : \A g, h \in happenings[r] :
        g.isDefault /\ h.isDefault => g = h

\* A happening that was created and then deleted is in no list rebuilt from
\* the stream, now or later, whatever was appended in between.
NoResurrection ==
    \A r \in Request : Rebuilt(r) =>
        \A c, d \in given[r] :
            /\ IsCreated(c)
            /\ d.type = "HappeningDeleted"
            /\ SameKey(c.key, d.key)
            /\ c.at < d.at
            => Exactly(happenings[r], c.key) = {}

\* As long as requests do not overlap, every stream they write can be replayed:
\* no event refers to a happening that is not there when its turn comes.
SerialStreamsReplay ==
    ~raced => \A r \in Request : phase[r] # "poisoned"

KeysUniqueIgnoringCase(L) == \A g, h \in L : SameKey(g.key, h.key) => g = h

\* As long as requests do not overlap, no two happenings have keys that differ
\* only in case, although rows are told apart by the exact key.
SerialKeysUnique ==
    ~raced => \A r \in Request : KeysUniqueIgnoringCase(happenings[r])

HasDefault(L) == \E h \in L : h.isDefault

\* No operation leaves a list that had a default without one, unless it leaves
\* the list empty. (Delete removes every row of the key but looks at the first
\* one only, so this needs keys that are unique ignoring case.)
DefaultIsKept ==
    [][\A r \in Request :
          /\ Rebuilt(r) /\ phase'[r] = "executed"
          /\ HasDefault(happenings[r])
          /\ KeysUniqueIgnoringCase(happenings[r])
          => HasDefault(happenings'[r]) \/ happenings'[r] = {}]_vars

=============================================================================
