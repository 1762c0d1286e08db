--------------------- MODULE HappeningsInventory_proofs ---------------------
(***************************************************************************)
(* What HappeningsInventory promises, for every number of requests, every  *)
(* set of keys and every interleaving; and, at the end, what it promises   *)
(* as long as requests do not overlap.                                     *)
(***************************************************************************)
EXTENDS HappeningsInventory, WellFoundedInduction, TLAPS

OneDefault(L) == \A g, h \in L : g.isDefault /\ h.isDefault => g = h

ExactKeysUnique(L) == \A g, h \in L : g.key = h.key => g = h

-----------------------------------------------------------------------------
(* The last row of a list: it exists because ticks are bounded.            *)

\* A non-empty set of naturals has a least element.
LEMMA NatMin ==
    ASSUME NEW S \in SUBSET Nat, S # {}
    PROVE  \E m \in S : \A n \in S : m <= n
<1>. DEFINE R == OpToRel(<, Nat)
<1>1. IsWellFoundedOn(R, Nat)
  BY NatLessThanWellFounded
<1>2. \A x, y \in Nat : x < y <=> <<x, y>> \in R
  BY DEF OpToRel
<1>. HIDE DEF R
<1>3. PICK x \in S : \A y \in S : ~(<<y, x>> \in R)
  BY <1>1, WFMin
<1>4. \A y \in S : x <= y
  <2>. TAKE y \in S
  <2>1. ~(y < x)
    BY <1>2, <1>3
  <2>. QED  BY <2>1
<1>. QED  BY <1>4

\* A non-empty list of happenings has a last row.
LEMMA LatestExists ==
    ASSUME NEW L \in SUBSET HappeningInfo, L # {},
           NEW now \in Nat, \A h \in L : h.at <= now
    PROVE  Latest(L) \in L
<1>. DEFINE age(h) == now - h.at
            Ages == {age(h) : h \in L}
<1>1. \A h \in L : h.at \in Nat /\ age(h) \in Nat
  BY DEF HappeningInfo
<1>2. PICK m \in Ages : \A n \in Ages : m <= n
  <2>1. Ages \in SUBSET Nat /\ Ages # {}
    BY <1>1
  <2>. QED  BY <2>1, NatMin
<1>3. PICK h \in L : m = age(h)
  BY <1>2
<1>4. \A g \in L : g.at <= h.at
  <2>. TAKE g \in L
  <2>1. age(h) <= age(g)
    BY <1>2, <1>3
  <2>. QED  BY <2>1, <1>1
<1>. QED  BY <1>4 DEF Latest

-----------------------------------------------------------------------------
(* When(e): what applying one event does to a list of happenings.          *)

\* HappeningStarted sets one flag of one row: every row comes from the row of
\* the same key, time and default flag, and no two rows come from one.
LEMMA StartedRows ==
    ASSUME NEW L \in SUBSET HappeningInfo, NEW e \in Event,
           e.type = "HappeningStarted"
    PROVE  \E From \in [Applied(L, e) -> L] :
              /\ \A x \in Applied(L, e) :
                    /\ x \in HappeningInfo
                    /\ x.key = From[x].key /\ x.at = From[x].at
                    /\ x.isDefault = From[x].isDefault
              /\ \A x, y \in Applied(L, e) : From[x] = From[y] => x = y
<1>. DEFINE first == Earliest(Matching(L, e.key))
            marked(h) == IF h = first THEN [h EXCEPT !.started = TRUE] ELSE h
            From == [x \in Applied(L, e) |-> CHOOSE h \in L : x = marked(h)]
<1>1. Applied(L, e) = {marked(h) : h \in L}
  BY DEF Applied, WhenStarted
<1>2. \A x \in Applied(L, e) : From[x] \in L /\ x = marked(From[x])
  BY <1>1
<1>3. \A h \in L : /\ marked(h) \in HappeningInfo
                   /\ marked(h).key = h.key /\ marked(h).at = h.at
                   /\ marked(h).isDefault = h.isDefault
  BY DEF HappeningInfo
<1>4. From \in [Applied(L, e) -> L]
  BY <1>2
<1>5. \A x, y \in Applied(L, e) : From[x] = From[y] => x = y
  <2>. SUFFICES ASSUME NEW x \in Applied(L, e), NEW y \in Applied(L, e),
                       From[x] = From[y]
                PROVE  x = y
    OBVIOUS
  <2>. HIDE DEF From
  <2>1. x = marked(From[x]) /\ y = marked(From[y])
    BY <1>2
  <2>. QED  BY <2>1
<1>. HIDE DEF From, marked
<1>6. \A x \in Applied(L, e) :
         /\ x \in HappeningInfo
         /\ x.key = From[x].key /\ x.at = From[x].at
         /\ x.isDefault = From[x].isDefault
  BY <1>2, <1>3
<1>. QED  BY <1>4, <1>5, <1>6

\* HappeningInventoryItemCreated adds one row; the old rows keep key and time,
\* and lose their default flag when the new row has it.
LEMMA CreatedRows ==
    ASSUME NEW L \in SUBSET HappeningInfo, NEW e \in Event,
           e.type = "HappeningInventoryItemCreated"
    PROVE  \E new \in HappeningInfo, Old \in SUBSET HappeningInfo :
              /\ Applied(L, e) = Old \cup {new}
              /\ new.key = e.key /\ new.at = e.at /\ new.isDefault = e.isDefault
              /\ \A x \in Old : \E h \in L : h.key = x.key /\ h.at = x.at
              /\ ExactKeysUnique(L) => ExactKeysUnique(Old)
              /\ OneDefault(L) => OneDefault(Old)
              /\ e.isDefault => \A x \in Old : ~x.isDefault
<1>. DEFINE new == [key |-> e.key, isDefault |-> e.isDefault,
                    started |-> FALSE, at |-> e.at]
            Old == IF e.isDefault THEN MarkAllAsNotDefault(L) ELSE L
<1>1. /\ new \in HappeningInfo
      /\ new.key = e.key /\ new.at = e.at /\ new.isDefault = e.isDefault
  BY DEF HappeningInfo, Event
<1>2. Applied(L, e) = Old \cup {new}
  BY DEF Applied, WhenCreated
<1>. HIDE DEF new
<1>3. CASE ~e.isDefault
  BY <1>1, <1>2, <1>3
<1>4. CASE e.isDefault
  <2>1. Old = {[h EXCEPT !.isDefault = FALSE] : h \in L}
    BY <1>4 DEF MarkAllAsNotDefault
  <2>2. \A h \in L : LET x == [h EXCEPT !.isDefault = FALSE]
                     IN  /\ x \in HappeningInfo /\ ~x.isDefault
                         /\ x.key = h.key /\ x.at = h.at
    BY DEF HappeningInfo
  <2>. HIDE DEF Old
  <2>3. \A x \in Old : /\ x \in HappeningInfo /\ ~x.isDefault
                       /\ \E h \in L : /\ h.key = x.key /\ h.at = x.at
                                       /\ x = [h EXCEPT !.isDefault = FALSE]
    BY <2>1, <2>2
  <2>4. ASSUME ExactKeysUnique(L), NEW x \in Old, NEW y \in Old, x.key = y.key
        PROVE  x = y
    <3>1. PICK h \in L : h.key = x.key /\ x = [h EXCEPT !.isDefault = FALSE]
      BY <2>3
    <3>2. PICK g \in L : g.key = y.key /\ y = [g EXCEPT !.isDefault = FALSE]
      BY <2>3
    <3>3. h = g
      BY <2>4, <3>1, <3>2 DEF ExactKeysUnique
    <3>. QED  BY <3>1, <3>2, <3>3
  <2>5. ExactKeysUnique(L) => ExactKeysUnique(Old)
    BY <2>4 DEF ExactKeysUnique
  <2>6. OneDefault(Old)
    BY <2>3 DEF OneDefault
  <2>. QED  BY <1>1, <1>2, <2>3, <2>5, <2>6
<1>. QED  BY <1>3, <1>4 DEF Event

\* Applying an event to a list of happenings gives a list of happenings whose
\* rows are the old ones, up to their flags, and the one e creates.
LEMMA AppliedRows ==
    ASSUME NEW L \in SUBSET HappeningInfo, NEW e \in Event
    PROVE  /\ Applied(L, e) \in SUBSET HappeningInfo
           /\ \A h \in Applied(L, e) :
                 \/ \E g \in L : g.key = h.key /\ g.at = h.at
                 \/ IsCreated(e) /\ e.key = h.key /\ e.at = h.at
<1>1. CASE e.type = "HappeningInventoryItemCreated"
  <2>1. PICK new \in HappeningInfo, Old \in SUBSET HappeningInfo :
              /\ Applied(L, e) = Old \cup {new}
              /\ new.key = e.key /\ new.at = e.at
              /\ \A x \in Old : \E h \in L : h.key = x.key /\ h.at = x.at
    BY <1>1, CreatedRows
  <2>2. Applied(L, e) \in SUBSET HappeningInfo
    BY <2>1
  <2>3. ASSUME NEW h \in Applied(L, e)
        PROVE  \/ \E g \in L : g.key = h.key /\ g.at = h.at
               \/ IsCreated(e) /\ e.key = h.key /\ e.at = h.at
    BY <1>1, <2>1 DEF IsCreated
  <2>. QED  BY <2>2, <2>3
<1>2. CASE e.type = "HappeningSetAsDefault"
  <2>1. \A h \in L, b \in BOOLEAN :
           LET x == [h EXCEPT !.isDefault = b]
           IN  x \in HappeningInfo /\ x.key = h.key /\ x.at = h.at
    BY DEF HappeningInfo
  <2>2. \A x \in Applied(L, e) : \E h \in L, b \in BOOLEAN :
           x = [h EXCEPT !.isDefault = b]
    BY <1>2 DEF Applied, WhenSetAsDefault
  <2>3. Applied(L, e) \in SUBSET HappeningInfo
    BY <2>1, <2>2
  <2>4. \A x \in Applied(L, e) : \E g \in L : g.key = x.key /\ g.at = x.at
    <3>. TAKE x \in Applied(L, e)
    <3>1. PICK h \in L, b \in BOOLEAN : x = [h EXCEPT !.isDefault = b]
      BY <2>2
    <3>. QED  BY <2>1, <3>1
  <2>. QED  BY <2>3, <2>4
<1>3. CASE e.type = "HappeningDeleted"
  BY <1>3 DEF Applied, WhenDeleted, HappeningInfo, Event
<1>4. CASE e.type = "HappeningStarted"
  BY <1>4, StartedRows
<1>5. CASE e.type \in {"PersonUnlinkFailed", "PersonUnlinkValidated"}
  BY <1>5 DEF Applied, Event
<1>. QED  BY <1>1, <1>2, <1>3, <1>4, <1>5 DEF Event, EventType

\* No event makes a second default.
LEMMA AppliedOneDefault ==
    ASSUME NEW L \in SUBSET HappeningInfo, NEW e \in Event, OneDefault(L)
    PROVE  OneDefault(Applied(L, e))
<1>1. CASE e.type = "HappeningInventoryItemCreated"
  <2>1. PICK new \in HappeningInfo, Old \in SUBSET HappeningInfo :
              /\ Applied(L, e) = Old \cup {new}
              /\ new.isDefault = e.isDefault
              /\ OneDefault(Old)
              /\ e.isDefault => \A x \in Old : ~x.isDefault
    BY <1>1, CreatedRows
  <2>. QED  BY <2>1 DEF OneDefault
<1>2. CASE e.type = "HappeningSetAsDefault"
  BY <1>2 DEF Applied, WhenSetAsDefault, HappeningInfo, Event, OneDefault
<1>3. CASE e.type = "HappeningDeleted"
  BY <1>3 DEF Applied, WhenDeleted, OneDefault
<1>4. CASE e.type = "HappeningStarted"
  BY <1>4, StartedRows DEF OneDefault
<1>5. CASE e.type \in {"PersonUnlinkFailed", "PersonUnlinkValidated"}
  BY <1>5 DEF Applied
<1>. QED  BY <1>1, <1>2, <1>3, <1>4, <1>5 DEF Event, EventType

\* Keys stay unique when a creation brings a key that is not there.
LEMMA AppliedExactKeysUnique ==
    ASSUME NEW L \in SUBSET HappeningInfo, NEW e \in Event,
           ExactKeysUnique(L),
           IsCreated(e) => Exactly(L, e.key) = {}
    PROVE  ExactKeysUnique(Applied(L, e))
<1>1. CASE e.type = "HappeningInventoryItemCreated"
  <2>1. PICK new \in HappeningInfo, Old \in SUBSET HappeningInfo :
              /\ Applied(L, e) = Old \cup {new}
              /\ new.key = e.key
              /\ \A x \in Old : \E h \in L : h.key = x.key /\ h.at = x.at
              /\ ExactKeysUnique(Old)
    BY <1>1, CreatedRows
  <2>2. \A x \in Old : x.key # new.key
    BY <1>1, <2>1 DEF IsCreated, Exactly
  <2>. QED  BY <2>1, <2>2 DEF ExactKeysUnique
<1>2. CASE e.type = "HappeningSetAsDefault"
  BY <1>2 DEF Applied, WhenSetAsDefault, HappeningInfo, Event, ExactKeysUnique
<1>3. CASE e.type = "HappeningDeleted"
  BY <1>3 DEF Applied, WhenDeleted, ExactKeysUnique
<1>4. CASE e.type = "HappeningStarted"
  BY <1>4, StartedRows DEF ExactKeysUnique
<1>5. CASE e.type \in {"PersonUnlinkFailed", "PersonUnlinkValidated"}
  BY <1>5 DEF Applied
<1>. QED  BY <1>1, <1>2, <1>3, <1>4, <1>5 DEF Event, EventType

\* After a deletion no row of that key is left.
LEMMA AppliedDeletion ==
    ASSUME NEW L \in SUBSET HappeningInfo, NEW e \in Event,
           e.type = "HappeningDeleted"
    PROVE  \A h \in Applied(L, e) : h \in L /\ ~SameKey(h.key, e.key)
  BY DEF Applied, WhenDeleted, Matching

-----------------------------------------------------------------------------
(* The inductive invariant.                                                *)

IsDeleted(e) == e.type = "HappeningDeleted"

\* An event that exists: stored, or collected by a request.
Constructed(e) == e \in stream \/ \E r \in Request : e \in thenEvents[r]

\* Ticks: events are in the past, creations and deletions have their own.
TicksInv ==
    /\ Consistent(stream, clock)
    /\ \A r \in Request : \A e \in thenEvents[r] :
          /\ e.at <= clock
          /\ IsCreated(e) => thenEvents[r] = {e}
    /\ \A c, d \in Event :
          Constructed(c) /\ Constructed(d) /\ IsCreated(c) /\ IsDeleted(d)
             => c.at # d.at

\* What a request that replays knows about its list: every row was created by
\* a replayed event, replayed events precede the others, and a row is younger
\* than every replayed deletion of its key.
Replayed(r) == given[r] \ todo[r]

ReplayOK(r) ==
    /\ \A h \in happenings[r] : \E c \in Replayed(r) :
          IsCreated(c) /\ c.key = h.key /\ c.at = h.at
    /\ \A a \in Replayed(r), b \in todo[r] : a.at <= b.at
    /\ \A h \in happenings[r], d \in Replayed(r) :
          IsDeleted(d) /\ SameKey(h.key, d.key) => d.at < h.at

ReplayInv == \A r \in Request : phase[r] = "replaying" => ReplayOK(r)

\* A request that has not begun has an empty list and no events.
IdleInv ==
    \A r \in Request :
        /\ phase[r] = "idle" => happenings[r] = {}
        /\ phase[r] \in {"idle", "replaying"} => thenEvents[r] = {}

IInv ==
    /\ TypeOK
    /\ TicksInv
    /\ ReplayInv
    /\ IdleInv
    /\ UniqueKeys
    /\ AtMostOneDefault

\* What an operation leaves behind: the request has left the replay with a
\* well-formed list L and a batch E of events with ticks of their own.
Leaves(r, L, E, now) ==
    /\ L \in SUBSET HappeningInfo /\ OneDefault(L) /\ ExactKeysUnique(L)
    /\ E \in SUBSET Event
    /\ \A e \in E : /\ clock < e.at /\ e.at <= now
                    /\ IsCreated(e) => E = {e}
    /\ now \in {clock, clock + 1, clock + 2}
    /\ Rebuilt(r)
    /\ phase' \in {[phase EXCEPT ![r] = "executed"],
                   [phase EXCEPT ![r] = "refused"]}
    /\ happenings' = [happenings EXCEPT ![r] = L]
    /\ thenEvents' = [thenEvents EXCEPT ![r] = E]
    /\ clock' = now
    /\ UNCHANGED aggregateVars

Outcome(r) == \E L, E, now : Leaves(r, L, E, now)

-----------------------------------------------------------------------------
(* The operations.                                                         *)

\* Refusing, and returning without an event, leave list and events alone.
LEMMA NoEventOutcome ==
    ASSUME IInv, NEW r \in Request, Rebuilt(r), UNCHANGED aggregateVars,
           Refuse(r) \/ ApplyNothing(r)
    PROVE  Outcome(r)
<1>. DEFINE L == happenings[r]
<1>1. /\ L \in SUBSET HappeningInfo
      /\ OneDefault(L) /\ ExactKeysUnique(L)
  BY DEF IInv, TypeOK, UniqueKeys, AtMostOneDefault, OneDefault, ExactKeysUnique
<1>2. thenEvents[r] = {}
  BY DEF IInv, IdleInv, Rebuilt
<1>3. /\ happenings' = [happenings EXCEPT ![r] = L]
      /\ thenEvents' = [thenEvents EXCEPT ![r] = {}]
  BY <1>2 DEF Refuse, ApplyNothing, IInv, TypeOK
<1>4. phase' \in {[phase EXCEPT ![r] = "executed"],
                  [phase EXCEPT ![r] = "refused"]} /\ clock' = clock
  BY DEF Refuse, ApplyNothing
<1>. HIDE DEF L
<1>5. Leaves(r, L, {}, clock)
  BY <1>1, <1>3, <1>4 DEF Leaves
<1>. QED  BY <1>5 DEF Outcome

\* Applying one event, constructed now, to a rebuilt list.
LEMMA ApplyOneOutcome ==
    ASSUME IInv, NEW r \in Request, Rebuilt(r), UNCHANGED aggregateVars,
           NEW e \in Event, e.at = clock + 1,
           IsCreated(e) => Matching(happenings[r], e.key) = {},
           ApplyOne(r, e)
    PROVE  Outcome(r)
<1>1. CASE Refuse(r)
  BY <1>1, NoEventOutcome
<1>2. CASE ~Throws(happenings[r], e)
  <2>. DEFINE L == Applied(happenings[r], e)
  <2>1. /\ happenings[r] \in SUBSET HappeningInfo
        /\ OneDefault(happenings[r]) /\ ExactKeysUnique(happenings[r])
    BY DEF IInv, TypeOK, UniqueKeys, AtMostOneDefault, OneDefault,
           ExactKeysUnique
  <2>2. IsCreated(e) => Exactly(happenings[r], e.key) = {}
    BY DEF Matching, Exactly, SameKey
  <2>3. L \in SUBSET HappeningInfo /\ OneDefault(L) /\ ExactKeysUnique(L)
    BY <2>1, <2>2, AppliedRows, AppliedOneDefault, AppliedExactKeysUnique
  <2>4. CASE Refuse(r)
    BY <2>4, NoEventOutcome
  <2>5. CASE ~Refuse(r)
    <3>1. /\ phase' = [phase EXCEPT ![r] = "executed"]
          /\ happenings' = [happenings EXCEPT ![r] = L]
          /\ thenEvents' = [thenEvents EXCEPT ![r] = {e}]
          /\ clock' = clock + 1
      BY <2>5, <1>2 DEF ApplyOne
    <3>2. clock \in Nat
      BY DEF IInv, TypeOK
    <3>. HIDE DEF L
    <3>3. Leaves(r, L, {e}, clock + 1)
      BY <2>3, <3>1, <3>2 DEF Leaves
    <3>. QED  BY <3>3 DEF Outcome
  <2>. QED  BY <2>4, <2>5
<1>. QED  BY <1>1, <1>2 DEF ApplyOne

\* The events an operation constructs are events, one tick from now.
LEMMA NewEventIsEvent ==
    ASSUME IInv, NEW r \in Request, NEW kind \in OperationKind, Ready(r, kind),
           NEW type \in EventType
    PROVE  /\ NewEvent(r, type) \in Event
           /\ NewEvent(r, type).at = clock + 1
           /\ NewEvent(r, type).key = operation[r].key
           /\ NewEvent(r, type).type = type
<1>1. operation[r] \in Operation \cup {NoOperation} /\ clock \in Nat
  BY DEF IInv, TypeOK
<1>2. operation[r].kind # "none"
  BY DEF Ready, OperationKind
<1>3. operation[r] \in Operation
  BY <1>1, <1>2 DEF NoOperation
<1>4. operation[r].key \in Key /\ operation[r].isDefault \in BOOLEAN
  BY <1>3 DEF Operation
<1>. QED  BY <1>1, <1>4 DEF NewEvent, Event

\* The rows of a list that was just rebuilt are not younger than the clock.
LEMMA RebuiltInThePast ==
    ASSUME IInv, NEW r \in Request, Rebuilt(r)
    PROVE  \A h \in happenings[r] : h.at <= clock
<1>. TAKE h \in happenings[r]
<1>1. PICK c \in given[r] : c.at = h.at
  BY DEF IInv, ReplayInv, ReplayOK, Replayed, Rebuilt
<1>2. c \in stream
  BY DEF IInv, TypeOK
<1>. QED  BY <1>1, <1>2 DEF IInv, TicksInv, Consistent

\* Delete, the one operation with two events.
LEMMA DeleteOutcome ==
    ASSUME IInv, NEW r \in Request, Delete(r)
    PROVE  Outcome(r)
<1>. DEFINE deleted == NewEvent(r, "HappeningDeleted")
            left == Applied(happenings[r], deleted)
<1>1. Rebuilt(r) /\ Ready(r, "Delete") /\ UNCHANGED aggregateVars
  BY DEF Delete, Ready
<1>2. /\ deleted \in Event /\ deleted.at = clock + 1
      /\ deleted.type = "HappeningDeleted"
  BY <1>1, NewEventIsEvent DEF EventType, OperationKind
<1>. HIDE DEF deleted, left
<1>3. CASE ApplyNothing(r)
  BY <1>1, <1>3, NoEventOutcome
<1>4. CASE ApplyOne(r, deleted)
  BY <1>1, <1>2, <1>4, ApplyOneOutcome DEF IsCreated
<1>5. ASSUME left # {}, NEW tick \in {clock + 1, clock + 2}, NEW e,
             e = [type |-> "HappeningSetAsDefault", key |-> Latest(left).key,
                  isDefault |-> FALSE, at |-> tick],
             phase' = [phase EXCEPT ![r] = "executed"],
             happenings' = [happenings EXCEPT ![r] = Applied(left, e)],
             thenEvents' = [thenEvents EXCEPT ![r] = {deleted, e}],
             clock' = tick
      PROVE  Outcome(r)
  <2>1. /\ happenings[r] \in SUBSET HappeningInfo
        /\ OneDefault(happenings[r]) /\ ExactKeysUnique(happenings[r])
        /\ clock \in Nat
    BY DEF IInv, TypeOK, UniqueKeys, AtMostOneDefault, OneDefault,
           ExactKeysUnique
  <2>2. /\ left \in SUBSET HappeningInfo
        /\ OneDefault(left) /\ ExactKeysUnique(left)
        /\ \A h \in left : h \in happenings[r]
    BY <1>2, <2>1, AppliedRows, AppliedOneDefault, AppliedExactKeysUnique,
       AppliedDeletion DEF left, IsCreated
  <2>3. Latest(left) \in HappeningInfo
    BY <1>1, <1>5, <2>1, <2>2, LatestExists, RebuiltInThePast
  <2>4. /\ e \in Event /\ e.at = tick /\ ~IsCreated(e)
        /\ tick \in Nat
    BY <1>5, <2>1, <2>3 DEF Event, EventType, HappeningInfo, IsCreated
  <2>. DEFINE L == Applied(left, e)
  <2>5. L \in SUBSET HappeningInfo /\ OneDefault(L) /\ ExactKeysUnique(L)
    BY <2>2, <2>4, AppliedRows, AppliedOneDefault, AppliedExactKeysUnique
  <2>6. \A f \in {deleted, e} : /\ f \in Event /\ ~IsCreated(f)
                                /\ clock < f.at /\ f.at <= tick
    <3>1. ~IsCreated(deleted)
      BY <1>2 DEF IsCreated
    <3>2. clock < tick /\ clock + 1 <= tick /\ clock < clock + 1
      BY <1>5, <2>1
    <3>. QED  BY <1>2, <2>4, <3>1, <3>2
  <2>. HIDE DEF L
  <2>7. Leaves(r, L, {deleted, e}, tick)
    BY <1>1, <1>5, <2>1, <2>5, <2>6 DEF Leaves, L
  <2>. QED  BY <2>7 DEF Outcome
<1>. QED  BY <1>3, <1>4, <1>5 DEF Delete, deleted, left

OperationStep(r) ==
    Create(r) \/ ChangeDefault(r) \/ Delete(r) \/ Start(r)
              \/ ValidatePersonUnlink(r)

\* Every operation leaves a well-formed list and events with their own ticks.
LEMMA OperationOutcome ==
    ASSUME IInv, NEW r \in Request, OperationStep(r)
    PROVE  Outcome(r)
<1>. USE DEF EventType, OperationKind
<1>1. CASE Create(r)
  <2>. DEFINE e == NewEvent(r, "HappeningInventoryItemCreated")
  <2>1. Rebuilt(r) /\ Ready(r, "Create") /\ UNCHANGED aggregateVars
    BY <1>1 DEF Create, Ready
  <2>2. e \in Event /\ e.at = clock + 1 /\ e.key = operation[r].key
    BY <2>1, NewEventIsEvent
  <2>3. Refuse(r) \/ (Found(r) = {} /\ ApplyOne(r, e))
    BY <1>1 DEF Create
  <2>. HIDE DEF e
  <2>4. Found(r) = {} => Matching(happenings[r], e.key) = {}
    BY <2>2 DEF Found
  <2>. QED  BY <2>1, <2>2, <2>3, <2>4, NoEventOutcome, ApplyOneOutcome
<1>2. CASE ChangeDefault(r)
  <2>. DEFINE e == NewEvent(r, "HappeningSetAsDefault")
  <2>1. Rebuilt(r) /\ Ready(r, "ChangeDefault") /\ UNCHANGED aggregateVars
    BY <1>2 DEF ChangeDefault, Ready
  <2>2. e \in Event /\ e.at = clock + 1 /\ ~IsCreated(e)
    BY <2>1, NewEventIsEvent DEF IsCreated
  <2>3. ApplyNothing(r) \/ ApplyOne(r, e)
    BY <1>2 DEF ChangeDefault
  <2>. HIDE DEF e
  <2>. QED  BY <2>1, <2>2, <2>3, NoEventOutcome, ApplyOneOutcome
<1>3. CASE Delete(r)
  BY <1>3, DeleteOutcome
<1>4. CASE Start(r)
  <2>. DEFINE e == NewEvent(r, "HappeningStarted")
  <2>1. Rebuilt(r) /\ Ready(r, "Start") /\ UNCHANGED aggregateVars
    BY <1>4 DEF Start, Ready
  <2>2. e \in Event /\ e.at = clock + 1 /\ ~IsCreated(e)
    BY <2>1, NewEventIsEvent DEF IsCreated
  <2>3. ApplyNothing(r) \/ ApplyOne(r, e)
    BY <1>4 DEF Start
  <2>. HIDE DEF e
  <2>. QED  BY <2>1, <2>2, <2>3, NoEventOutcome, ApplyOneOutcome
<1>5. CASE ValidatePersonUnlink(r)
  <2>. DEFINE e(type) == NewEvent(r, type)
              Types == {"PersonUnlinkFailed", "PersonUnlinkValidated"}
  <2>1. /\ Rebuilt(r) /\ Ready(r, "ValidatePersonUnlink")
        /\ UNCHANGED aggregateVars
    BY <1>5 DEF ValidatePersonUnlink, Ready
  <2>2. \A type \in Types :
           e(type) \in Event /\ e(type).at = clock + 1 /\ ~IsCreated(e(type))
    BY <2>1, NewEventIsEvent DEF IsCreated
  <2>3. ApplyNothing(r) \/ \E type \in Types : ApplyOne(r, e(type))
    BY <1>5 DEF ValidatePersonUnlink
  <2>. HIDE DEF e
  <2>. QED  BY <2>1, <2>2, <2>3, NoEventOutcome, ApplyOneOutcome
<1>. QED  BY <1>1, <1>2, <1>3, <1>4, <1>5 DEF OperationStep

-----------------------------------------------------------------------------
(* Initially and step by step.                                             *)

\* The invariant holds at first.
LEMMA InitInv == Init => IInv
<1>. SUFFICES ASSUME Init PROVE IInv
  OBVIOUS
<1>1. stream \in SUBSET Event /\ Consistent(stream, clock) /\ clock \in Nat
  BY InitialStreamsAssumption, InitialClockAssumption DEF Init
<1>2. TypeOK
  BY <1>1 DEF Init, TypeOK, Phase
<1>3. TicksInv
  <2>1. \A r \in Request : thenEvents[r] = {}
    BY DEF Init
  <2>2. \A e : Constructed(e) => e \in stream
    BY <2>1 DEF Constructed
  <2>3. \A c, d \in stream : IsCreated(c) /\ IsDeleted(d) => c.at # d.at
    BY <1>1 DEF Consistent, IsDeleted
  <2>4. \A c, d \in Event :
           Constructed(c) /\ Constructed(d) /\ IsCreated(c) /\ IsDeleted(d)
              => c.at # d.at
    <3>. SUFFICES ASSUME NEW c \in Event, NEW d \in Event,
                         Constructed(c), Constructed(d),
                         IsCreated(c), IsDeleted(d)
                  PROVE  c.at # d.at
      OBVIOUS
    <3>1. c \in stream /\ d \in stream
      BY <2>2
    <3>. QED  BY <2>3, <3>1
  <2>5. \A r \in Request : \A e \in thenEvents[r] :
           /\ e.at <= clock
           /\ IsCreated(e) => thenEvents[r] = {e}
    BY <2>1
  <2>. QED  BY <1>1, <2>4, <2>5 DEF TicksInv
<1>4. ReplayInv /\ IdleInv /\ UniqueKeys /\ AtMostOneDefault
  BY DEF Init, ReplayInv, IdleInv, UniqueKeys, AtMostOneDefault
<1>. QED  BY <1>2, <1>3, <1>4 DEF IInv

\* Reading the stream: the replay starts with an empty list.
LEMMA ReadStep ==
    ASSUME IInv, NEW r \in Request, NEW o \in Operation, Read(r, o)
    PROVE  IInv'
<1>. USE DEF IInv
<1>1. TypeOK'
  BY DEF TypeOK, Read, Phase
<1>2. TicksInv'
  BY DEF TicksInv, Constructed, Consistent, Read
<1>3. happenings[r] = {} /\ thenEvents[r] = {}
  BY DEF IdleInv, Read
<1>4. ReplayInv'
  <2>. SUFFICES ASSUME NEW q \in Request, phase'[q] = "replaying"
                PROVE  ReplayOK(q)'
    BY DEF ReplayInv
  <2>1. CASE q = r
    <3>1. /\ happenings'[q] = {} /\ given'[q] = stream /\ todo'[q] = stream
      BY <1>3, <2>1 DEF Read, TypeOK
    <3>. QED  BY <3>1 DEF ReplayOK, Replayed
  <2>2. CASE q # r
    <3>1. /\ phase[q] = "replaying" /\ happenings'[q] = happenings[q]
          /\ given'[q] = given[q] /\ todo'[q] = todo[q]
      BY <2>2 DEF Read, TypeOK
    <3>. QED  BY <3>1 DEF ReplayInv, ReplayOK, Replayed
  <2>. QED  BY <2>1, <2>2
<1>5. IdleInv'
  BY <1>3 DEF IdleInv, Read, TypeOK
<1>6. UniqueKeys' /\ AtMostOneDefault'
  BY DEF UniqueKeys, AtMostOneDefault, Read
<1>. QED  BY <1>1, <1>2, <1>4, <1>5, <1>6

\* One turn of the replay: a creation finds no row of its key, because the
\* stream has no other creation of it; a deletion leaves no row of its key.
LEMMA ReplayStep ==
    ASSUME IInv, NEW r \in Request, ReplayEvent(r)
    PROVE  IInv'
<1>. USE DEF IInv
<1>1. PICK e \in todo[r] :
         /\ \A f \in todo[r] : e.at <= f.at
         /\ \/ /\ phase' = [phase EXCEPT ![r] = "poisoned"]
               /\ UNCHANGED <<happenings, todo>>
            \/ /\ happenings' = [happenings EXCEPT ![r] = Applied(@, e)]
               /\ todo' = [todo EXCEPT ![r] = @ \ {e}]
               /\ UNCHANGED phase
  BY DEF ReplayEvent
<1>2. /\ phase[r] = "replaying"
      /\ UNCHANGED <<stream, clock, operation, given, thenEvents, raced>>
  BY DEF ReplayEvent
<1>. DEFINE L == happenings[r]
<1>3. /\ e \in Event /\ e \in stream /\ e \in given[r]
      /\ L \in SUBSET HappeningInfo /\ OneDefault(L) /\ ExactKeysUnique(L)
      /\ ReplayOK(r)
  BY <1>2 DEF TypeOK, UniqueKeys, AtMostOneDefault, OneDefault, ExactKeysUnique,
              ReplayInv
<1>4. TicksInv'
  BY <1>2 DEF TicksInv, Constructed, Consistent
<1>5. CASE phase' = [phase EXCEPT ![r] = "poisoned"]
           /\ UNCHANGED <<happenings, todo>>
  <2>1. TypeOK'
    BY <1>2, <1>5 DEF TypeOK, Phase
  <2>2. ReplayInv' /\ IdleInv'
    BY <1>2, <1>5 DEF ReplayInv, ReplayOK, Replayed, IdleInv, TypeOK
  <2>3. UniqueKeys' /\ AtMostOneDefault'
    BY <1>5 DEF UniqueKeys, AtMostOneDefault
  <2>. QED  BY <1>4, <2>1, <2>2, <2>3
<1>6. CASE /\ happenings' = [happenings EXCEPT ![r] = Applied(@, e)]
           /\ todo' = [todo EXCEPT ![r] = @ \ {e}]
           /\ UNCHANGED phase
  <2>1. ASSUME IsCreated(e) PROVE Exactly(L, e.key) = {}
    <3>. SUFFICES ASSUME NEW h \in L, h.key = e.key PROVE FALSE
      BY DEF Exactly
    <3>1. PICK c \in Replayed(r) : IsCreated(c) /\ c.key = h.key
      BY <1>3 DEF ReplayOK
    <3>2. c \in stream /\ c # e
      BY <1>1 DEF Replayed, TypeOK
    <3>. QED  BY <1>3, <2>1, <3>1, <3>2 DEF TicksInv, Consistent
  <2>2. /\ Applied(L, e) \in SUBSET HappeningInfo
        /\ OneDefault(Applied(L, e)) /\ ExactKeysUnique(Applied(L, e))
    BY <1>3, <2>1, AppliedRows, AppliedOneDefault, AppliedExactKeysUnique
  <2>3. /\ happenings'[r] = Applied(L, e) /\ todo'[r] = todo[r] \ {e}
        /\ \A q \in Request \ {r} :
              happenings'[q] = happenings[q] /\ todo'[q] = todo[q]
    BY <1>6 DEF TypeOK
  <2>. HIDE DEF L
  <2>4. TypeOK'
    <3>1. happenings' \in [Request -> SUBSET HappeningInfo]
      BY <1>6, <2>2 DEF TypeOK, L
    <3>2. todo' \in [Request -> SUBSET Event]
      BY <1>6 DEF TypeOK
    <3>3. \A q \in Request : todo'[q] \subseteq given[q]
      BY <2>3 DEF TypeOK
    <3>. QED  BY <1>2, <1>6, <3>1, <3>2, <3>3 DEF TypeOK
  <2>5. IdleInv'
    BY <1>2, <1>6, <2>3 DEF IdleInv
  <2>6. UniqueKeys' /\ AtMostOneDefault'
    BY <2>2, <2>3 DEF UniqueKeys, AtMostOneDefault, OneDefault, ExactKeysUnique
  <2>7. ReplayOK(r)'
    <3>1. Replayed(r)' = Replayed(r) \cup {e}
      BY <1>2, <1>3, <2>3 DEF Replayed
    <3>2. ASSUME NEW h \in Applied(L, e)
          PROVE  \E c \in Replayed(r) \cup {e} :
                    IsCreated(c) /\ c.key = h.key /\ c.at = h.at
      <4>1. CASE \E g \in L : g.key = h.key /\ g.at = h.at
        BY <1>3, <4>1 DEF ReplayOK, L
      <4>2. CASE IsCreated(e) /\ e.key = h.key /\ e.at = h.at
        BY <4>2
      <4>. QED  BY <1>3, <4>1, <4>2, AppliedRows DEF L
    <3>3. ASSUME NEW a \in Replayed(r) \cup {e}, NEW b \in todo[r] \ {e}
          PROVE  a.at <= b.at
      BY <1>1, <1>3 DEF ReplayOK
    <3>4. ASSUME NEW h \in Applied(L, e), NEW d \in Replayed(r) \cup {e},
                 IsDeleted(d), SameKey(h.key, d.key)
          PROVE  d.at < h.at
      <4>1. CASE d = e
        BY <1>3, <3>4, <4>1, AppliedDeletion DEF IsDeleted, L
      <4>2. CASE d \in Replayed(r) /\ \E g \in L : g.key = h.key /\ g.at = h.at
        BY <1>3, <3>4, <4>2 DEF ReplayOK, SameKey, L
      <4>3. CASE /\ d \in Replayed(r)
                 /\ IsCreated(e) /\ e.key = h.key /\ e.at = h.at
        <5>1. d.at <= e.at
          BY <1>1, <1>3, <4>3 DEF ReplayOK
        <5>2. d \in Event /\ Constructed(d) /\ Constructed(e)
          BY <1>3, <4>3 DEF Replayed, TypeOK, Constructed
        <5>3. d.at # e.at
          BY <1>3, <3>4, <4>3, <5>2 DEF TicksInv
        <5>. QED  BY <1>3, <4>3, <5>1, <5>2, <5>3 DEF Event
      <4>. QED  BY <1>3, <3>4, <4>1, <4>2, <4>3, AppliedRows DEF L
    <3>. QED  BY <2>3, <3>1, <3>2, <3>3, <3>4 DEF ReplayOK
  <2>8. ReplayInv'
    <3>. SUFFICES ASSUME NEW q \in Request, phase'[q] = "replaying"
                  PROVE  ReplayOK(q)'
      BY DEF ReplayInv
    <3>1. CASE q # r
      BY <1>2, <1>6, <2>3, <3>1 DEF ReplayInv, ReplayOK, Replayed
    <3>. QED  BY <2>7, <3>1
  <2>. QED  BY <1>4, <2>4, <2>5, <2>6, <2>8
<1>. QED  BY <1>1, <1>5, <1>6

\* An operation: its events have ticks no other event has.
LEMMA OutcomeStep ==
    ASSUME IInv, NEW r \in Request, Outcome(r)
    PROVE  IInv'
<1>1. PICK L, E, now : Leaves(r, L, E, now)
  BY DEF Outcome
<1>. USE DEF IInv
<1>2. /\ L \in SUBSET HappeningInfo /\ OneDefault(L) /\ ExactKeysUnique(L)
      /\ E \in SUBSET Event
      /\ \A e \in E : clock < e.at /\ e.at <= now /\ (IsCreated(e) => E = {e})
      /\ clock \in Nat /\ now \in Nat /\ clock <= now /\ clock' = now
      /\ UNCHANGED <<stream, operation, given, todo, raced>>
  BY <1>1 DEF Leaves, TypeOK, aggregateVars
<1>3. /\ phase' \in [Request -> Phase]
      /\ happenings' \in [Request -> SUBSET HappeningInfo]
      /\ thenEvents' \in [Request -> SUBSET Event]
      /\ phase'[r] \in {"executed", "refused"}
      /\ happenings'[r] = L /\ thenEvents'[r] = E
      /\ \A q \in Request \ {r} : /\ phase'[q] = phase[q]
                                  /\ happenings'[q] = happenings[q]
                                  /\ thenEvents'[q] = thenEvents[q]
  BY <1>1, <1>2 DEF Leaves, TypeOK, Phase
<1>4. TypeOK'
  BY <1>2, <1>3 DEF TypeOK
<1>5. TicksInv'
  <2>1. \A e \in Event : Constructed(e)' => Constructed(e) \/ e \in E
    BY <1>2, <1>3 DEF Constructed
  <2>2. \A e \in Event : Constructed(e) => e.at <= clock
    BY DEF Constructed, TicksInv, Consistent
  <2>3. Consistent(stream, clock)'
    BY <1>2, <2>2 DEF TicksInv, Consistent, Constructed, TypeOK, Event
  <2>4. \A q \in Request : \A e \in thenEvents'[q] :
           /\ e.at <= clock'
           /\ IsCreated(e) => thenEvents'[q] = {e}
    <3>. TAKE q \in Request
    <3>1. CASE q = r
      BY <1>2, <1>3, <3>1
    <3>2. CASE q # r
      <4>. TAKE e \in thenEvents'[q]
      <4>1. e \in thenEvents[q] /\ e \in Event /\ thenEvents'[q] = thenEvents[q]
        BY <1>3, <3>2 DEF TypeOK
      <4>2. e.at <= clock /\ (IsCreated(e) => thenEvents[q] = {e})
        BY <4>1 DEF TicksInv
      <4>3. e.at \in Nat
        BY <4>1 DEF Event
      <4>. QED  BY <1>2, <4>1, <4>2, <4>3
    <3>. QED  BY <3>1, <3>2
  <2>5. \A c, d \in Event :
           Constructed(c)' /\ Constructed(d)' /\ IsCreated(c) /\ IsDeleted(d)
              => c.at # d.at
    <3>. SUFFICES ASSUME NEW c \in Event, NEW d \in Event,
                         Constructed(c)', Constructed(d)',
                         IsCreated(c), IsDeleted(d)
                  PROVE  c.at # d.at
      OBVIOUS
    <3>1. c # d /\ c.at \in Nat /\ d.at \in Nat
      BY DEF IsCreated, IsDeleted, Event
    <3>2. CASE c \in E
      <4>1. d \notin E /\ clock < c.at
        BY <1>2, <3>1, <3>2
      <4>2. d.at <= clock
        BY <2>1, <2>2, <4>1
      <4>. QED  BY <1>2, <3>1, <4>1, <4>2
    <3>3. CASE d \in E /\ c \notin E
      <4>1. c.at <= clock /\ clock < d.at
        BY <1>2, <2>1, <2>2, <3>3
      <4>. QED  BY <1>2, <3>1, <4>1
    <3>4. CASE c \notin E /\ d \notin E
      <4>1. Constructed(c) /\ Constructed(d)
        BY <2>1, <3>4
      <4>. QED  BY <4>1 DEF TicksInv
    <3>. QED  BY <3>2, <3>3, <3>4
  <2>. QED  BY <2>3, <2>4, <2>5 DEF TicksInv
<1>6. ReplayInv'
  <2>. SUFFICES ASSUME NEW q \in Request, phase'[q] = "replaying"
                PROVE  ReplayOK(q)'
    BY DEF ReplayInv
  <2>1. q # r /\ phase[q] = "replaying" /\ happenings'[q] = happenings[q]
    BY <1>3
  <2>. QED  BY <1>2, <2>1 DEF ReplayInv, ReplayOK, Replayed
<1>7. IdleInv'
  BY <1>3 DEF IdleInv
<1>8. UniqueKeys' /\ AtMostOneDefault'
  BY <1>2, <1>3 DEF UniqueKeys, AtMostOneDefault, OneDefault, ExactKeysUnique
<1>. QED  BY <1>4, <1>5, <1>6, <1>7, <1>8

\* The append: a taken RowKey keeps creations of one key apart.
LEMMA AppendStep ==
    ASSUME IInv, NEW r \in Request, AppendEvents(r)
    PROVE  IInv'
<1>. USE DEF IInv
<1>1. /\ UNCHANGED <<clock, operation, given, todo, happenings, thenEvents,
                     raced>>
      /\ \/ stream' = stream
         \/ stream' = stream \cup thenEvents[r] /\ ~RowKeyTaken(r)
      /\ \E p \in {"nothing", "conflict", "appended"} :
            phase' = [phase EXCEPT ![r] = p]
  BY DEF AppendEvents
<1>2. /\ phase' \in [Request -> Phase]
      /\ phase'[r] \notin {"idle", "replaying"}
      /\ \A q \in Request \ {r} : phase'[q] = phase[q]
  BY <1>1 DEF TypeOK, Phase
<1>3. TypeOK'
  BY <1>1, <1>2 DEF TypeOK
<1>4. TicksInv'
  <2>1. \A e : Constructed(e)' => Constructed(e)
    BY <1>1 DEF Constructed
  <2>2. ASSUME stream' = stream \cup thenEvents[r], ~RowKeyTaken(r)
        PROVE  Consistent(stream, clock)'
    <3>1. \A e \in stream' : e \in Event /\ Constructed(e)
      BY <2>2 DEF Constructed, TypeOK
    <3>2. \A e \in stream' : e.at <= clock
      BY <2>2 DEF TicksInv, Consistent
    <3>3. ASSUME NEW c \in stream', NEW d \in stream',
                 IsCreated(c), IsCreated(d), c.key = d.key
          PROVE  c = d
      <4>1. CASE c \in stream /\ d \in stream
        BY <3>3, <4>1 DEF TicksInv, Consistent
      <4>2. CASE c \in thenEvents[r] /\ d \in thenEvents[r]
        BY <3>3, <4>2 DEF TicksInv
      <4>. QED  BY <2>2, <3>3, <4>1, <4>2 DEF RowKeyTaken
    <3>4. \A c, d \in stream' : IsCreated(c) /\ d.type = "HappeningDeleted"
                                    => c.at # d.at
      BY <3>1 DEF TicksInv, IsDeleted
    <3>5. \A c, d \in stream' : IsCreated(c) /\ IsCreated(d) /\ c.key = d.key
                                    => c = d
      BY <3>3
    <3>. QED  BY <1>1, <3>2, <3>4, <3>5 DEF Consistent
  <2>3. Consistent(stream, clock)'
    BY <1>1, <2>2 DEF TicksInv, Consistent
  <2>4. \A c, d \in Event :
           Constructed(c)' /\ Constructed(d)' /\ IsCreated(c) /\ IsDeleted(d)
              => c.at # d.at
    BY <1>1 DEF TicksInv, IsCreated, IsDeleted, Constructed
  <2>. QED  BY <1>1, <2>3, <2>4 DEF TicksInv
<1>5. ReplayInv'
  BY <1>1, <1>2 DEF ReplayInv, ReplayOK, Replayed
<1>6. IdleInv'
  BY <1>1, <1>2 DEF IdleInv
<1>7. UniqueKeys' /\ AtMostOneDefault'
  BY <1>1 DEF UniqueKeys, AtMostOneDefault
<1>. QED  BY <1>3, <1>4, <1>5, <1>6, <1>7

\* A step that changes nothing.
LEMMA StutterInv == IInv /\ UNCHANGED vars => IInv'
<1>. SUFFICES ASSUME IInv, UNCHANGED vars PROVE IInv'
  OBVIOUS
<1>. USE DEF IInv, vars
<1>1. TypeOK'
  BY DEF TypeOK
<1>2. TicksInv'
  BY DEF TicksInv, Constructed, Consistent
<1>3. ReplayInv' /\ IdleInv'
  BY DEF ReplayInv, ReplayOK, Replayed, IdleInv
<1>4. UniqueKeys' /\ AtMostOneDefault'
  BY DEF UniqueKeys, AtMostOneDefault
<1>. QED  BY <1>1, <1>2, <1>3, <1>4

\* A step keeps the invariant.
LEMMA NextInv == IInv /\ [Next]_vars => IInv'
<1>. SUFFICES ASSUME IInv, [Next]_vars PROVE IInv'
  OBVIOUS
<1>1. CASE UNCHANGED vars
  BY <1>1, StutterInv
<1>2. CASE Next
  <2>1. PICK r \in Request :
           \/ \E o \in Operation : Read(r, o)
           \/ ReplayEvent(r)
           \/ AppendEvents(r)
           \/ OperationStep(r)
    BY <1>2 DEF Next, OperationStep
  <2>2. CASE \E o \in Operation : Read(r, o)
    BY <2>2, ReadStep
  <2>3. CASE OperationStep(r)
    BY <2>3, OperationOutcome, OutcomeStep
  <2>. QED  BY <2>1, <2>2, <2>3, ReplayStep, AppendStep
<1>. QED  BY <1>1, <1>2

\* The invariant holds in every state.
LEMMA Invariance == Spec => []IInv
<1>1. Init => IInv
  BY InitInv
<1>2. IInv /\ [Next]_vars => IInv'
  BY NextInv
<1>. QED  BY <1>1, <1>2, PTL DEF Spec

-----------------------------------------------------------------------------
(* What follows for every execution.                                       *)

\* Type correctness, and that the stream only grows under its readers.
THEOREM TypeCorrect == Spec => []TypeOK
<1>1. IInv => TypeOK
  BY DEF IInv
<1>. QED  BY <1>1, Invariance, PTL

\* No execution of an operation or of a replay holds one key twice.
THEOREM KeysAreUnique == Spec => []UniqueKeys
<1>1. IInv => UniqueKeys
  BY DEF IInv
<1>. QED  BY <1>1, Invariance, PTL

\* No execution of an operation or of a replay holds two defaults.
THEOREM OnlyOneDefault == Spec => []AtMostOneDefault
<1>1. IInv => AtMostOneDefault
  BY DEF IInv
<1>. QED  BY <1>1, Invariance, PTL

\* A deleted happening is in no list rebuilt from a stream that deletes it.
THEOREM DeletedStaysDeleted == Spec => []NoResurrection
<1>1. IInv => NoResurrection
  <2>. SUFFICES ASSUME IInv, NEW r \in Request, Rebuilt(r),
                       NEW c \in given[r], NEW d \in given[r],
                       IsCreated(c), d.type = "HappeningDeleted",
                       SameKey(c.key, d.key), c.at < d.at,
                       NEW h \in happenings[r], h.key = c.key
                PROVE  FALSE
    BY DEF NoResurrection, Exactly
  <2>1. ReplayOK(r) /\ Replayed(r) = given[r] /\ given[r] \subseteq stream
    BY DEF IInv, ReplayInv, Rebuilt, Replayed, TypeOK
  <2>2. PICK b \in given[r] : IsCreated(b) /\ b.key = h.key /\ b.at = h.at
    BY <2>1 DEF ReplayOK
  <2>3. b = c
    BY <2>1, <2>2 DEF IInv, TicksInv, Consistent
  <2>4. d.at < h.at
    BY <2>1 DEF ReplayOK, IsDeleted, SameKey
  <2>5. c.at \in Nat /\ d.at \in Nat
    BY <2>1 DEF IInv, TypeOK, Event
  <2>. QED  BY <2>2, <2>3, <2>4, <2>5
<1>. QED  BY <1>1, Invariance, PTL

-----------------------------------------------------------------------------
(* Streams that requests wrote one after the other.                        *)

\* Between two creations of a key, ignoring case, lies its deletion.
DeletedBetween(S, c, d) ==
    \E x \in S : IsDeleted(x) /\ SameKey(x.key, c.key) /\ c.at < x.at /\ x.at < d.at

\* Created before e, and not deleted up to and with e.
AliveAt(S, c, e) ==
    /\ IsCreated(c) /\ SameKey(c.key, e.key) /\ c.at < e.at
    /\ \A x \in S : IsDeleted(x) /\ SameKey(x.key, e.key)
                      => x.at < c.at \/ e.at < x.at

WrittenSerially(S) ==
    /\ \A c, d \in S : IsCreated(c) /\ IsCreated(d) /\ SameKey(c.key, d.key)
                         => c = d \/ DeletedBetween(S, c, d) \/ DeletedBetween(S, d, c)
    /\ \A e \in S : e.type = "HappeningSetAsDefault"
                      => \E c \in S : AliveAt(S, c, e) /\ c.key = e.key
    /\ \A e \in S : e.type = "HappeningStarted" => \E c \in S : AliveAt(S, c, e)

\* A replay keeps the row of what was created and has not been deleted.
RowsKept(r) ==
    \A c \in Replayed(r) :
        IsCreated(c) => \/ \E h \in happenings[r] : h.key = c.key /\ h.at = c.at
                        \/ \E x \in Replayed(r) :
                              IsDeleted(x) /\ SameKey(x.key, c.key) /\ c.at < x.at

\* One request runs at a time, on the whole stream.
OneRuns ==
    /\ \A q, r \in Request : Running(q) /\ Running(r) => q = r
    /\ \A r \in Request : Running(r) => given[r] = stream

Serial ==
    /\ OneRuns
    /\ WrittenSerially(stream)
    /\ \A r \in Request : phase[r] = "executed" => WrittenSerially(stream \cup thenEvents[r])
    /\ \A r \in Request : phase[r] = "replaying" => RowsKept(r)
    /\ \A r \in Request : phase[r] # "poisoned"
    /\ \A r \in Request : KeysUniqueIgnoringCase(happenings[r])

SerialInv == ~raced => Serial

-----------------------------------------------------------------------------
(* Applying events: what stays.                                            *)

\* A row outlives every event but the deletion of its key, with key and time.
LEMMA AppliedKeeps ==
    ASSUME NEW L \in SUBSET HappeningInfo, NEW e \in Event, NEW g \in L,
           ~(IsDeleted(e) /\ SameKey(g.key, e.key))
    PROVE  \E h \in Applied(L, e) : h.key = g.key /\ h.at = g.at
<1>0. \A b \in BOOLEAN :
         /\ [g EXCEPT !.isDefault = b].key = g.key /\ [g EXCEPT !.isDefault = b].at = g.at
         /\ [g EXCEPT !.started = b].key = g.key /\ [g EXCEPT !.started = b].at = g.at
  BY DEF HappeningInfo
<1>1. CASE e.type = "HappeningInventoryItemCreated"
  <2>1. CASE e.isDefault
    <3>1. [g EXCEPT !.isDefault = FALSE] \in Applied(L, e)
      BY <1>1, <2>1 DEF Applied, WhenCreated, MarkAllAsNotDefault
    <3>. QED  BY <1>0, <3>1
  <2>2. CASE ~e.isDefault
    BY <1>1, <2>2 DEF Applied, WhenCreated
  <2>. QED  BY <2>1, <2>2
<1>2. CASE e.type = "HappeningSetAsDefault"
  <2>1. [g EXCEPT !.isDefault = (g = Earliest(Exactly(L, e.key)))] \in Applied(L, e)
    BY <1>2 DEF Applied, WhenSetAsDefault
  <2>. QED  BY <1>0, <2>1
<1>3. CASE e.type = "HappeningDeleted"
  BY <1>3 DEF Applied, WhenDeleted, Matching, IsDeleted
<1>4. CASE e.type = "HappeningStarted"
  <2>1. \/ g \in Applied(L, e)
        \/ [g EXCEPT !.started = TRUE] \in Applied(L, e)
    BY <1>4 DEF Applied, WhenStarted
  <2>. QED  BY <1>0, <2>1
<1>5. CASE e.type \in {"PersonUnlinkFailed", "PersonUnlinkValidated"}
  BY <1>5 DEF Applied
<1>. QED  BY <1>1, <1>2, <1>3, <1>4, <1>5 DEF Event, EventType

\* A creation leaves a row of its key and time.
LEMMA AppliedCreates ==
    ASSUME NEW L \in SUBSET HappeningInfo, NEW e \in Event, IsCreated(e)
    PROVE  \E h \in Applied(L, e) : h.key = e.key /\ h.at = e.at
  BY CreatedRows DEF IsCreated

\* Keys stay unique ignoring case when a creation brings a key that no row
\* matches.
LEMMA AppliedFoldedKeysUnique ==
    ASSUME NEW L \in SUBSET HappeningInfo, NEW e \in Event,
           ExactKeysUnique(L), KeysUniqueIgnoringCase(L),
           IsCreated(e) => Matching(L, e.key) = {}
    PROVE  KeysUniqueIgnoringCase(Applied(L, e))
<1>1. IsCreated(e) => Exactly(L, e.key) = {}
  BY DEF Matching, Exactly, SameKey
<1>2. ExactKeysUnique(Applied(L, e))
  BY <1>1, AppliedExactKeysUnique
<1>. SUFFICES ASSUME NEW x \in Applied(L, e), NEW y \in Applied(L, e),
                     SameKey(x.key, y.key)
              PROVE  x.key = y.key
  BY <1>2 DEF KeysUniqueIgnoringCase, ExactKeysUnique
<1>3. \A z \in Applied(L, e) :
         \/ \E g \in L : g.key = z.key
         \/ IsCreated(e) /\ e.key = z.key
  BY AppliedRows
<1>4. CASE (\E g \in L : g.key = x.key) /\ (\E g \in L : g.key = y.key)
  BY <1>4 DEF KeysUniqueIgnoringCase
<1>5. CASE IsCreated(e) /\ e.key = x.key /\ \E g \in L : g.key = y.key
  BY <1>5 DEF Matching, SameKey
<1>6. CASE IsCreated(e) /\ e.key = y.key /\ \E g \in L : g.key = x.key
  BY <1>6 DEF Matching, SameKey
<1>. QED  BY <1>3, <1>4, <1>5, <1>6

-----------------------------------------------------------------------------
(* What a replay of a serially written stream knows.                       *)

\* What has been replayed of a serially written stream has unique keys.
LEMMA ReplayedKeysUnique ==
    ASSUME IInv, NEW r \in Request, phase[r] = "replaying",
           given[r] = stream, WrittenSerially(stream)
    PROVE  KeysUniqueIgnoringCase(happenings[r])
<1>. SUFFICES ASSUME NEW g \in happenings[r], NEW h \in happenings[r],
                     SameKey(g.key, h.key), g # h
              PROVE  FALSE
  BY DEF KeysUniqueIgnoringCase
<1>1. ReplayOK(r)
  BY DEF IInv, ReplayInv
<1>2. PICK c \in Replayed(r) : IsCreated(c) /\ c.key = g.key /\ c.at = g.at
  BY <1>1 DEF ReplayOK
<1>3. PICK d \in Replayed(r) : IsCreated(d) /\ d.key = h.key /\ d.at = h.at
  BY <1>1 DEF ReplayOK
<1>4. c \in stream /\ d \in stream /\ SameKey(c.key, d.key) /\ stream \subseteq Event
  BY <1>2, <1>3 DEF Replayed, IInv, TypeOK
<1>5. c # d
  BY <1>2, <1>3 DEF IInv, UniqueKeys
<1>6. ASSUME NEW x \in stream, IsDeleted(x), NEW a \in Replayed(r), NEW b \in Replayed(r),
             NEW row \in happenings[r], row.at = a.at, SameKey(x.key, row.key),
             a.at < x.at, x.at < b.at
      PROVE  FALSE
  <2>1. x.at \in Nat /\ b.at \in Nat /\ a.at \in Nat
    BY <1>4, <1>6 DEF Event, Replayed
  <2>2. x \in Replayed(r)
    BY <1>1, <1>6, <2>1 DEF ReplayOK, Replayed
  <2>3. x.at < row.at
    BY <1>1, <1>6, <2>2 DEF ReplayOK, SameKey
  <2>. QED  BY <1>6, <2>1, <2>3
<1>7. CASE DeletedBetween(stream, c, d)
  BY <1>2, <1>3, <1>6, <1>7 DEF DeletedBetween
<1>8. CASE DeletedBetween(stream, d, c)
  BY <1>2, <1>3, <1>6, <1>8 DEF DeletedBetween
<1>. QED  BY <1>2, <1>3, <1>4, <1>5, <1>7, <1>8 DEF WrittenSerially

\* The same, of every request at once.
ReplaysSerially ==
    \A r \in Request :
        phase[r] = "replaying" /\ given[r] = stream /\ WrittenSerially(stream)
            => KeysUniqueIgnoringCase(happenings[r])

\* The list of a request that replays such a stream, at every turn of the loop.
LEMMA ReplayingSerially == IInv => ReplaysSerially
  BY ReplayedKeysUnique DEF ReplaysSerially

\* What is alive when the turn of e comes has its row.
LEMMA AliveHasRow ==
    ASSUME IInv, NEW r \in Request, phase[r] = "replaying",
           given[r] = stream, RowsKept(r),
           NEW e \in todo[r], \A f \in todo[r] : e.at <= f.at,
           NEW c \in stream, AliveAt(stream, c, e)
    PROVE  \E h \in happenings[r] : h.key = c.key
<1>1. ReplayOK(r) /\ stream \subseteq Event /\ e \in stream
  BY DEF IInv, ReplayInv, TypeOK
<1>2. c.at \in Nat /\ e.at \in Nat /\ \A x \in stream : x.at \in Nat
  BY <1>1 DEF Event
<1>3. c \in Replayed(r)
  BY <1>2 DEF AliveAt, Replayed
<1>4. ASSUME NEW x \in Replayed(r), IsDeleted(x), SameKey(x.key, c.key), c.at < x.at
      PROVE  FALSE
  <2>1. x \in stream /\ x.at <= e.at
    BY <1>1 DEF ReplayOK, Replayed
  <2>2. SameKey(x.key, e.key)
    BY <1>4 DEF AliveAt, SameKey
  <2>. QED  BY <1>2, <1>4, <2>1, <2>2 DEF AliveAt
<1>. QED  BY <1>3, <1>4 DEF RowsKept, AliveAt

\* A serially written stream can be replayed: no event throws.
LEMMA NothingThrows ==
    ASSUME IInv, NEW r \in Request, phase[r] = "replaying",
           given[r] = stream, RowsKept(r), WrittenSerially(stream),
           NEW e \in todo[r], \A f \in todo[r] : e.at <= f.at
    PROVE  ~Throws(happenings[r], e)
<1>1. e \in stream
  BY DEF IInv, TypeOK
<1>2. CASE e.type = "HappeningSetAsDefault"
  <2>1. PICK c \in stream : AliveAt(stream, c, e) /\ c.key = e.key
    BY <1>1, <1>2 DEF WrittenSerially
  <2>2. Exactly(happenings[r], e.key) # {}
    BY <2>1, AliveHasRow DEF Exactly
  <2>. QED  BY <1>2, <2>2 DEF Throws
<1>3. CASE e.type = "HappeningStarted"
  <2>1. PICK c \in stream : AliveAt(stream, c, e)
    BY <1>1, <1>3 DEF WrittenSerially
  <2>2. PICK h \in happenings[r] : h.key = c.key
    BY <2>1, AliveHasRow
  <2>3. Matching(happenings[r], e.key) # {}
    BY <2>1, <2>2 DEF Matching, AliveAt
  <2>. QED  BY <1>3, <2>3 DEF Throws
<1>. QED  BY <1>2, <1>3 DEF Throws

-----------------------------------------------------------------------------
(* What an operation adds to a serially written stream.                    *)

\* Everything in the stream is older than the tick of a new event.
LEMMA StreamIsOlder ==
    ASSUME IInv
    PROVE  /\ clock \in Nat
           /\ \A x \in stream : x.at \in Nat /\ x.at < clock + 1
<1>1. clock \in Nat /\ stream \subseteq Event /\ \A x \in stream : x.at <= clock
  BY DEF IInv, TypeOK, TicksInv, Consistent
<1>2. \A x \in stream : x.at \in Nat
  BY <1>1 DEF Event
<1>. QED  BY <1>1, <1>2

\* A row of a rebuilt list is alive for every event constructed from now on.
LEMMA RowIsAlive ==
    ASSUME IInv, NEW r \in Request, Rebuilt(r), given[r] = stream,
           NEW h \in happenings[r], NEW e \in Event, clock + 1 <= e.at,
           SameKey(h.key, e.key)
    PROVE  \E c \in stream : AliveAt(stream, c, e) /\ c.key = h.key
<1>1. ReplayOK(r) /\ Replayed(r) = stream
  BY DEF IInv, ReplayInv, Rebuilt, Replayed
<1>2. PICK c \in stream : IsCreated(c) /\ c.key = h.key /\ c.at = h.at
  BY <1>1 DEF ReplayOK
<1>3. c.at < e.at
  BY <1>2, StreamIsOlder DEF Event
<1>4. \A x \in stream : IsDeleted(x) /\ SameKey(x.key, e.key) => x.at < c.at
  BY <1>1, <1>2 DEF ReplayOK, SameKey
<1>. QED  BY <1>2, <1>3, <1>4 DEF AliveAt, SameKey

\* What was alive stays alive when younger events are added.
LEMMA AliveStays ==
    ASSUME NEW S, NEW E, NEW c, NEW e, AliveAt(S, c, e),
           \A y \in E : IsDeleted(y) => e.at < y.at
    PROVE  AliveAt(S \cup E, c, e)
  BY DEF AliveAt

\* A batch that is younger than the stream leaves it serially written, when
\* its creation finds nothing of its key and its other events what they need.
LEMMA BatchIsSerial ==
    ASSUME IInv, WrittenSerially(stream),
           NEW E \in SUBSET Event, \A e \in E : clock + 1 <= e.at,
           \A c, d \in E : IsCreated(c) /\ IsCreated(d) => c = d,
           \A c \in E, d \in stream :
              IsCreated(c) /\ IsCreated(d) /\ SameKey(c.key, d.key)
                 => DeletedBetween(stream, d, c),
           \A e \in E : e.type = "HappeningSetAsDefault"
              => \E c \in stream : AliveAt(stream \cup E, c, e) /\ c.key = e.key,
           \A e \in E : e.type = "HappeningStarted"
              => \E c \in stream : AliveAt(stream \cup E, c, e)
    PROVE  WrittenSerially(stream \cup E)
<1>1. ASSUME NEW e \in stream, NEW y \in E
      PROVE  e.at < y.at
  <2>1. y.at \in Nat /\ clock + 1 <= y.at
    BY DEF Event
  <2>2. e.at < clock + 1 /\ e.at \in Nat /\ clock \in Nat
    BY StreamIsOlder
  <2>. QED  BY <2>1, <2>2
<1>2. \A c, d \in stream : DeletedBetween(stream, c, d) => DeletedBetween(stream \cup E, c, d)
  BY DEF DeletedBetween
<1>3. ASSUME NEW c \in stream \cup E, NEW d \in stream \cup E,
             IsCreated(c), IsCreated(d), SameKey(c.key, d.key), c # d
      PROVE  DeletedBetween(stream \cup E, c, d) \/ DeletedBetween(stream \cup E, d, c)
  <2>1. CASE c \in stream /\ d \in stream
    BY <1>2, <1>3, <2>1 DEF WrittenSerially
  <2>2. CASE c \in E /\ d \in stream
    BY <1>3, <2>2 DEF DeletedBetween
  <2>3. CASE c \in stream /\ d \in E
    BY <1>3, <2>3 DEF DeletedBetween, SameKey
  <2>. QED  BY <1>3, <2>1, <2>2, <2>3
<1>4. ASSUME NEW e \in stream \cup E, e.type = "HappeningSetAsDefault"
      PROVE  \E c \in stream \cup E : AliveAt(stream \cup E, c, e) /\ c.key = e.key
  <2>1. CASE e \in E
    BY <1>4, <2>1
  <2>2. CASE e \in stream
    BY <1>1, <1>4, <2>2, AliveStays DEF WrittenSerially
  <2>. QED  BY <2>1, <2>2
<1>5. ASSUME NEW e \in stream \cup E, e.type = "HappeningStarted"
      PROVE  \E c \in stream \cup E : AliveAt(stream \cup E, c, e)
  <2>1. CASE e \in E
    BY <1>5, <2>1
  <2>2. CASE e \in stream
    BY <1>1, <1>5, <2>2, AliveStays DEF WrittenSerially
  <2>. QED  BY <2>1, <2>2
<1>. QED  BY <1>3, <1>4, <1>5 DEF WrittenSerially

\* What a serial operation leaves: a batch that keeps the stream serial, and
\* a list whose keys are unique ignoring case.
SerialOutcome(r) ==
    /\ phase' \in {[phase EXCEPT ![r] = "executed"], [phase EXCEPT ![r] = "refused"]}
    /\ \E E, L : /\ thenEvents' = [thenEvents EXCEPT ![r] = E]
                 /\ happenings' = [happenings EXCEPT ![r] = L]
                 /\ WrittenSerially(stream \cup E)
                 /\ KeysUniqueIgnoringCase(L)
    /\ UNCHANGED <<stream, given, raced>>

\* Refusing, and returning without an event.
LEMMA NoEventSerial ==
    ASSUME IInv, Serial, NEW r \in Request, Rebuilt(r), UNCHANGED aggregateVars,
           Refuse(r) \/ ApplyNothing(r)
    PROVE  SerialOutcome(r)
<1>1. thenEvents[r] = {}
  BY DEF IInv, IdleInv, Rebuilt
<1>2. /\ thenEvents' = [thenEvents EXCEPT ![r] = {}]
      /\ happenings' = [happenings EXCEPT ![r] = happenings[r]]
      /\ phase' \in {[phase EXCEPT ![r] = "executed"], [phase EXCEPT ![r] = "refused"]}
  BY <1>1 DEF Refuse, ApplyNothing, IInv, TypeOK
<1>3. stream \cup {} = stream
  OBVIOUS
<1>. QED  BY <1>2, <1>3 DEF SerialOutcome, Serial, aggregateVars

\* Applying one event to the list, when its list has what it needs.
LEMMA ApplyOneSerial ==
    ASSUME IInv, Serial, NEW r \in Request, Rebuilt(r), UNCHANGED aggregateVars,
           NEW e \in Event, e.at = clock + 1,
           IsCreated(e) => Matching(happenings[r], e.key) = {},
           ApplyOne(r, e)
    PROVE  SerialOutcome(r)
<1>1. CASE Refuse(r)
  BY <1>1, NoEventSerial
<1>2. CASE /\ ~Throws(happenings[r], e)
           /\ phase' = [phase EXCEPT ![r] = "executed"]
           /\ happenings' = [happenings EXCEPT ![r] = Applied(@, e)]
           /\ thenEvents' = [thenEvents EXCEPT ![r] = {e}]
  <2>1. /\ happenings[r] \in SUBSET HappeningInfo /\ ExactKeysUnique(happenings[r])
        /\ KeysUniqueIgnoringCase(happenings[r])
    BY DEF IInv, TypeOK, UniqueKeys, ExactKeysUnique, Serial
  <2>2. KeysUniqueIgnoringCase(Applied(happenings[r], e))
    BY <2>1, AppliedFoldedKeysUnique
  <2>3. given[r] = stream /\ RowsKept(r) /\ Replayed(r) = stream /\ WrittenSerially(stream)
    BY DEF Serial, OneRuns, Running, Rebuilt, Replayed
  <2>4. clock + 1 <= e.at /\ clock \in Nat
    BY StreamIsOlder
  <2>5. ASSUME NEW d \in stream, IsCreated(e), IsCreated(d), SameKey(e.key, d.key)
        PROVE  DeletedBetween(stream, d, e)
    <3>1. ~\E h \in happenings[r] : h.key = d.key
      BY <2>5 DEF Matching, SameKey
    <3>2. PICK x \in stream : IsDeleted(x) /\ SameKey(x.key, d.key) /\ d.at < x.at
      BY <2>3, <2>5, <3>1 DEF RowsKept
    <3>3. x.at < e.at
      BY <3>2, StreamIsOlder
    <3>. QED  BY <3>2, <3>3 DEF DeletedBetween
  <2>6. ASSUME NEW h \in happenings[r], SameKey(h.key, e.key), ~IsDeleted(e)
        PROVE  \E c \in stream : AliveAt(stream \cup {e}, c, e) /\ c.key = h.key
    BY <2>3, <2>4, <2>6, RowIsAlive, AliveStays
  <2>7. ASSUME e.type = "HappeningSetAsDefault"
        PROVE  \E c \in stream : AliveAt(stream \cup {e}, c, e) /\ c.key = e.key
    <3>1. PICK h \in happenings[r] : h.key = e.key
      BY <1>2, <2>7 DEF Throws, Exactly
    <3>. QED  BY <2>6, <2>7, <3>1 DEF SameKey, IsDeleted
  <2>8. ASSUME e.type = "HappeningStarted"
        PROVE  \E c \in stream : AliveAt(stream \cup {e}, c, e)
    <3>1. PICK h \in happenings[r] : SameKey(h.key, e.key)
      BY <1>2, <2>8 DEF Throws, Matching
    <3>. QED  BY <2>6, <2>8, <3>1 DEF IsDeleted
  <2>9. WrittenSerially(stream \cup {e})
    <3>1. {e} \in SUBSET Event
      OBVIOUS
    <3>2. /\ \A f \in {e} : clock + 1 <= f.at
          /\ \A c, d \in {e} : IsCreated(c) /\ IsCreated(d) => c = d
          /\ \A c \in {e}, d \in stream :
                IsCreated(c) /\ IsCreated(d) /\ SameKey(c.key, d.key)
                   => DeletedBetween(stream, d, c)
      BY <2>4, <2>5
    <3>3. /\ \A f \in {e} : f.type = "HappeningSetAsDefault"
                => \E c \in stream : AliveAt(stream \cup {e}, c, f) /\ c.key = f.key
          /\ \A f \in {e} : f.type = "HappeningStarted"
                => \E c \in stream : AliveAt(stream \cup {e}, c, f)
      BY <2>7, <2>8
    <3>. QED  BY <2>3, <3>1, <3>2, <3>3, BatchIsSerial
  <2>10. happenings' = [happenings EXCEPT ![r] = Applied(happenings[r], e)]
    BY <1>2
  <2>. QED  BY <1>2, <2>2, <2>9, <2>10 DEF SerialOutcome, aggregateVars
<1>. QED  BY <1>1, <1>2 DEF ApplyOne

\* Delete with its two events.
LEMMA DeleteSerial ==
    ASSUME IInv, Serial, NEW r \in Request, Delete(r)
    PROVE  SerialOutcome(r)
<1>. DEFINE deleted == NewEvent(r, "HappeningDeleted")
            left == Applied(happenings[r], deleted)
<1>1. Rebuilt(r) /\ Ready(r, "Delete") /\ UNCHANGED aggregateVars
  BY DEF Delete, Ready
<1>2. /\ deleted \in Event /\ deleted.at = clock + 1
      /\ deleted.type = "HappeningDeleted"
  BY <1>1, NewEventIsEvent DEF EventType, OperationKind
<1>. HIDE DEF deleted, left
<1>3. CASE ApplyNothing(r)
  BY <1>1, <1>3, NoEventSerial
<1>4. CASE ApplyOne(r, deleted)
  BY <1>1, <1>2, <1>4, ApplyOneSerial DEF IsCreated
<1>5. ASSUME left # {}, NEW tick \in {clock + 1, clock + 2}, NEW e,
             e = [type |-> "HappeningSetAsDefault", key |-> Latest(left).key,
                  isDefault |-> FALSE, at |-> tick],
             phase' = [phase EXCEPT ![r] = "executed"],
             happenings' = [happenings EXCEPT ![r] = Applied(left, e)],
             thenEvents' = [thenEvents EXCEPT ![r] = {deleted, e}]
      PROVE  SerialOutcome(r)
  <2>1. /\ happenings[r] \in SUBSET HappeningInfo /\ ExactKeysUnique(happenings[r])
        /\ KeysUniqueIgnoringCase(happenings[r]) /\ clock \in Nat
    BY DEF IInv, TypeOK, UniqueKeys, ExactKeysUnique, Serial
  <2>2. /\ left \in SUBSET HappeningInfo /\ ExactKeysUnique(left)
        /\ KeysUniqueIgnoringCase(left)
        /\ \A h \in left : h \in happenings[r] /\ ~SameKey(h.key, deleted.key)
    BY <1>2, <2>1, AppliedRows, AppliedExactKeysUnique, AppliedFoldedKeysUnique,
       AppliedDeletion DEF left, IsCreated
  <2>3. Latest(left) \in left
    BY <1>1, <1>5, <2>1, <2>2, LatestExists, RebuiltInThePast
  <2>4. /\ e \in Event /\ e.at = tick /\ ~IsCreated(e) /\ ~IsDeleted(e)
        /\ e.key = Latest(left).key /\ tick \in Nat
    BY <1>5, <2>1, <2>2, <2>3 DEF Event, EventType, HappeningInfo, IsCreated, IsDeleted
  <2>5. KeysUniqueIgnoringCase(Applied(left, e))
    BY <2>2, <2>4, AppliedFoldedKeysUnique
  <2>6. given[r] = stream /\ WrittenSerially(stream)
    BY <1>1 DEF Serial, OneRuns, Running, Rebuilt
  <2>7. clock + 1 <= e.at /\ clock + 1 <= deleted.at
    BY <1>2, <1>5, <2>1, <2>4
  <2>8. PICK c \in stream : AliveAt(stream, c, e) /\ c.key = e.key
    BY <1>1, <2>2, <2>3, <2>4, <2>6, <2>7, RowIsAlive DEF SameKey
  <2>9. AliveAt(stream \cup {deleted, e}, c, e)
    BY <2>2, <2>3, <2>4, <2>8 DEF AliveAt, SameKey
  <2>10. WrittenSerially(stream \cup {deleted, e})
    <3>1. {deleted, e} \in SUBSET Event
      BY <1>2, <2>4
    <3>2. /\ \A f \in {deleted, e} : clock + 1 <= f.at
          /\ \A f \in {deleted, e} : ~IsCreated(f)
      BY <1>2, <2>4, <2>7 DEF IsCreated
    <3>3. /\ deleted.type # "HappeningSetAsDefault" /\ deleted.type # "HappeningStarted"
          /\ e.type # "HappeningStarted"
      BY <1>2, <1>5
    <3>4. \A f \in {deleted, e} : f.type = "HappeningSetAsDefault"
             => \E d \in stream : AliveAt(stream \cup {deleted, e}, d, f) /\ d.key = f.key
      BY <2>8, <2>9, <3>3
    <3>. QED  BY <2>6, <3>1, <3>2, <3>3, <3>4, BatchIsSerial
  <2>. QED  BY <1>1, <1>5, <2>5, <2>10 DEF SerialOutcome, aggregateVars
<1>. QED  BY <1>3, <1>4, <1>5 DEF Delete, deleted, left

\* Every operation.
LEMMA OperationSerial ==
    ASSUME IInv, Serial, NEW r \in Request, OperationStep(r)
    PROVE  SerialOutcome(r)
<1>. USE DEF EventType, OperationKind
<1>1. CASE Create(r)
  <2>. DEFINE e == NewEvent(r, "HappeningInventoryItemCreated")
  <2>1. Rebuilt(r) /\ Ready(r, "Create") /\ UNCHANGED aggregateVars
    BY <1>1 DEF Create, Ready
  <2>2. e \in Event /\ e.at = clock + 1 /\ e.key = operation[r].key
    BY <2>1, NewEventIsEvent
  <2>3. Refuse(r) \/ (Found(r) = {} /\ ApplyOne(r, e))
    BY <1>1 DEF Create
  <2>. HIDE DEF e
  <2>4. Found(r) = {} => Matching(happenings[r], e.key) = {}
    BY <2>2 DEF Found
  <2>. QED  BY <2>1, <2>2, <2>3, <2>4, NoEventSerial, ApplyOneSerial
<1>2. CASE ChangeDefault(r)
  <2>. DEFINE e == NewEvent(r, "HappeningSetAsDefault")
  <2>1. Rebuilt(r) /\ Ready(r, "ChangeDefault") /\ UNCHANGED aggregateVars
    BY <1>2 DEF ChangeDefault, Ready
  <2>2. e \in Event /\ e.at = clock + 1 /\ ~IsCreated(e)
    BY <2>1, NewEventIsEvent DEF IsCreated
  <2>3. ApplyNothing(r) \/ ApplyOne(r, e)
    BY <1>2 DEF ChangeDefault
  <2>. HIDE DEF e
  <2>. QED  BY <2>1, <2>2, <2>3, NoEventSerial, ApplyOneSerial
<1>3. CASE Delete(r)
  BY <1>3, DeleteSerial
<1>4. CASE Start(r)
  <2>. DEFINE e == NewEvent(r, "HappeningStarted")
  <2>1. Rebuilt(r) /\ Ready(r, "Start") /\ UNCHANGED aggregateVars
    BY <1>4 DEF Start, Ready
  <2>2. e \in Event /\ e.at = clock + 1 /\ ~IsCreated(e)
    BY <2>1, NewEventIsEvent DEF IsCreated
  <2>3. ApplyNothing(r) \/ ApplyOne(r, e)
    BY <1>4 DEF Start
  <2>. HIDE DEF e
  <2>. QED  BY <2>1, <2>2, <2>3, NoEventSerial, ApplyOneSerial
<1>5. CASE ValidatePersonUnlink(r)
  <2>. DEFINE e(type) == NewEvent(r, type)
              Types == {"PersonUnlinkFailed", "PersonUnlinkValidated"}
  <2>1. /\ Rebuilt(r) /\ Ready(r, "ValidatePersonUnlink")
        /\ UNCHANGED aggregateVars
    BY <1>5 DEF ValidatePersonUnlink, Ready
  <2>2. \A type \in Types :
           e(type) \in Event /\ e(type).at = clock + 1 /\ ~IsCreated(e(type))
    BY <2>1, NewEventIsEvent DEF IsCreated
  <2>3. ApplyNothing(r) \/ \E type \in Types : ApplyOne(r, e(type))
    BY <1>5 DEF ValidatePersonUnlink
  <2>. HIDE DEF e
  <2>. QED  BY <2>1, <2>2, <2>3, NoEventSerial, ApplyOneSerial
<1>. QED  BY <1>1, <1>2, <1>3, <1>4, <1>5 DEF OperationStep

-----------------------------------------------------------------------------
(* Initially and step by step.                                             *)

\* The streams that were there before were written by requests one after the
\* other, too.
InitiallySerial == \A S \in InitialStreams : WrittenSerially(S)

\* The serial invariant holds at first.
LEMMA InitSerial == InitiallySerial /\ Init => Serial
  BY DEF InitiallySerial, Init, Serial, OneRuns, Running, KeysUniqueIgnoringCase

\* Reading the stream when no other request runs.
LEMMA ReadSerial ==
    ASSUME IInv, Serial, NEW r \in Request, NEW o \in Operation, Read(r, o), ~raced'
    PROVE  Serial'
<1>1. /\ phase' = [phase EXCEPT ![r] = "replaying"]
      /\ given' = [given EXCEPT ![r] = stream] /\ todo' = [todo EXCEPT ![r] = stream]
      /\ UNCHANGED <<stream, happenings, thenEvents>>
      /\ \A q \in Request : ~Running(q)
  BY DEF Read
<1>2. /\ phase'[r] = "replaying" /\ given'[r] = stream /\ todo'[r] = stream
      /\ \A q \in Request \ {r} : phase'[q] = phase[q]
  BY <1>1 DEF IInv, TypeOK
<1>3. OneRuns'
  BY <1>1, <1>2 DEF OneRuns, Running
<1>4. RowsKept(r)'
  BY <1>1, <1>2 DEF RowsKept, Replayed
<1>5. \A q \in Request : phase'[q] = "replaying" => RowsKept(q)'
  BY <1>1, <1>2, <1>4 DEF Running
<1>. QED  BY <1>1, <1>2, <1>3, <1>5 DEF Serial, Running

\* One turn of the replay.
LEMMA ReplaySerial ==
    ASSUME IInv, ReplaysSerially', Serial, NEW r \in Request, ReplayEvent(r)
    PROVE  Serial'
<1>1. /\ phase[r] = "replaying"
      /\ UNCHANGED <<stream, given, thenEvents, raced>>
  BY DEF ReplayEvent
<1>2. /\ given[r] = stream /\ RowsKept(r) /\ WrittenSerially(stream)
  BY <1>1 DEF Serial, OneRuns, Running
<1>3. PICK e \in todo[r] :
         /\ \A f \in todo[r] : e.at <= f.at
         /\ happenings' = [happenings EXCEPT ![r] = Applied(@, e)]
         /\ todo' = [todo EXCEPT ![r] = @ \ {e}]
         /\ UNCHANGED phase
  BY <1>1, <1>2, NothingThrows DEF ReplayEvent
<1>4. /\ happenings'[r] = Applied(happenings[r], e) /\ todo'[r] = todo[r] \ {e}
      /\ \A q \in Request \ {r} : happenings'[q] = happenings[q]
  BY <1>3 DEF IInv, TypeOK
<1>5. /\ e \in stream /\ e \in given[r] /\ stream \subseteq Event /\ ReplayOK(r)
      /\ happenings[r] \in SUBSET HappeningInfo
  BY <1>1 DEF IInv, TypeOK, ReplayInv
<1>6. Replayed(r)' = Replayed(r) \cup {e}
  BY <1>1, <1>4, <1>5 DEF Replayed
<1>7. RowsKept(r)'
  <2>. SUFFICES ASSUME NEW c \in Replayed(r) \cup {e}, IsCreated(c)
                PROVE  \/ \E h \in Applied(happenings[r], e) : h.key = c.key /\ h.at = c.at
                       \/ \E x \in Replayed(r) \cup {e} :
                             IsDeleted(x) /\ SameKey(x.key, c.key) /\ c.at < x.at
    BY <1>4, <1>6 DEF RowsKept
  <2>1. CASE c = e
    BY <1>5, <2>1, AppliedCreates
  <2>2. CASE c \in Replayed(r) /\ IsDeleted(e) /\ SameKey(e.key, c.key)
    <3>1. c.at <= e.at /\ c \in stream
      BY <1>5, <2>2 DEF ReplayOK, Replayed, IInv, TypeOK
    <3>2. c.at # e.at /\ c.at \in Nat /\ e.at \in Nat
      BY <1>5, <2>2, <3>1 DEF IInv, TicksInv, Consistent, Event, IsDeleted
    <3>. QED  BY <2>2, <3>1, <3>2
  <2>3. ASSUME c \in Replayed(r), NEW h \in happenings[r], h.key = c.key, h.at = c.at,
               ~(IsDeleted(e) /\ SameKey(e.key, c.key))
        PROVE  \E g \in Applied(happenings[r], e) : g.key = c.key /\ g.at = c.at
    BY <1>5, <2>3, AppliedKeeps DEF SameKey
  <2>. QED  BY <1>2, <2>1, <2>2, <2>3 DEF RowsKept
<1>8. OneRuns' /\ \A q \in Request : phase'[q] = "replaying" => q = r
  BY <1>1, <1>3 DEF Serial, OneRuns, Running
<1>9. KeysUniqueIgnoringCase(happenings[r])'
  <2>1. phase'[r] = "replaying" /\ given'[r] = stream' /\ WrittenSerially(stream)'
    BY <1>1, <1>2, <1>3
  <2>. QED  BY <2>1 DEF ReplaysSerially
<1>. QED  BY <1>1, <1>3, <1>4, <1>7, <1>8, <1>9 DEF Serial

\* An operation.
LEMMA OutcomeSerial ==
    ASSUME IInv, Serial, NEW r \in Request, Rebuilt(r), SerialOutcome(r)
    PROVE  Serial'
<1>1. PICK E, L : /\ thenEvents' = [thenEvents EXCEPT ![r] = E]
                  /\ happenings' = [happenings EXCEPT ![r] = L]
                  /\ WrittenSerially(stream \cup E)
                  /\ KeysUniqueIgnoringCase(L)
  BY DEF SerialOutcome
<1>2. /\ phase' \in {[phase EXCEPT ![r] = "executed"], [phase EXCEPT ![r] = "refused"]}
      /\ UNCHANGED <<stream, given, raced>>
  BY DEF SerialOutcome
<1>3. /\ phase'[r] \in {"executed", "refused"}
      /\ thenEvents'[r] = E /\ happenings'[r] = L
      /\ \A q \in Request \ {r} : /\ phase'[q] = phase[q] /\ thenEvents'[q] = thenEvents[q]
                                  /\ happenings'[q] = happenings[q]
  BY <1>1, <1>2 DEF IInv, TypeOK
<1>4. \A q \in Request \ {r} : ~Running(q)
  BY DEF Serial, OneRuns, Running, Rebuilt
<1>5. OneRuns'
  BY <1>2, <1>3, <1>4 DEF Serial, OneRuns, Running, Rebuilt
<1>. QED  BY <1>1, <1>2, <1>3, <1>4, <1>5 DEF Serial, Running

\* The append.
LEMMA AppendSerial ==
    ASSUME IInv, Serial, NEW r \in Request, AppendEvents(r)
    PROVE  Serial'
<1>1. /\ phase[r] = "executed"
      /\ UNCHANGED <<given, todo, happenings, thenEvents, raced>>
      /\ stream' = stream \/ stream' = stream \cup thenEvents[r]
      /\ \E p \in {"nothing", "conflict", "appended"} : phase' = [phase EXCEPT ![r] = p]
  BY DEF AppendEvents
<1>2. /\ phase'[r] \in {"nothing", "conflict", "appended"}
      /\ \A q \in Request \ {r} : phase'[q] = phase[q] /\ ~Running(q)
  BY <1>1 DEF IInv, TypeOK, Serial, OneRuns, Running
<1>3. WrittenSerially(stream')
  BY <1>1 DEF Serial
<1>. QED  BY <1>1, <1>2, <1>3 DEF Serial, OneRuns, Running

\* A step keeps the serial invariant.
LEMMA NextSerial ==
    ASSUME IInv, ReplaysSerially', [Next]_vars, SerialInv
    PROVE  SerialInv'
<1>. SUFFICES ASSUME ~raced' PROVE Serial'
  BY DEF SerialInv
<1>1. CASE UNCHANGED vars
  BY <1>1 DEF vars, SerialInv, Serial, OneRuns, Running, RowsKept, Replayed
<1>2. CASE Next
  <2>1. PICK r \in Request :
           \/ \E o \in Operation : Read(r, o)
           \/ ReplayEvent(r)
           \/ AppendEvents(r)
           \/ OperationStep(r)
    BY <1>2 DEF Next, OperationStep
  <2>2. ~raced
    BY <2>1 DEF Read, ReplayEvent, AppendEvents, OperationStep, Create, ChangeDefault,
                Delete, Start, ValidatePersonUnlink, aggregateVars
  <2>3. Serial
    BY <2>2 DEF SerialInv
  <2>4. OperationStep(r) => Rebuilt(r)
    BY DEF OperationStep, Create, ChangeDefault, Delete, Start, ValidatePersonUnlink, Ready
  <2>. QED  BY <2>1, <2>3, <2>4, ReadSerial, ReplaySerial, AppendSerial, OperationSerial,
               OutcomeSerial
<1>. QED  BY <1>1, <1>2

\* The serial invariant holds in every state.
LEMMA SerialInvariance == InitiallySerial /\ Spec => []SerialInv
<1>1. InitiallySerial /\ Init => SerialInv
  BY InitSerial DEF SerialInv
<1>2. IInv /\ ReplaysSerially' /\ [Next]_vars /\ SerialInv => SerialInv'
  BY NextSerial
<1>. QED  BY <1>1, <1>2, ReplayingSerially, Invariance, PTL DEF Spec

-----------------------------------------------------------------------------
(* What follows as long as requests do not overlap.                        *)

\* Every stream that requests write one after the other can be replayed, by
\* every number of them.
THEOREM SerialStreamsCanBeReplayed == InitiallySerial /\ Spec => []SerialStreamsReplay
<1>1. SerialInv => SerialStreamsReplay
  BY DEF SerialInv, Serial, SerialStreamsReplay
<1>. QED  BY <1>1, SerialInvariance, PTL

\* No two happenings of a list have keys that differ only in case, although the
\* rows of the table are told apart by the exact key.
THEOREM SerialKeysAreUnique == InitiallySerial /\ Spec => []SerialKeysUnique
<1>1. SerialInv => SerialKeysUnique
  BY DEF SerialInv, Serial, SerialKeysUnique
<1>. QED  BY <1>1, SerialInvariance, PTL

-----------------------------------------------------------------------------
(* The default.                                                            *)

\* A non-empty list of happenings has a first row.
LEMMA EarliestExists ==
    ASSUME NEW L \in SUBSET HappeningInfo, L # {}
    PROVE  Earliest(L) \in L
<1>. DEFINE Ats == {h.at : h \in L}
<1>1. Ats \in SUBSET Nat /\ Ats # {}
  BY DEF HappeningInfo
<1>2. PICK m \in Ats : \A n \in Ats : m <= n
  BY <1>1, NatMin
<1>3. PICK h \in L : m = h.at
  BY <1>2
<1>4. \A g \in L : h.at <= g.at
  BY <1>2, <1>3
<1>. QED  BY <1>4 DEF Earliest

\* Only a deletion takes the default away: a creation may bring the new one,
\* the setting of a default finds the row it is about.
LEMMA AppliedKeepsDefault ==
    ASSUME NEW L \in SUBSET HappeningInfo, NEW e \in Event, ~Throws(L, e),
           HasDefault(L), ~IsDeleted(e)
    PROVE  HasDefault(Applied(L, e))
<1>1. PICK g \in L : g.isDefault
  BY DEF HasDefault
<1>2. CASE e.type = "HappeningInventoryItemCreated"
  <2>1. CASE e.isDefault
    <3>1. PICK new \in Applied(L, e) : new.isDefault = e.isDefault
      BY <1>2, CreatedRows
    <3>. QED  BY <2>1, <3>1 DEF HasDefault
  <2>2. CASE ~e.isDefault
    BY <1>1, <1>2, <2>2 DEF Applied, WhenCreated, HasDefault
  <2>. QED  BY <2>1, <2>2
<1>3. CASE e.type = "HappeningSetAsDefault"
  <2>. DEFINE first == Earliest(Exactly(L, e.key))
  <2>1. first \in L
    <3>1. Exactly(L, e.key) # {} /\ Exactly(L, e.key) \in SUBSET HappeningInfo
      BY <1>3 DEF Throws, Exactly
    <3>2. first \in Exactly(L, e.key)
      BY <3>1, EarliestExists
    <3>. QED  BY <3>2 DEF Exactly
  <2>. HIDE DEF first
  <2>2. [first EXCEPT !.isDefault = (first = first)] \in Applied(L, e)
    BY <1>3, <2>1 DEF Applied, WhenSetAsDefault, first
  <2>3. [first EXCEPT !.isDefault = (first = first)].isDefault
    BY <2>1 DEF HappeningInfo
  <2>. QED  BY <2>2, <2>3 DEF HasDefault
<1>4. CASE e.type = "HappeningStarted"
  <2>1. \/ g \in Applied(L, e)
        \/ [g EXCEPT !.started = TRUE] \in Applied(L, e)
    BY <1>4 DEF Applied, WhenStarted
  <2>2. [g EXCEPT !.started = TRUE].isDefault
    BY <1>1 DEF HappeningInfo
  <2>. QED  BY <1>1, <2>1, <2>2 DEF HasDefault
<1>5. CASE e.type \in {"PersonUnlinkFailed", "PersonUnlinkValidated"}
  BY <1>5 DEF Applied
<1>. QED  BY <1>2, <1>3, <1>4, <1>5 DEF Event, EventType, IsDeleted

DefaultKept(r) == HasDefault(happenings'[r]) \/ happenings'[r] = {}

\* Returning without an event, or with one that is not a deletion.
LEMMA ApplyOneKeepsDefault ==
    ASSUME IInv, NEW r \in Request, HasDefault(happenings[r]),
           phase'[r] = "executed", NEW e \in Event, ~IsDeleted(e),
           ApplyNothing(r) \/ ApplyOne(r, e) \/ Refuse(r)
    PROVE  DefaultKept(r)
<1>1. CASE ApplyNothing(r) \/ Refuse(r)
  BY <1>1 DEF ApplyNothing, Refuse, DefaultKept
<1>2. CASE ~Throws(happenings[r], e) /\ happenings' = [happenings EXCEPT ![r] = Applied(@, e)]
  <2>1. happenings[r] \in SUBSET HappeningInfo
        /\ happenings'[r] = Applied(happenings[r], e)
    BY <1>2 DEF IInv, TypeOK
  <2>. QED  BY <1>2, <2>1, AppliedKeepsDefault DEF DefaultKept
<1>. QED  BY <1>1, <1>2 DEF ApplyOne

\* Delete: the default goes only with the last happening, or is replaced.
LEMMA DeleteKeepsDefault ==
    ASSUME IInv, NEW r \in Request, HasDefault(happenings[r]),
           KeysUniqueIgnoringCase(happenings[r]),
           phase'[r] = "executed", Delete(r)
    PROVE  DefaultKept(r)
<1>. DEFINE deleted == NewEvent(r, "HappeningDeleted")
            left == Applied(happenings[r], deleted)
            L == happenings[r]
<1>1. Rebuilt(r) /\ Ready(r, "Delete") /\ happenings \in [Request -> SUBSET HappeningInfo]
  BY DEF Delete, Ready, IInv, TypeOK
<1>2. /\ deleted \in Event /\ deleted.key = operation[r].key
      /\ deleted.type = "HappeningDeleted"
  BY <1>1, NewEventIsEvent DEF EventType, OperationKind
<1>. HIDE DEF deleted
<1>3. /\ L \in SUBSET HappeningInfo
      /\ left = L \ Found(r)
  BY <1>1, <1>2 DEF Applied, WhenDeleted, Found
<1>. HIDE DEF left
<1>4. CASE ApplyNothing(r)
  BY <1>4 DEF ApplyNothing, DefaultKept
<1>5. ASSUME Found(r) # {}, ~(TheHappening(r).isDefault /\ left # {}), ApplyOne(r, deleted)
      PROVE  DefaultKept(r)
  <2>1. CASE Refuse(r)
    BY <2>1 DEF Refuse, DefaultKept
  <2>2. CASE happenings' = [happenings EXCEPT ![r] = Applied(@, deleted)]
    <3>1. happenings'[r] = left
      BY <1>1, <2>2 DEF left
    <3>2. CASE left = {}
      BY <3>1, <3>2 DEF DefaultKept
    <3>3. CASE ~TheHappening(r).isDefault
      <4>1. PICK g \in L : g.isDefault
        BY DEF HasDefault
      <4>2. TheHappening(r) \in Found(r)
        <5>1. Found(r) \in SUBSET HappeningInfo
          BY <1>3 DEF Found, Matching
        <5>. QED  BY <1>5, <5>1, EarliestExists DEF TheHappening
      <4>3. g \notin Found(r)
        BY <3>3, <4>1, <4>2 DEF Found, Matching, KeysUniqueIgnoringCase, SameKey
      <4>. QED  BY <1>3, <3>1, <4>1, <4>3 DEF DefaultKept, HasDefault
    <3>. QED  BY <1>5, <3>2, <3>3
  <2>. QED  BY <1>5, <2>1, <2>2 DEF ApplyOne
<1>6. ASSUME left # {}, NEW tick \in {clock + 1, clock + 2}, NEW e,
             e = [type |-> "HappeningSetAsDefault", key |-> Latest(left).key,
                  isDefault |-> FALSE, at |-> tick],
             happenings' = [happenings EXCEPT ![r] = Applied(left, e)]
      PROVE  DefaultKept(r)
  <2>1. clock \in Nat /\ left \in SUBSET HappeningInfo
    BY <1>3 DEF IInv, TypeOK
  <2>2. Latest(left) \in left
    BY <1>1, <1>3, <1>6, <2>1, LatestExists, RebuiltInThePast
  <2>3. e \in Event /\ e.type = "HappeningSetAsDefault" /\ Exactly(left, e.key) # {}
    BY <1>6, <2>1, <2>2 DEF Event, EventType, HappeningInfo, Exactly
  <2>4. happenings'[r] = Applied(left, e)
    BY <1>1, <1>6
  <2>. DEFINE first == Earliest(Exactly(left, e.key))
  <2>5. first \in left
    <3>1. Exactly(left, e.key) \in SUBSET HappeningInfo
      BY <2>1 DEF Exactly
    <3>2. first \in Exactly(left, e.key)
      BY <2>3, <3>1, EarliestExists
    <3>. QED  BY <3>2 DEF Exactly
  <2>. HIDE DEF first
  <2>6. [first EXCEPT !.isDefault = (first = first)] \in Applied(left, e)
    BY <2>3, <2>5 DEF Applied, WhenSetAsDefault, first
  <2>7. [first EXCEPT !.isDefault = (first = first)].isDefault
    BY <2>1, <2>5 DEF HappeningInfo
  <2>. QED  BY <2>4, <2>6, <2>7 DEF HasDefault, DefaultKept
<1>. QED  BY <1>4, <1>5, <1>6 DEF Delete, deleted, left

\* Every operation.
LEMMA OperationKeepsDefault ==
    ASSUME IInv, NEW r \in Request, HasDefault(happenings[r]),
           KeysUniqueIgnoringCase(happenings[r]),
           phase'[r] = "executed", OperationStep(r)
    PROVE  DefaultKept(r)
<1>. USE DEF EventType, OperationKind
<1>1. \A kind \in OperationKind, type \in EventType :
         Ready(r, kind) => /\ NewEvent(r, type) \in Event
                           /\ NewEvent(r, type).type = type
  BY NewEventIsEvent
<1>2. CASE Delete(r)
  BY <1>2, DeleteKeepsDefault
<1>3. CASE ~Delete(r)
  <2>1. \E kind \in OperationKind, type \in EventType :
           /\ Ready(r, kind) /\ type # "HappeningDeleted"
           /\ ApplyNothing(r) \/ ApplyOne(r, NewEvent(r, type)) \/ Refuse(r)
    BY <1>3 DEF OperationStep, Create, ChangeDefault, Start, ValidatePersonUnlink
  <2>2. PICK kind \in OperationKind, type \in EventType :
           /\ Ready(r, kind) /\ type # "HappeningDeleted"
           /\ ApplyNothing(r) \/ ApplyOne(r, NewEvent(r, type)) \/ Refuse(r)
    BY <2>1
  <2>3. NewEvent(r, type) \in Event /\ ~IsDeleted(NewEvent(r, type))
    BY <1>1, <2>2 DEF IsDeleted
  <2>. QED  BY <2>2, <2>3, ApplyOneKeepsDefault
<1>. QED  BY <1>2, <1>3

\* No operation leaves a list that had a default without one, unless it leaves
\* the list empty: of every list whose keys are unique ignoring case.
THEOREM TheDefaultIsKept == Spec => DefaultIsKept
<1>. DEFINE Keeps ==
              \A r \in Request :
                 /\ Rebuilt(r) /\ phase'[r] = "executed"
                 /\ HasDefault(happenings[r])
                 /\ KeysUniqueIgnoringCase(happenings[r])
                 => HasDefault(happenings'[r]) \/ happenings'[r] = {}
<1>1. IInv /\ [Next]_vars => [Keeps]_vars
  <2>. SUFFICES ASSUME IInv, Next, NEW r \in Request,
                       Rebuilt(r), phase'[r] = "executed", HasDefault(happenings[r]),
                       KeysUniqueIgnoringCase(happenings[r])
                PROVE  HasDefault(happenings'[r]) \/ happenings'[r] = {}
    OBVIOUS
  <2>1. PICK q \in Request :
           \/ \E o \in Operation : Read(q, o)
           \/ ReplayEvent(q)
           \/ AppendEvents(q)
           \/ OperationStep(q)
    BY DEF Next, OperationStep
  <2>2. phase \in [Request -> Phase] /\ phase[r] = "replaying"
    BY DEF IInv, TypeOK, Rebuilt
  <2>3. ~(\E o \in Operation : Read(q, o)) /\ ~ReplayEvent(q) /\ ~AppendEvents(q)
    BY <2>2 DEF Read, ReplayEvent, AppendEvents
  <2>4. Outcome(q)
    BY <2>1, <2>3, OperationOutcome
  <2>5. q = r
    BY <2>2, <2>4 DEF Outcome, Leaves
  <2>. QED  BY <2>1, <2>3, <2>5, OperationKeepsDefault DEF DefaultKept
<1>. QED  BY <1>1, Invariance, PTL DEF Spec, DefaultIsKept

=============================================================================
