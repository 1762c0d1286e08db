----------------------- MODULE CheckpointScans_proofs -----------------------
(***************************************************************************)
(* Why the readings of a checkpoint stay in order whatever is scanned,     *)
(* removed and changed, and however late it arrives.  The invariant speaks *)
(* of the rows of the stream, not of the replay: a row that arrives late   *)
(* takes a place among others, and what it does there to the readings is   *)
(* what the lemmas of Checkpoint_proofs tell.                              *)
(***************************************************************************)
EXTENDS CheckpointScans, Checkpoint_proofs

-----------------------------------------------------------------------------
(* What is invariant of the rows.                                          *)

\* Nobody has two readings of a kind.
OneReading(rows) == One(rows, InAdd, InRem) /\ One(rows, OutAdd, OutRem)

\* Nobody is read in, as at the start.
NoneIn(rows) == \A i \in 1 .. Len(rows) : rows[i].type \notin InAdd

\* Whoever is read out is read in, at no later time.
OutNeedsIn(rows) ==
    \A q : Reads(rows, OutAdd, OutRem, q) # {} => Reads(rows, InAdd, InRem, q) # {}

InOrder(rows) ==
    \A q, t, u : /\ ReadAt(t, q, rows, InAdd, InRem, InChg)
                 /\ ReadAt(u, q, rows, OutAdd, OutRem, OutChg)
                 => t <= u

IsBehind(rows, t) == \A i \in 1 .. Len(rows) : rows[i].at <= t

\* S is what the rows, which can be replayed, stand for.
Shows(S, rows) ==
    /\ S \in State(Person)
    /\ Replayable(rows, InAdd, InRem, InChg) /\ Replayable(rows, OutAdd, OutRem, OutChg)
    /\ \A q : /\ IsRead(S.in, q) <=> Reads(rows, InAdd, InRem, q) # {}
              /\ IsRead(S.in, q) => ReadAt(FirstReading(S.in, q).at, q, rows, InAdd, InRem, InChg)
              /\ IsRead(S.out, q) <=> Reads(rows, OutAdd, OutRem, q) # {}
              /\ IsRead(S.out, q) => ReadAt(FirstReading(S.out, q).at, q, rows, OutAdd, OutRem, OutChg)

\* A passthrough's readings in and out are the same.
InStep(S) == \A q : IsRead(S.in, q) <=> IsRead(S.out, q)

\* The sides are sides.
LEMMA Sides == IsSide(InAdd, InRem, InChg) /\ IsSide(OutAdd, OutRem, OutChg)
BY DEF IsSide, InAdd, InRem, InChg, OutAdd, OutRem, OutChg

\* What a replay that gets through shows.
LEMMA ReplayShows ==
    ASSUME NEW rows \in Seq(EventRow(Person))
    PROVE  LET states == States(rows)
               S == states[Len(states)]
           IN  /\ S \in State(Person)
               /\ Len(states) = Len(rows) + 1 => Shows(S, rows)
               /\ Len(states) = Len(rows) + 1 /\ Paired(rows) =>
                     InStep(S) /\ \A p : Times(S.in, p) = Times(S.out, p)
               /\ Len(states) = Len(rows) + 1 /\ OneReading(rows) =>
                     \A p : Times(S.in, p) <= 1 /\ Times(S.out, p) <= 1
<1>. DEFINE states == States(rows)
            S == states[Len(states)]
<1>1. /\ Replays(rows) <=> /\ Replayable(rows, InAdd, InRem, InChg)
                           /\ Replayable(rows, OutAdd, OutRem, OutChg)
      /\ S \in State(Person)
      /\ Replays(rows) => /\ ReadsFrom(S.in, rows, InAdd, InRem, InChg)
                          /\ ReadsFrom(S.out, rows, OutAdd, OutRem, OutChg)
  BY ReplayedRows
<1>2. Len(states) = Len(rows) + 1 <=> Replays(rows)
  BY DEF Replays
<1>. HIDE DEF S, states
<1>3. Replays(rows) =>
         \A q : /\ IsRead(S.in, q) <=> Reads(rows, InAdd, InRem, q) # {}
                /\ Times(S.in, q) = Cardinality(Reads(rows, InAdd, InRem, q))
                /\ IsRead(S.in, q) => ReadAt(FirstReading(S.in, q).at, q, rows, InAdd, InRem, InChg)
                /\ IsRead(S.out, q) <=> Reads(rows, OutAdd, OutRem, q) # {}
                /\ Times(S.out, q) = Cardinality(Reads(rows, OutAdd, OutRem, q))
                /\ IsRead(S.out, q) => ReadAt(FirstReading(S.out, q).at, q, rows, OutAdd, OutRem, OutChg)
  BY <1>1 DEF ReadsFrom, Reads, ReadAt, Times
<1>4. Replays(rows) => Shows(S, rows)
  BY <1>1, <1>3 DEF Shows
<1>5. Replays(rows) /\ Paired(rows) => InStep(S) /\ \A p : Times(S.in, p) = Times(S.out, p)
  <2>1. Paired(rows) => \A q : Reads(rows, InAdd, InRem, q) = Reads(rows, OutAdd, OutRem, q)
    BY PairedReads
  <2>. QED  BY <1>3, <2>1 DEF InStep
<1>6. Replays(rows) /\ OneReading(rows) => \A p : Times(S.in, p) <= 1 /\ Times(S.out, p) <= 1
  <2>1. Len(rows) \in Nat
    OBVIOUS
  <2>2. OneReading(rows) => \A q : /\ Cardinality(Reads(rows, InAdd, InRem, q)) <= 1
                                   /\ Cardinality(Reads(rows, OutAdd, OutRem, q)) <= 1
    BY <2>1, OneReads DEF OneReading
  <2>. QED  BY <1>3, <2>2
<1>. QED  BY <1>1, <1>2, <1>4, <1>5, <1>6 DEF S, states

\* The row of an operation, as it is stored.
LEMMA EventStamped ==
    ASSUME NEW c, IsInfo(c, Person), NEW k \in EventType, NEW t \in Nat
    PROVE  LET e == StampedRow(Event(k, c), t)
           IN  /\ e \in EventRow(Person) /\ e.type = k /\ e.person = c.person /\ e.time = c.time
               /\ k \in InChg \cup OutChg => e.at = t
               /\ k \notin InChg \cup OutChg => e = Event(k, c) /\ e.at = c.at
<1>. DEFINE f == Event(k, c)
<1>1. f \in EventRow(Person) /\ f.type = k /\ f.person = c.person /\ f.time = c.time /\ f.at = c.at
  BY EventIsRow DEF Event
<1>2. ChangesIn(f) \/ ChangesOut(f) <=> k \in InChg \cup OutChg
  BY DEF Event, ChangesIn, ChangesOut, InChg, OutChg
<1>. HIDE DEF f
<1>. QED  BY <1>1, <1>2, RowStamped DEF f

-----------------------------------------------------------------------------
(* An operation whose events are appended to the rows.                     *)

\* A passthrough's rows stay paired, whichever paired rows S was read from.
LEMMA PairedAppends ==
    ASSUME NEW rows \in SortedRows(Person), Paired(rows), NEW new, NEW events, NEW ty, ty = "Passthrough",
           NEW S, InStep(S), NEW c, IsInfo(c, Person), NEW t \in Nat,
           Appends(new, rows, events, ty, S, c, t)
    PROVE  Paired(new)
<1>. DEFINE ei == Event("AttendeeScanInRemoved", c)
            eo == Event("AttendeeScanOutRemoved", c)
<1>1. CASE new = rows
  BY <1>1
<1>2. ASSUME NEW k \in EventType, Done(k, ty, S, c), new = Stored(rows, StampedRow(Event(k, c), t))
      PROVE  Paired(new)
  <2>1. k \notin {"AttendeeScanIn", "AttendeeScanOut"} \cup InRem \cup OutRem
    BY <1>2 DEF Done, InStep, InRem, OutRem
  <2>2. StampedRow(Event(k, c), t) \in EventRow(Person) /\ StampedRow(Event(k, c), t).type = k
    BY EventStamped
  <2>. QED  BY <1>2, <2>1, <2>2, PairedStores
<1>3. CASE new = Stored(Stored(rows, ei), eo)
  <2>1. /\ ei \in EventRow(Person) /\ eo \in EventRow(Person)
        /\ ei.type \in InRem /\ eo.type \in OutRem /\ ei.person = eo.person /\ ei.at = eo.at
    BY DEF Event, InRem, OutRem, EventRow, EventType, IsInfo
  <2>. HIDE DEF ei, eo
  <2>. QED  BY <1>3, <2>1, PairedStores
<1>. QED  BY <1>1, <1>2, <1>3 DEF Appends

\* Nobody is given a second reading of a kind.
LEMMA OneAppends ==
    ASSUME NEW rows \in SortedRows(Person), OneReading(rows), NEW new, NEW events,
           NEW ty, ty # "Start", NEW S, Shows(S, rows), ty = "Passthrough" => InStep(S),
           NEW c, IsInfo(c, Person), NEW t \in Nat, Appends(new, rows, events, ty, S, c, t)
    PROVE  OneReading(new)
<1>. DEFINE ei == Event("AttendeeScanInRemoved", c)
            eo == Event("AttendeeScanOutRemoved", c)
<1>1. ASSUME NEW x \in SortedRows(Person), OneReading(x), NEW e \in EventRow(Person),
             e.type \in InAdd => Reads(x, InAdd, InRem, e.person) = {},
             e.type \in OutAdd => Reads(x, OutAdd, OutRem, e.person) = {}
      PROVE  OneReading(Stored(x, e)) /\ Stored(x, e) \in SortedRows(Person)
  <2>1. /\ SideStored(Stored(x, e), x, e, InAdd, InRem, InChg)
        /\ SideStored(Stored(x, e), x, e, OutAdd, OutRem, OutChg)
    BY StoredSide, Sides
  <2>2. Stored(x, e) \in SortedRows(Person)
    BY StoredRows DEF SortedRows
  <2>. QED  BY <1>1, <2>1, <2>2 DEF SideStored, OneReading
<1>2. CASE new = rows
  BY <1>2
<1>3. ASSUME NEW k \in EventType, Done(k, ty, S, c), new = Stored(rows, StampedRow(Event(k, c), t))
      PROVE  OneReading(new)
  <2>. DEFINE e == StampedRow(Event(k, c), t)
  <2>1. e \in EventRow(Person) /\ e.type = k /\ e.person = c.person
    BY EventStamped
  <2>. HIDE DEF e
  <2>2. /\ k \in InAdd => ~IsRead(S.in, c.person)
        /\ k \in OutAdd => ~IsRead(S.out, c.person)
    BY <1>3 DEF Done, InStep, InAdd, OutAdd
  <2>3. /\ e.type \in InAdd => Reads(rows, InAdd, InRem, e.person) = {}
        /\ e.type \in OutAdd => Reads(rows, OutAdd, OutRem, e.person) = {}
    BY <2>1, <2>2 DEF Shows
  <2>. QED  BY <1>1, <1>3, <2>1, <2>3 DEF e
<1>4. CASE new = Stored(Stored(rows, ei), eo)
  <2>1. /\ ei \in EventRow(Person) /\ eo \in EventRow(Person)
        /\ ei.type \notin InAdd \cup OutAdd /\ eo.type \notin InAdd \cup OutAdd
    BY DEF Event, InAdd, OutAdd, EventRow, EventType, IsInfo
  <2>. HIDE DEF ei, eo
  <2>2. OneReading(Stored(rows, ei)) /\ Stored(rows, ei) \in SortedRows(Person)
    BY <1>1, <2>1
  <2>. QED  BY <1>1, <1>4, <2>1, <2>2
<1>. QED  BY <1>2, <1>3, <1>4 DEF Appends

\* At the start nobody is read in.
LEMMA NoneInAppends ==
    ASSUME NEW rows \in SortedRows(Person), NoneIn(rows), NEW new, NEW events,
           NEW ty, ty = "Start", NEW S, NEW c, IsInfo(c, Person), NEW t \in Nat,
           Appends(new, rows, events, ty, S, c, t)
    PROVE  NoneIn(new)
<1>1. CASE new = rows
  BY <1>1
<1>2. ASSUME NEW k \in EventType, Done(k, ty, S, c), new = Stored(rows, StampedRow(Event(k, c), t))
      PROVE  NoneIn(new)
  <2>. DEFINE e == StampedRow(Event(k, c), t)
  <2>1. e \in EventRow(Person) /\ e.type = k
    BY EventStamped
  <2>. HIDE DEF e
  <2>2. k \notin InAdd
    BY <1>2 DEF Done, InAdd
  <2>3. rows \in Seq(EventRow(Person)) /\ Sorted(rows)
    BY DEF SortedRows
  <2>4. \A f : HasRow(new, f) <=> f = e \/ HasRow(rows, f)
    BY <1>2, <2>1, <2>3, StoredRows DEF e
  <2>5. \A f : HasRow(new, f) => f.type \notin InAdd
    BY <2>1, <2>2, <2>4 DEF HasRow, NoneIn
  <2>. QED  BY <2>5 DEF HasRow, NoneIn
<1>. QED  BY <1>1, <1>2 DEF Appends

\* The rows that are there stay, and the others are of now or before.
LEMMA TypedAppends ==
    ASSUME NEW rows \in SortedRows(Person), NEW new, NEW events,
           NEW ty, NEW S, NEW c, IsInfo(c, Person), NEW t \in Nat,
           Appends(new, rows, events, ty, S, c, t)
    PROVE  /\ new \in SortedRows(Person)
           /\ \A f : HasRow(new, f) => HasRow(rows, f) \/ f.at \in {c.at, t}
<1>. DEFINE ei == Event("AttendeeScanInRemoved", c)
            eo == Event("AttendeeScanOutRemoved", c)
<1>1. ASSUME NEW x \in SortedRows(Person), NEW e \in EventRow(Person)
      PROVE  /\ Stored(x, e) \in SortedRows(Person)
             /\ \A f : HasRow(Stored(x, e), f) <=> f = e \/ HasRow(x, f)
  <2>1. x \in Seq(EventRow(Person)) /\ Sorted(x)
    BY DEF SortedRows
  <2>. QED  BY <2>1, StoredRows DEF SortedRows
<1>2. CASE new = rows
  BY <1>2
<1>3. ASSUME NEW k \in EventType, new = Stored(rows, StampedRow(Event(k, c), t))
      PROVE  /\ new \in SortedRows(Person)
             /\ \A f : HasRow(new, f) => HasRow(rows, f) \/ f.at \in {c.at, t}
  <2>. DEFINE e == StampedRow(Event(k, c), t)
  <2>1. e \in EventRow(Person) /\ e.at \in {c.at, t}
    BY EventStamped
  <2>. HIDE DEF e
  <2>. QED  BY <1>1, <1>3, <2>1 DEF e
<1>4. CASE new = Stored(Stored(rows, ei), eo)
  <2>1. ei \in EventRow(Person) /\ eo \in EventRow(Person) /\ ei.at = c.at /\ eo.at = c.at
    BY DEF Event, EventRow, EventType, IsInfo
  <2>. HIDE DEF ei, eo
  <2>. QED  BY <1>1, <1>4, <2>1
<1>. QED  BY <1>2, <1>3, <1>4 DEF Appends

\* Removals that are not late, and changes that are the last row, leave rows
\* that can be replayed.
LEMMA ReplayableAppends ==
    ASSUME NEW rows \in SortedRows(Person), NEW new, NEW events,
           NEW ty, NEW S, Shows(S, rows), ty = "Passthrough" => InStep(S),
           NEW c, IsInfo(c, Person), NEW t \in Nat, Appends(new, rows, events, ty, S, c, t),
           \A e : HasRow(events, e) /\ IsRemoval(e) => IsBehind(rows, e.at),
           IsBehind(rows, t)
    PROVE  Replays(new)
<1>. DEFINE ei == Event("AttendeeScanInRemoved", c)
            eo == Event("AttendeeScanOutRemoved", c)
            Fine(x) == Replayable(x, InAdd, InRem, InChg) /\ Replayable(x, OutAdd, OutRem, OutChg)
<1>1. ASSUME NEW x \in SortedRows(Person), Fine(x), NEW e \in EventRow(Person),
             e.type \in InRem \cup InChg \cup OutRem \cup OutChg => IsBehind(x, e.at),
             e.type \in InChg => Reads(x, InAdd, InRem, e.person) # {},
             e.type \in OutChg => Reads(x, OutAdd, OutRem, e.person) # {}
      PROVE  Fine(Stored(x, e)) /\ Stored(x, e) \in SortedRows(Person)
  <2>1. /\ SideStored(Stored(x, e), x, e, InAdd, InRem, InChg)
        /\ SideStored(Stored(x, e), x, e, OutAdd, OutRem, OutChg)
    BY StoredSide, Sides
  <2>2. Stored(x, e) \in SortedRows(Person)
    BY StoredRows DEF SortedRows
  <2>3. \/ e.type \notin InRem \cup InChg
        \/ /\ \A i \in 1 .. Len(x) : x[i].at <= e.at
           /\ e.type \in InChg => Reads(x, InAdd, InRem, e.person) # {}
    BY <1>1 DEF IsBehind
  <2>4. \/ e.type \notin OutRem \cup OutChg
        \/ /\ \A i \in 1 .. Len(x) : x[i].at <= e.at
           /\ e.type \in OutChg => Reads(x, OutAdd, OutRem, e.person) # {}
    BY <1>1 DEF IsBehind
  <2>. QED  BY <1>1, <2>1, <2>2, <2>3, <2>4 DEF SideStored
<1>2. Fine(rows)
  BY DEF Shows
<1>3. \A x \in SortedRows(Person) : Fine(x) => Replays(x)
  <2>1. \A x \in SortedRows(Person) : x \in Seq(EventRow(Person))
    BY DEF SortedRows
  <2>. QED  BY <2>1, ReplayedRows
<1>. HIDE DEF Fine
<1>4. CASE new = rows
  BY <1>2, <1>3, <1>4
<1>5. ASSUME NEW k \in EventType, Done(k, ty, S, c), HasRow(events, Event(k, c)),
             new = Stored(rows, StampedRow(Event(k, c), t))
      PROVE  Replays(new)
  <2>. DEFINE e == StampedRow(Event(k, c), t)
  <2>1. /\ e \in EventRow(Person) /\ e.type = k /\ e.person = c.person
        /\ k \in InChg \cup OutChg => e.at = t
        /\ k \notin InChg \cup OutChg => e = Event(k, c)
    BY EventStamped
  <2>. HIDE DEF e
  <2>2. e.type \in InRem \cup OutRem => IsBehind(rows, e.at)
    <3>1. e.type \in InRem \cup OutRem => k \notin InChg \cup OutChg /\ IsRemoval(e)
      BY <2>1 DEF InRem, OutRem, InChg, OutChg, IsRemoval, RemovesIn, RemovesOut
    <3>. QED  BY <1>5, <2>1, <3>1
  <2>3. e.type \in InChg \cup OutChg => IsBehind(rows, e.at)
    BY <2>1
  <2>4. /\ k \in InChg => IsRead(S.in, c.person)
        /\ k \in OutChg => IsRead(S.out, c.person)
    BY <1>5 DEF Done, InStep, InChg, OutChg
  <2>5. /\ e.type \in InChg => Reads(rows, InAdd, InRem, e.person) # {}
        /\ e.type \in OutChg => Reads(rows, OutAdd, OutRem, e.person) # {}
    BY <2>1, <2>4 DEF Shows
  <2>. QED  BY <1>1, <1>2, <1>3, <1>5, <2>1, <2>2, <2>3, <2>5 DEF e
<1>6. CASE /\ HasRow(events, ei) /\ HasRow(events, eo)
           /\ new = Stored(Stored(rows, ei), eo)
  <2>1. /\ ei \in EventRow(Person) /\ eo \in EventRow(Person)
        /\ IsRemoval(ei) /\ IsRemoval(eo) /\ ei.at = eo.at /\ eo.at \in Nat
        /\ ei.type \notin InChg \cup OutChg /\ eo.type \notin InChg \cup OutChg
    BY DEF Event, InChg, OutChg, EventRow, EventType, IsInfo, IsRemoval, RemovesIn, RemovesOut
  <2>. HIDE DEF ei, eo
  <2>2. IsBehind(rows, ei.at)
    BY <1>6, <2>1
  <2>. DEFINE x == Stored(rows, ei)
  <2>3. Fine(x) /\ x \in SortedRows(Person)
    BY <1>1, <1>2, <2>1, <2>2
  <2>4. \A f : HasRow(x, f) <=> f = ei \/ HasRow(rows, f)
    <3>1. rows \in Seq(EventRow(Person)) /\ Sorted(rows)
      BY DEF SortedRows
    <3>. QED  BY <2>1, <3>1, StoredRows
  <2>. HIDE DEF x
  <2>5. \A f : HasRow(x, f) => f.at <= eo.at
    <3>. SUFFICES ASSUME NEW f, HasRow(x, f) PROVE f.at <= eo.at
      OBVIOUS
    <3>1. CASE f = ei
      BY <2>1, <3>1
    <3>2. CASE HasRow(rows, f)
      <4>1. PICK i \in 1 .. Len(rows) : rows[i] = f
        BY <3>2 DEF HasRow
      <4>. QED  BY <2>1, <2>2, <4>1 DEF IsBehind
    <3>. QED  BY <2>4, <3>1, <3>2
  <2>6. IsBehind(x, eo.at)
    BY <2>5 DEF HasRow, IsBehind
  <2>. QED  BY <1>1, <1>3, <1>6, <2>1, <2>3, <2>6 DEF x
<1>. QED  BY <1>4, <1>5, <1>6 DEF Appends

\* Whose reading it is not: nothing becomes of it.
LEMMA OthersStay ==
    ASSUME NEW rows, NEW new, NEW e, OneReading(rows), OutNeedsIn(rows), InOrder(rows),
           SideStored(new, rows, e, InAdd, InRem, InChg),
           SideStored(new, rows, e, OutAdd, OutRem, OutChg), NEW q, q # e.person
    PROVE  /\ Reads(new, OutAdd, OutRem, q) # {} => Reads(new, InAdd, InRem, q) # {}
           /\ \A t, u : /\ ReadAt(t, q, new, InAdd, InRem, InChg)
                        /\ ReadAt(u, q, new, OutAdd, OutRem, OutChg)
                        => t <= u
<1>1. Reads(new, OutAdd, OutRem, q) # {} => Reads(new, InAdd, InRem, q) # {}
  BY DEF SideStored, OutNeedsIn
<1>2. /\ \A t : ReadAt(t, q, new, InAdd, InRem, InChg) => ReadAt(t, q, rows, InAdd, InRem, InChg)
      /\ \A u : ReadAt(u, q, new, OutAdd, OutRem, OutChg) => ReadAt(u, q, rows, OutAdd, OutRem, OutChg)
  BY DEF SideStored, OneReading
<1>. QED  BY <1>1, <1>2 DEF InOrder

\* A person whose time is known is read, and the time is one.
LEMMA ReadAtIsOne ==
    ASSUME NEW rows, Len(rows) \in Nat, NEW add, NEW rem, NEW chg, NEW q, NEW t,
           ReadAt(t, q, rows, add, rem, chg)
    PROVE  /\ Reads(rows, add, rem, q) # {}
           /\ \A u : ReadAt(u, q, rows, add, rem, chg) => u = t
<1>1. Reads(rows, add, rem, q) # {}
  BY DEF ReadAt, Reads, HasTime
<1>2. Len(rows) + 1 \in Nat
  OBVIOUS
<1>. QED  BY <1>1, <1>2, TimeIsOne DEF ReadAt

\* The one row that an operation does not add in vain leaves the readings in
\* their order.
LEMMA OrderStores ==
    ASSUME NEW rows \in SortedRows(Person), OneReading(rows), OutNeedsIn(rows), InOrder(rows),
           NEW ty, ty # "Start", NEW S, Shows(S, rows), ty = "Passthrough" => InStep(S),
           NEW c, IsInfo(c, Person), NEW t \in Nat, IsBehind(rows, t),
           NEW k \in EventType, Done(k, ty, S, c)
    PROVE  LET new == Stored(rows, StampedRow(Event(k, c), t))
           IN  /\ InOrder(new)
               /\ ty # "Passthrough" => OutNeedsIn(new)
<1>. DEFINE e == StampedRow(Event(k, c), t)
            new == Stored(rows, e)
            p == c.person
            RI == Reads(rows, InAdd, InRem, p) # {}
            RO == Reads(rows, OutAdd, OutRem, p) # {}
            NI == Reads(new, InAdd, InRem, p) # {}
            NO == Reads(new, OutAdd, OutRem, p) # {}
            AI(a) == ReadAt(a, p, rows, InAdd, InRem, InChg)
            AO(a) == ReadAt(a, p, rows, OutAdd, OutRem, OutChg)
            BI(a) == ReadAt(a, p, new, InAdd, InRem, InChg)
            BO(a) == ReadAt(a, p, new, OutAdd, OutRem, OutChg)
            fi == FirstReading(S.in, p).at
            fo == FirstReading(S.out, p).at
<1>1. /\ e \in EventRow(Person) /\ e.type = k /\ e.person = p /\ e.time = c.time
      /\ k \in InChg \cup OutChg => e.at = t
      /\ k \notin InChg \cup OutChg => e.at = c.at
  BY EventStamped
<1>2. c.at \in Nat /\ c.time \in Nat
  BY DEF IsInfo
<1>. HIDE DEF e
<1>3. /\ SideStored(new, rows, e, InAdd, InRem, InChg)
      /\ SideStored(new, rows, e, OutAdd, OutRem, OutChg)
  BY <1>1, StoredSide, Sides
<1>4. Len(rows) \in Nat
  BY DEF SortedRows
<1>. HIDE DEF new
<1>5. /\ IsRead(S.in, p) <=> RI
      /\ IsRead(S.out, p) <=> RO
      /\ RI => AI(fi)
      /\ RO => AO(fo)
      /\ Replayable(rows, InAdd, InRem, InChg) /\ Replayable(rows, OutAdd, OutRem, OutChg)
  BY DEF Shows
<1>. HIDE DEF fi, fo
<1>6. /\ \A a : AI(a) => RI /\ a = fi
      /\ \A a : AO(a) => RO /\ a = fo
  <2>1. \A a : AI(a) => RI
    BY <1>4, ReadAtIsOne
  <2>2. \A a : AO(a) => RO
    BY <1>4, ReadAtIsOne
  <2>3. \A a, b : AI(a) /\ AI(b) => a = b
    BY <1>4, ReadAtIsOne
  <2>4. \A a, b : AO(a) /\ AO(b) => a = b
    BY <1>4, ReadAtIsOne
  <2>. QED  BY <1>5, <2>1, <2>2, <2>3, <2>4
<1>7. (RO => RI) /\ (RI /\ RO => fi <= fo)
  BY <1>5 DEF OutNeedsIn, InOrder
<1>8. /\ k \notin InRem /\ RI => NI
      /\ k \notin InAdd /\ NI => RI
      /\ k \notin OutRem /\ RO => NO
      /\ k \notin OutAdd /\ NO => RO
  BY <1>1, <1>3 DEF SideStored
<1>9. \A i \in 1 .. Len(rows) : k \in InChg \cup OutChg => rows[i].at <= e.at
  BY <1>1 DEF IsBehind
<1>10. \A a : BI(a) => /\ k \notin InAdd \cup InChg => AI(a)
                       /\ k \in InAdd /\ ~RI => a = e.at
                       /\ k \in InChg => a = c.time
  <2>1. \A a : BI(a) => /\ ~(e.type \in InAdd \cup InChg /\ e.person = p) => AI(a)
                        /\ e.type \in InAdd /\ e.person = p /\ ~RI
                           /\ Replayable(rows, InAdd, InRem, InChg) => a = e.at
                        /\ e.type \in InChg /\ e.person = p /\ (\A i \in 1 .. Len(rows) : rows[i].at <= e.at) =>
                              a = e.time
    BY <1>3 DEF SideStored, OneReading
  <2>. QED  BY <1>1, <1>5, <1>9, <2>1
<1>11. \A a : BO(a) => /\ k \notin OutAdd \cup OutChg => AO(a)
                       /\ k \in OutAdd /\ ~RO => a = e.at
                       /\ k \in OutChg => a = c.time
  <2>1. \A a : BO(a) => /\ ~(e.type \in OutAdd \cup OutChg /\ e.person = p) => AO(a)
                        /\ e.type \in OutAdd /\ e.person = p /\ ~RO
                           /\ Replayable(rows, OutAdd, OutRem, OutChg) => a = e.at
                        /\ e.type \in OutChg /\ e.person = p /\ (\A i \in 1 .. Len(rows) : rows[i].at <= e.at) =>
                              a = e.time
    BY <1>3 DEF SideStored, OneReading
  <2>. QED  BY <1>1, <1>5, <1>9, <2>1
<1>12. /\ ty # "Passthrough" => (NO => NI)
       /\ \A a, b : BI(a) /\ BO(b) => a <= b
  <2>. HIDE DEF RI, RO, NI, NO, AI, AO, BI, BO
  <2>1. CASE k = "AttendeePassthroughScan" /\ ty = "Passthrough" /\ ~IsRead(S.in, p)
    <3>1. ~RI /\ ~RO
      BY <1>5, <1>7, <2>1
    <3>2. k \in InAdd /\ k \in OutAdd /\ e.at \in Nat
      BY <1>1, <2>1 DEF InAdd, OutAdd, EventRow
    <3>. QED  BY <1>10, <1>11, <2>1, <3>1, <3>2
  <2>2. CASE k = "AttendeeScanIn" /\ ~IsRead(S.in, p)
    <3>1. ~RO /\ k \notin OutAdd \cup OutChg
      BY <1>5, <1>7, <2>2 DEF OutAdd, OutChg
    <3>. QED  BY <1>6, <1>8, <1>11, <3>1
  <2>3. CASE k = "AttendeeScanOut" /\ IsRead(S.in, p) /\ ~IsRead(S.out, p) /\ fi <= c.at
    <3>1. RI /\ ~RO /\ k \notin InRem \cup InAdd \cup InChg /\ k \in OutAdd /\ k \notin OutChg
      BY <1>5, <2>3 DEF InRem, InAdd, InChg, OutAdd, OutChg
    <3>2. e.at = c.at
      BY <1>1, <3>1
    <3>. QED  BY <1>6, <1>8, <1>10, <1>11, <2>3, <3>1, <3>2
  <2>4. CASE k = "AttendeeScanOutRemoved"
    <3>1. k \notin InRem \cup InAdd \cup InChg \cup OutAdd \cup OutChg
      BY <2>4 DEF InRem, InAdd, InChg, OutAdd, OutChg
    <3>. QED  BY <1>6, <1>7, <1>8, <1>10, <1>11, <3>1
  <2>5. CASE k = "AttendeeScanInRemoved" /\ ~IsRead(S.out, p)
    <3>1. ~RO /\ k \notin OutAdd \cup OutChg
      BY <1>5, <2>5 DEF OutAdd, OutChg
    <3>. QED  BY <1>6, <1>8, <1>11, <3>1
  <2>6. CASE k = "AttendeeScanInTimeChanged" /\ (IsRead(S.out, p) => c.time <= fo)
    <3>1. k \in InChg /\ k \notin InRem \cup OutAdd \cup OutChg
      BY <2>6 DEF InRem, InChg, OutAdd, OutChg
    <3>. QED  BY <1>5, <1>6, <1>7, <1>8, <1>10, <1>11, <2>6, <3>1
  <2>7. CASE k = "AttendeeScanOutTimeChanged" /\ (IsRead(S.in, p) => fi <= c.time)
    <3>1. k \in OutChg /\ k \notin InRem \cup InAdd \cup InChg \cup OutAdd
      BY <2>7 DEF InRem, InAdd, InChg, OutAdd, OutChg
    <3>. QED  BY <1>5, <1>6, <1>7, <1>8, <1>10, <1>11, <2>7, <3>1
  <2>8. CASE k = "AttendeePassthroughScanTimeChanged" /\ ty = "Passthrough"
    <3>1. k \in InChg /\ k \in OutChg
      BY <2>8 DEF InChg, OutChg
    <3>. QED  BY <1>2, <1>10, <1>11, <2>8, <3>1
  <2>. QED  BY <2>1, <2>2, <2>3, <2>4, <2>5, <2>6, <2>7, <2>8 DEF Done, fi, fo
<1>13. \A q : q # p =>
          /\ Reads(new, OutAdd, OutRem, q) # {} => Reads(new, InAdd, InRem, q) # {}
          /\ \A a, b : /\ ReadAt(a, q, new, InAdd, InRem, InChg)
                       /\ ReadAt(b, q, new, OutAdd, OutRem, OutChg)
                       => a <= b
  <2>. SUFFICES ASSUME NEW q, q # e.person
       PROVE  /\ Reads(new, OutAdd, OutRem, q) # {} => Reads(new, InAdd, InRem, q) # {}
              /\ \A a, b : /\ ReadAt(a, q, new, InAdd, InRem, InChg)
                           /\ ReadAt(b, q, new, OutAdd, OutRem, OutChg)
                           => a <= b
    BY <1>1
  <2>. QED  BY <1>3, OthersStay
<1>14. InOrder(new)
  BY <1>12, <1>13 DEF InOrder
<1>15. ty # "Passthrough" => OutNeedsIn(new)
  BY <1>12, <1>13 DEF OutNeedsIn
<1>. QED  BY <1>14, <1>15 DEF new, e

\* An operation leaves the readings in their order.
LEMMA OrderAppends ==
    ASSUME NEW rows \in SortedRows(Person), OneReading(rows), OutNeedsIn(rows), InOrder(rows),
           NEW new, NEW events, NEW ty, ty # "Start", NEW S, Shows(S, rows),
           ty = "Passthrough" => InStep(S) /\ Paired(rows),
           NEW c, IsInfo(c, Person), NEW t \in Nat, IsBehind(rows, t),
           Appends(new, rows, events, ty, S, c, t)
    PROVE  OutNeedsIn(new) /\ InOrder(new)
<1>. DEFINE ei == Event("AttendeeScanInRemoved", c)
            eo == Event("AttendeeScanOutRemoved", c)
<1>1. ASSUME ty = "Passthrough" PROVE OutNeedsIn(new)
  <2>1. Paired(new)
    BY <1>1, PairedAppends
  <2>2. new \in Seq(EventRow(Person))
    BY TypedAppends DEF SortedRows
  <2>3. \A q : Reads(new, InAdd, InRem, q) = Reads(new, OutAdd, OutRem, q)
    BY <2>1, <2>2, PairedReads
  <2>. QED  BY <2>3 DEF OutNeedsIn
<1>2. CASE new = rows
  BY <1>2
<1>3. ASSUME NEW k \in EventType, Done(k, ty, S, c), new = Stored(rows, StampedRow(Event(k, c), t))
      PROVE  OutNeedsIn(new) /\ InOrder(new)
  BY <1>1, <1>3, OrderStores
<1>4. CASE ty = "Passthrough" /\ new = Stored(Stored(rows, ei), eo)
  <2>1. /\ ei \in EventRow(Person) /\ eo \in EventRow(Person)
        /\ ei.type \notin InAdd \cup InChg \cup OutAdd \cup OutChg
        /\ eo.type \notin InAdd \cup InChg \cup OutAdd \cup OutChg
    BY DEF Event, InAdd, InChg, OutAdd, OutChg, EventRow, EventType, IsInfo
  <2>. HIDE DEF ei, eo
  <2>2. ASSUME NEW x \in SortedRows(Person), OneReading(x), InOrder(x), NEW e \in EventRow(Person),
               e.type \notin InAdd \cup InChg \cup OutAdd \cup OutChg
        PROVE  OneReading(Stored(x, e)) /\ InOrder(Stored(x, e)) /\ Stored(x, e) \in SortedRows(Person)
    <3>1. /\ SideStored(Stored(x, e), x, e, InAdd, InRem, InChg)
          /\ SideStored(Stored(x, e), x, e, OutAdd, OutRem, OutChg)
      BY <2>2, StoredSide, Sides
    <3>2. Stored(x, e) \in SortedRows(Person)
      BY <2>2, StoredRows DEF SortedRows
    <3>. DEFINE y == Stored(x, e)
    <3>. HIDE DEF y
    <3>3. OneReading(y)
      BY <2>2, <3>1 DEF SideStored, OneReading, y
    <3>4. \A q, a : /\ ReadAt(a, q, y, InAdd, InRem, InChg) => ReadAt(a, q, x, InAdd, InRem, InChg)
                    /\ ReadAt(a, q, y, OutAdd, OutRem, OutChg) => ReadAt(a, q, x, OutAdd, OutRem, OutChg)
      BY <2>2, <3>1 DEF SideStored, OneReading, y
    <3>5. InOrder(y)
      BY <2>2, <3>4 DEF InOrder
    <3>. QED  BY <3>2, <3>3, <3>5 DEF y
  <2>3. OneReading(Stored(rows, ei)) /\ InOrder(Stored(rows, ei)) /\ Stored(rows, ei) \in SortedRows(Person)
    BY <2>1, <2>2
  <2>4. InOrder(new)
    BY <1>4, <2>1, <2>2, <2>3
  <2>. QED  BY <1>1, <1>4, <2>4
<1>. QED  BY <1>2, <1>3, <1>4 DEF Appends

-----------------------------------------------------------------------------
(* The invariant.                                                          *)

\* Types: TypeOK, and the rows that the requests have read.
Typed ==
    /\ type \in CheckpointType
    /\ now \in Nat
    /\ commands \in 0 .. MaxCommands
    /\ sent \in SUBSET Command
    /\ \A r \in requests : r.command \in Command /\ r.given \in SortedRows(Person)
    /\ stream \in SortedRows(Person)
    /\ \A f : HasRow(stream, f) => f.at \in 1 .. now
    /\ overlapped \in BOOLEAN /\ late \in BOOLEAN /\ refused \in BOOLEAN

\* As long as requests do not overlap, the one under way has read the stream
\* as it is.
KnownSerial ==
    ~overlapped => \A q, r \in requests : q = r /\ r.given = stream

KnownReplays == ~overlapped /\ ~late => Replays(stream)

\* Requests that overlap have read what was paired as well.
KnownPaired ==
    type = "Passthrough" => Paired(stream) /\ \A r \in requests : Paired(r.given)

KnownReadings ==
    ~overlapped =>
        IF type = "Start" THEN NoneIn(stream)
        ELSE OneReading(stream) /\ OutNeedsIn(stream) /\ InOrder(stream)

IInv == Typed /\ KnownSerial /\ KnownReplays /\ KnownPaired /\ KnownReadings

\* Of the empty stream.
LEMMA InvariantInit == Init => IInv
<1>. SUFFICES ASSUME Init PROVE IInv
  OBVIOUS
<1>. DEFINE none == <<>>
<1>1. none \in Seq(EventRow(Person)) /\ Len(none) = 0
  OBVIOUS
<1>2. stream = none
  BY DEF Init
<1>. HIDE DEF none
<1>3. stream \in Seq(EventRow(Person)) /\ \A i : i \notin 1 .. Len(stream)
  BY <1>1, <1>2
<1>4. Typed
  <2>1. stream \in SortedRows(Person) /\ \A f : ~HasRow(stream, f)
    BY <1>3 DEF SortedRows, Sorted, HasRow
  <2>2. commands \in 0 .. MaxCommands
    BY MaxCommandsAssumption DEF Init
  <2>. QED  BY <2>1, <2>2 DEF Init, Typed
<1>5. KnownSerial
  BY DEF Init, KnownSerial
<1>6. KnownReplays
  <2>1. Replays(stream)
    <3>1. Replayable(stream, InAdd, InRem, InChg) /\ Replayable(stream, OutAdd, OutRem, OutChg)
      BY <1>3 DEF Replayable
    <3>. QED  BY <1>3, <3>1, ReplayedRows
  <2>. QED  BY <2>1 DEF KnownReplays
<1>7. KnownPaired
  BY <1>3 DEF Init, KnownPaired, Paired
<1>8. KnownReadings
  <2>1. NoneIn(stream) /\ OneReading(stream)
    BY <1>3 DEF NoneIn, OneReading, One
  <2>2. \A add, rem, q : Reads(stream, add, rem, q) = {}
    <3>1. SUFFICES ASSUME NEW add, NEW rem, NEW q, NEW i \in Reads(stream, add, rem, q) PROVE FALSE
      OBVIOUS
    <3>2. Len(stream) = 0 /\ (0 + 1) - 1 = 0
      BY <1>1, <1>2
    <3>3. i \in 1 .. 0
      BY <3>2 DEF Reads, Live
    <3>. QED  BY <3>3
  <2>3. \A add, rem, chg, q, t : ~ReadAt(t, q, stream, add, rem, chg)
    BY <2>2 DEF ReadAt, HasTime, Reads
  <2>. QED  BY <2>1, <2>2, <2>3 DEF KnownReadings, OutNeedsIn, InOrder
<1>. QED  BY <1>4, <1>5, <1>6, <1>7, <1>8 DEF IInv

\* A command that is given changes nothing of the rows.
LEMMA InvariantGiveCommand == IInv /\ GiveCommand => IInv'
<1>. SUFFICES ASSUME IInv, GiveCommand PROVE IInv'
  OBVIOUS
<1>1. PICK kind \in Kind, p \in Person : \E delay \in {1, DoubleReadingThreshold} :
         \E time \in CASE kind = "Scan" -> TypedTime \cup {now + delay}
                       [] kind = "RemoveScan" -> {now + delay}
                       [] OTHER -> TypedTime :
            Give(kind, p, delay, time)
  BY DEF GiveCommand
<1>2. PICK delay \in {1, DoubleReadingThreshold} :
         \E time \in TypedTime \cup {now + delay} : Give(kind, p, delay, time)
  BY <1>1
<1>3. PICK time \in TypedTime \cup {now + delay} : Give(kind, p, delay, time)
  BY <1>2
<1>4. Typed
  BY DEF IInv
<1>5. now \in Nat /\ delay \in Nat /\ delay > 0
  BY <1>4, DoubleReadingThresholdAssumption DEF Typed
<1>6. now' = now + delay /\ now' \in Nat /\ now <= now' /\ now' \in 1 .. now' /\ time \in Nat
  BY <1>3, <1>5, TypedTimeAssumption DEF Give
<1>7. \A c \in Command : c \in Command'
  BY <1>5, <1>6 DEF Command
<1>8. Typed'
  <2>1. sent' \in SUBSET Command'
    <3>1. [kind |-> kind, person |-> p, at |-> now', time |-> time] \in Command'
      BY <1>6 DEF Command
    <3>. QED  BY <1>3, <1>4, <1>7, <3>1 DEF Give, Typed
  <2>2. commands' \in 0 .. MaxCommands
    BY <1>3, <1>4, MaxCommandsAssumption DEF Give, Typed
  <2>3. \A f : HasRow(stream, f) => f.at \in 1 .. now'
    BY <1>4, <1>5, <1>6 DEF Typed
  <2>4. (\A f : HasRow(stream, f) => f.at \in 1 .. now)'
    BY <1>3, <2>3 DEF Give, HasRow
  <2>. QED  BY <1>3, <1>4, <1>6, <1>7, <2>1, <2>2, <2>4 DEF Give, Typed
<1>9. UNCHANGED <<type, stream, requests, overlapped, late>>
  BY <1>3 DEF Give
<1>10. /\ KnownSerial' /\ KnownReplays' /\ KnownPaired' /\ KnownReadings'
  BY <1>9 DEF IInv, KnownSerial, KnownReplays, KnownPaired, KnownReadings
<1>. QED  BY <1>8, <1>10 DEF IInv

\* A request that begins reads the stream as it is.
LEMMA InvariantRead ==
    ASSUME IInv, NEW c \in sent, Read(c)
    PROVE  IInv'
<1>. DEFINE q == [command |-> c, given |-> stream]
<1>1. /\ requests' = requests \cup {q}
      /\ overlapped' = (overlapped \/ requests # {})
      /\ sent' = sent \ {c}
      /\ UNCHANGED <<type, now, commands, stream, late, refused>>
  BY DEF Read
<1>2. q.command = c /\ q.given = stream
  OBVIOUS
<1>. HIDE DEF q
<1>3. Typed'
  <2>1. Command' = Command
    BY <1>1 DEF Command
  <2>2. (\A f : HasRow(stream, f) => f.at \in 1 .. now)'
    BY <1>1 DEF IInv, Typed, HasRow
  <2>3. /\ sent' \in SUBSET Command /\ overlapped' \in BOOLEAN
        /\ \A r \in requests' : r.command \in Command /\ r.given \in SortedRows(Person)
    BY <1>1, <1>2 DEF IInv, Typed
  <2>. QED  BY <1>1, <2>1, <2>2, <2>3 DEF IInv, Typed
<1>4. KnownSerial'
  BY <1>1, <1>2 DEF KnownSerial
<1>5. KnownReplays' /\ KnownReadings'
  BY <1>1 DEF IInv, KnownReplays, KnownReadings
<1>6. KnownPaired'
  BY <1>1, <1>2 DEF IInv, KnownPaired
<1>. QED  BY <1>3, <1>4, <1>5, <1>6 DEF IInv

\* What the server does: nothing to the rows, or it appends what the operation
\* makes of the state that the request has read.
Executed(r, S, events) ==
    /\ Replays(r.given) /\ events \in Seq(EventRow(Person))
    /\ S = States(r.given)[Len(States(r.given))]
    /\ Appends(stream', stream, events, type, S, r.command, now')
    /\ late' = (late \/ \E i \in DOMAIN events, j \in DOMAIN stream :
                           IsRemoval(events[i]) /\ stream[j].at > events[i].at)

\* Execute does one of the two.
LEMMA ExecuteExecutes ==
    ASSUME Typed, NEW r \in requests, Execute(r)
    PROVE  \/ stream' = stream /\ (late => late')
           \/ \E S, events : Executed(r, S, events)
<1>. DEFINE c == r.command
            states == States(r.given)
            S == states[Len(states)]
            events == Operation(S, c)
<1>1. CASE Len(states) # Len(r.given) + 1
  BY <1>1 DEF Execute
<1>2. CASE Len(states) = Len(r.given) + 1
  <2>1. Replays(r.given)
    BY <1>2 DEF Replays
  <2>2. AppendEvents(c, S, events)
    BY <1>2 DEF Execute
  <2>3. S \in State(Person)
    <3>1. r.given \in Seq(EventRow(Person))
      BY DEF Typed, SortedRows
    <3>. QED  BY <3>1, ReplayedRows
  <2>4. IsInfo(c, Person) /\ c.kind \in Kind
    BY DEF Typed, Command, IsInfo
  <2>5. now' \in Nat
    BY DEF Typed, Execute
  <2>. DEFINE s0 == S
              all == Operation(s0, c)
  <2>. HIDE DEF S, states, c
  <2>6. Does(all, Person, type, s0, c)
    <3>1. Does(AddScan(type, s0, c), Person, type, s0, c)
      BY <2>3, <2>4, AddScanDone
    <3>2. Does(RemoveScan(type, s0, c), Person, type, s0, c)
      BY <2>3, <2>4, RemoveScanDone
    <3>3. Does(ChangeScanTime(type, s0, c, c.kind), Person, type, s0, c)
      BY <2>3, <2>4, ChangeScanTimeDone
    <3>. QED  BY <3>1, <3>2, <3>3 DEF Operation
  <2>. HIDE DEF s0, all
  <2>7. Appends(AllStored(stream, StampedRows(all, now')), stream, all, type, s0, c, now')
    <3>1. stream \in SortedRows(Person)
      BY DEF Typed
    <3>. QED  BY <2>4, <2>5, <2>6, <3>1, DoesAppend
  <2>8. Stamped(all) = StampedRows(all, now')
    BY DEF Stamped, StampedRows, StampedRow
  <2>9. /\ stream' = stream \/ stream' = AllStored(stream, StampedRows(all, now'))
        /\ late' = (late \/ \E i \in DOMAIN all, j \in DOMAIN stream :
                               IsRemoval(all[i]) /\ stream[j].at > all[i].at)
    BY <2>2, <2>8 DEF AppendEvents, all, s0
  <2>10. Appends(stream', stream, all, type, s0, c, now')
    <3>1. CASE stream' = stream
      BY <3>1 DEF Appends
    <3>2. CASE stream' = AllStored(stream, StampedRows(all, now'))
      BY <2>7, <3>2
    <3>. QED  BY <2>9, <3>1, <3>2
  <2>11. all \in Seq(EventRow(Person))
    BY <2>6 DEF Does
  <2>12. Executed(r, s0, all)
    BY <2>1, <2>9, <2>10, <2>11 DEF Executed, s0, S, states, c
  <2>. QED  BY <2>12
<1>. QED  BY <1>1, <1>2

\* The clock and the requests, when a request is executed.
LEMMA ExecuteFrame ==
    ASSUME Typed, NEW r \in requests, Execute(r)
    PROVE  /\ now' \in Nat /\ now <= now' /\ (now > 0 => now' \in 1 .. now')
           /\ requests' = requests \ {r}
           /\ UNCHANGED <<type, commands, sent, overlapped>>
           /\ \A c \in Command : c \in Command'
           /\ IsInfo(r.command, Person) /\ r.command.at \in 1 .. now
           /\ IsBehind(stream, now')
<1>1. now \in Nat /\ (now' = now \/ now' = now + 1)
  BY DEF Typed, Execute
<1>2. r.command \in Command
  BY DEF Typed
<1>3. IsInfo(r.command, Person) /\ r.command.at \in 1 .. now
  BY <1>1, <1>2 DEF Command, IsInfo
<1>4. now' \in Nat /\ now <= now' /\ (now > 0 => now' \in 1 .. now')
  BY <1>1
<1>5. \A c \in Command : c \in Command'
  BY <1>1, <1>4 DEF Command
<1>6. IsBehind(stream, now')
  <2>1. SUFFICES ASSUME NEW i \in 1 .. Len(stream) PROVE stream[i].at <= now'
    BY DEF IsBehind
  <2>2. HasRow(stream, stream[i])
    BY DEF HasRow
  <2>3. stream[i].at \in 1 .. now
    BY <2>2 DEF Typed
  <2>. QED  BY <1>1, <1>4, <2>3
<1>. QED  BY <1>3, <1>4, <1>5, <1>6 DEF Execute

\* The rows, when a request is executed.
LEMMA TypedExecute ==
    ASSUME Typed, NEW r \in requests, Execute(r)
    PROVE  Typed'
<1>1. /\ now' \in Nat /\ now <= now' /\ (now > 0 => now' \in 1 .. now')
      /\ requests' = requests \ {r}
      /\ UNCHANGED <<type, commands, sent, overlapped>>
      /\ \A c \in Command : c \in Command'
      /\ IsInfo(r.command, Person) /\ r.command.at \in 1 .. now
  BY ExecuteFrame
<1>2. now \in Nat /\ stream \in SortedRows(Person) /\ \A f : HasRow(stream, f) => f.at \in 1 .. now
  BY DEF Typed
<1>3. now > 0 /\ now' \in 1 .. now' /\ \A t \in 1 .. now : t \in 1 .. now'
  BY <1>1, <1>2
<1>4. /\ stream' \in SortedRows(Person)
      /\ \A f : HasRow(stream', f) => f.at \in 1 .. now'
  <2>1. CASE stream' = stream
    BY <1>2, <1>3, <2>1
  <2>2. ASSUME NEW S, NEW events, Executed(r, S, events)
        PROVE  /\ stream' \in SortedRows(Person)
               /\ \A f : HasRow(stream', f) => f.at \in 1 .. now'
    <3>. DEFINE new == stream'
                t == now'
    <3>1. Appends(new, stream, events, type, S, r.command, t)
      BY <2>2 DEF Executed
    <3>2. t \in Nat
      BY <1>1
    <3>. HIDE DEF new, t
    <3>3. /\ new \in SortedRows(Person)
          /\ \A f : HasRow(new, f) => HasRow(stream, f) \/ f.at \in {r.command.at, t}
      BY <1>1, <1>2, <3>1, <3>2, TypedAppends
    <3>. QED  BY <1>1, <1>2, <1>3, <3>3 DEF new, t
  <2>. QED  BY <2>1, <2>2, ExecuteExecutes
<1>5. (\A f : HasRow(stream, f) => f.at \in 1 .. now)'
  BY <1>4 DEF HasRow
<1>6. late' \in BOOLEAN /\ refused' \in BOOLEAN
  BY DEF Execute, AppendEvents, Typed
<1>. QED  BY <1>1, <1>4, <1>5, <1>6 DEF Typed

\* What the rows come to, when a request is executed.
LEMMA InvariantExecute ==
    ASSUME IInv, NEW r \in requests, Execute(r)
    PROVE  IInv'
<1>. DEFINE new == stream'
            t == now'
            c == r.command
<1>1. Typed
  BY DEF IInv
<1>2. /\ t \in Nat /\ IsInfo(c, Person) /\ IsBehind(stream, t)
      /\ requests' = requests \ {r}
      /\ UNCHANGED <<type, commands, sent, overlapped>>
  BY <1>1, ExecuteFrame
<1>3. Typed'
  BY <1>1, TypedExecute
<1>4. KnownSerial'
  BY <1>2 DEF IInv, KnownSerial
<1>5. stream \in SortedRows(Person) /\ r.given \in SortedRows(Person) /\ r.given \in Seq(EventRow(Person))
  BY <1>1 DEF Typed, SortedRows
<1>6. CASE stream' = stream /\ (late => late')
  <2>1. KnownReplays' /\ KnownPaired' /\ KnownReadings'
    BY <1>2, <1>6 DEF IInv, KnownReplays, KnownPaired, KnownReadings
  <2>. QED  BY <1>3, <1>4, <2>1 DEF IInv
<1>7. ASSUME NEW S, NEW events, Executed(r, S, events)
      PROVE  IInv'
  <2>1. Appends(new, stream, events, type, S, c, t)
    BY <1>7 DEF Executed
  <2>2. /\ ~overlapped => Shows(S, stream)
        /\ type = "Passthrough" => InStep(S)
    <3>. DEFINE states == States(r.given)
                s0 == states[Len(states)]
    <3>1. Len(states) = Len(r.given) + 1 /\ s0 = S
      BY <1>7 DEF Executed, Replays
    <3>2. /\ Len(states) = Len(r.given) + 1 => Shows(s0, r.given)
          /\ Len(states) = Len(r.given) + 1 /\ Paired(r.given) => InStep(s0)
      BY <1>5, ReplayShows
    <3>. HIDE DEF states, s0
    <3>3. Shows(S, r.given) /\ (Paired(r.given) => InStep(S))
      BY <3>1, <3>2
    <3>. QED  BY <3>3 DEF IInv, KnownSerial, KnownPaired
  <2>3. ~late' => ~late /\ \A e : HasRow(events, e) /\ IsRemoval(e) => IsBehind(stream, e.at)
    <3>. SUFFICES ASSUME ~late', NEW e, HasRow(events, e), IsRemoval(e),
                         NEW j \in 1 .. Len(stream)
         PROVE  stream[j].at <= e.at
      BY <1>7 DEF Executed, IsBehind
    <3>1. PICK i \in 1 .. Len(events) : events[i] = e
      BY DEF HasRow
    <3>2. /\ events \in Seq(EventRow(Person)) /\ stream \in Seq(EventRow(Person))
          /\ i \in DOMAIN events /\ j \in DOMAIN stream
      BY <1>5, <1>7, <3>1 DEF Executed, SortedRows
    <3>3. e \in EventRow(Person) /\ stream[j] \in EventRow(Person)
      BY <3>1, <3>2
    <3>4. e.at \in Nat /\ stream[j].at \in Nat
      BY <3>3 DEF EventRow
    <3>5. ~(stream[j].at > e.at)
      BY <1>7, <3>1, <3>2 DEF Executed
    <3>. QED  BY <3>4, <3>5
  <2>. HIDE DEF new, t, c
  <2>4. new \in SortedRows(Person)
    BY <1>2, <1>5, <2>1, TypedAppends
  <2>5. ~overlapped /\ ~late' => Replays(new)
    BY <1>2, <1>5, <2>1, <2>2, <2>3, ReplayableAppends
  <2>6. type = "Passthrough" => Paired(new)
    <3>. SUFFICES ASSUME type = "Passthrough" PROVE Paired(new)
      OBVIOUS
    <3>1. Paired(stream) /\ InStep(S)
      BY <2>2 DEF IInv, KnownPaired
    <3>. QED  BY <1>2, <1>5, <2>1, <3>1, PairedAppends
  <2>7. ~overlapped /\ type = "Start" => NoneIn(new)
    <3>. SUFFICES ASSUME ~overlapped, type = "Start" PROVE NoneIn(new)
      OBVIOUS
    <3>1. NoneIn(stream)
      BY DEF IInv, KnownReadings
    <3>. QED  BY <1>2, <1>5, <2>1, <3>1, NoneInAppends
  <2>8. ~overlapped /\ type # "Start" => OneReading(new) /\ OutNeedsIn(new) /\ InOrder(new)
    <3>. SUFFICES ASSUME ~overlapped, type # "Start"
         PROVE  OneReading(new) /\ OutNeedsIn(new) /\ InOrder(new)
      OBVIOUS
    <3>1. OneReading(stream) /\ OutNeedsIn(stream) /\ InOrder(stream)
      BY DEF IInv, KnownReadings
    <3>2. type = "Passthrough" => InStep(S) /\ Paired(stream)
      BY <2>2 DEF IInv, KnownPaired
    <3>3. OneReading(new)
      BY <1>2, <1>5, <2>1, <2>2, <3>1, <3>2, OneAppends
    <3>4. OutNeedsIn(new) /\ InOrder(new)
      BY <1>2, <1>5, <2>1, <2>2, <3>1, <3>2, OrderAppends
    <3>. QED  BY <3>3, <3>4
  <2>9. KnownReplays'
    BY <1>2, <2>5 DEF KnownReplays, new
  <2>10. KnownPaired'
    BY <1>2, <2>6 DEF IInv, KnownPaired, new
  <2>11. KnownReadings'
    BY <1>2, <2>7, <2>8 DEF KnownReadings, new
  <2>. QED  BY <1>3, <1>4, <2>9, <2>10, <2>11 DEF IInv
<1>. QED  BY <1>1, <1>6, <1>7, ExecuteExecutes

\* The invariant holds in every state.
LEMMA InvariantHolds == Spec => []IInv
<1>1. Init => IInv
  BY InvariantInit
<1>2. IInv /\ [Next]_vars => IInv'
  <2>. SUFFICES ASSUME IInv, [Next]_vars PROVE IInv'
    OBVIOUS
  <2>1. CASE GiveCommand
    BY <2>1, InvariantGiveCommand
  <2>2. ASSUME NEW c \in sent, Read(c) PROVE IInv'
    BY <2>2, InvariantRead
  <2>3. ASSUME NEW r \in requests, Execute(r) PROVE IInv'
    BY <2>3, InvariantExecute
  <2>4. CASE UNCHANGED vars
    BY <2>4 DEF vars, IInv, Typed, KnownSerial, KnownReplays, KnownPaired, KnownReadings, Command, HasRow
  <2>. QED  BY <2>1, <2>2, <2>3, <2>4 DEF Next
<1>. QED  BY <1>1, <1>2, PTL DEF Spec

-----------------------------------------------------------------------------
(* The theorems.                                                           *)

\* Every variable has its type; and the rows of the stream are in the order of
\* their timestamps, none of them later than now.
THEOREM TypeIsCorrect == Spec => []TypeOK
<1>1. Typed => TypeOK
  <2>. SUFFICES ASSUME Typed PROVE TypeOK
    OBVIOUS
  <2>1. stream \in Seq(EventRow(Person)) /\ Sorted(stream)
    BY DEF Typed, SortedRows
  <2>2. \A i \in DOMAIN stream : stream[i].person \in Person /\ stream[i].at \in 1 .. now
    <3>. SUFFICES ASSUME NEW i \in DOMAIN stream
         PROVE  stream[i].person \in Person /\ stream[i].at \in 1 .. now
      OBVIOUS
    <3>1. stream[i] \in EventRow(Person) /\ HasRow(stream, stream[i])
      BY <2>1 DEF HasRow
    <3>. QED  BY <3>1 DEF Typed, EventRow
  <2>3. \A i, j \in DOMAIN stream : i <= j => stream[i].at <= stream[j].at
    BY <2>1 DEF Sorted
  <2>. QED  BY <2>2, <2>3 DEF Typed, TypeOK
<1>. QED  BY <1>1, InvariantHolds, PTL DEF IInv

\* As long as requests do not overlap and no removal takes a place before rows
\* already there, the stream can be replayed, whatever arrives late.
THEOREM SerialStreamReplays == Spec => []StreamReplays
<1>1. IInv => StreamReplays
  BY DEF IInv, KnownReplays, StreamReplays
<1>. QED  BY <1>1, InvariantHolds, PTL

\* As long as requests do not overlap, nobody has two readings of a kind
\* anywhere but at the start.
THEOREM NobodyIsReadTwice == Spec => []SerialOneReading
<1>1. IInv => SerialOneReading
  <2>. SUFFICES ASSUME IInv, ~overlapped, type # "Start" PROVE
         LET states == States(stream)
             S == states[Len(states)]
         IN  Len(states) = Len(stream) + 1 =>
                \A p \in Person : Times(S.in, p) <= 1 /\ Times(S.out, p) <= 1
    BY DEF SerialOneReading, OnReplay
  <2>1. stream \in Seq(EventRow(Person)) /\ OneReading(stream)
    BY DEF IInv, Typed, SortedRows, KnownReadings
  <2>. QED  BY <2>1, ReplayShows
<1>. QED  BY <1>1, InvariantHolds, PTL

\* ... and nobody leaves before they came, by the times that the aggregate keeps.
THEOREM NobodyLeavesBeforeComing == Spec => []SerialOutAfterIn
<1>1. IInv => SerialOutAfterIn
  <2>. DEFINE states == States(stream)
              S == states[Len(states)]
  <2>. SUFFICES ASSUME IInv, ~overlapped, Len(states) = Len(stream) + 1, NEW p \in Person,
                       IsRead(S.in, p), IsRead(S.out, p)
       PROVE  FirstReading(S.in, p).at <= FirstReading(S.out, p).at
    BY DEF SerialOutAfterIn, OnReplay
  <2>1. stream \in Seq(EventRow(Person))
    BY DEF IInv, Typed, SortedRows
  <2>2. Shows(S, stream)
    BY <2>1, ReplayShows
  <2>. HIDE DEF S, states
  <2>3. /\ Reads(stream, InAdd, InRem, p) # {}
        /\ ReadAt(FirstReading(S.in, p).at, p, stream, InAdd, InRem, InChg)
        /\ ReadAt(FirstReading(S.out, p).at, p, stream, OutAdd, OutRem, OutChg)
    BY <2>2 DEF Shows
  <2>4. type # "Start"
    <3>. SUFFICES ASSUME type = "Start" PROVE FALSE
      OBVIOUS
    <3>1. NoneIn(stream)
      BY DEF IInv, KnownReadings
    <3>2. Len(stream) \in Nat /\ 1 .. (Len(stream) + 1) - 1 = 1 .. Len(stream)
      BY <2>1
    <3>. QED  BY <2>3, <3>1, <3>2 DEF NoneIn, Reads, Live
  <2>5. InOrder(stream)
    BY <2>4 DEF IInv, KnownReadings
  <2>. QED  BY <2>3, <2>5 DEF InOrder
<1>. QED  BY <1>1, InvariantHolds, PTL

\* A passthrough has as many readings in of a person as readings out, even when
\* requests overlap and rows take their places late.
THEOREM PassthroughReadsBoth == Spec => []PassthroughInStep
<1>1. IInv => PassthroughInStep
  <2>. SUFFICES ASSUME IInv, type = "Passthrough" PROVE
         LET states == States(stream)
             S == states[Len(states)]
         IN  Len(states) = Len(stream) + 1 =>
                \A p \in Person : Times(S.in, p) = Times(S.out, p)
    BY DEF PassthroughInStep, OnReplay
  <2>1. stream \in Seq(EventRow(Person)) /\ Paired(stream)
    BY DEF IInv, Typed, SortedRows, KnownPaired
  <2>. QED  BY <2>1, ReplayShows
<1>. QED  BY <1>1, InvariantHolds, PTL

=============================================================================
