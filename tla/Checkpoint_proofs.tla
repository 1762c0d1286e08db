-------------------------- MODULE Checkpoint_proofs --------------------------
(***************************************************************************)
(* What storing and replaying the rows of a checkpoint does, for every     *)
(* list of rows: lemmas for the proofs about Walk and CheckpointScans.     *)
(***************************************************************************)
EXTENDS Checkpoint, WellFoundedInduction, SequenceTheorems, FiniteSetTheorems, TLAPS

-----------------------------------------------------------------------------
(* Minimum, induction over a set of numbers, and that a function defined   *)
(* by recursion over 0 .. n is there.  The library states the last two for *)
(* operators, as parameters; here they are about sets and functions.       *)

\* A non-empty set of naturals has a least element.
LEMMA NatMin ==
    ASSUME NEW S \in SUBSET Nat, S # {}
    PROVE  \E m \in S : \A n \in S : m <= n
<1>. DEFINE R == OpToRel(<, Nat)
<1>1. IsWellFoundedOn(R, Nat)
  BY NatLessThanWellFounded
<1>2. \A x, y \in Nat : x < y <=> <<x, y>> \in R
  BY DEF OpToRel
<1>. HIDE DEF R
<1>3. PICK x \in S : \A y \in S : ~(<<y, x>> \in R)
  BY <1>1, WFMin
<1>4. \A y \in S : x <= y
  <2>. TAKE y \in S
  <2>1. ~(y < x)
    BY <1>2, <1>3
  <2>. QED  BY <2>1
<1>. QED  BY <1>4

\* A set that has 0, and with a number its successor, up to n.
LEMMA UpTo ==
    ASSUME NEW n \in Nat, NEW S, 0 \in S,
           \A i \in 0 .. n : i \in S /\ i < n => i + 1 \in S
    PROVE  \A i \in 0 .. n : i \in S
<1>. DEFINE Missing == {i \in 0 .. n : i \notin S}
<1>. SUFFICES ASSUME Missing # {} PROVE FALSE
  OBVIOUS
<1>1. PICK m \in Missing : \A i \in Missing : m <= i
  <2>1. Missing \in SUBSET Nat
    OBVIOUS
  <2>. HIDE DEF Missing
  <2>. QED  BY <2>1, NatMin
<1>2. m \in 0 .. n /\ m # 0 /\ m - 1 \in 0 .. n /\ m - 1 < n
  BY <1>1
<1>3. m - 1 \in S
  BY <1>1, <1>2
<1>4. (m - 1) + 1 \in S
  BY <1>2, <1>3
<1>. QED  BY <1>1, <1>2, <1>4

\* f begins with a and goes on with step, up to n.
Recurs(f, n, T, a, step) ==
    /\ f \in [0 .. n -> T] /\ f[0] = a
    /\ \A i \in 1 .. n : f[i] = step[i][f[i - 1]]

\* The function that begins with a and goes on with step is there.
LEMMA Recursion ==
    \A n \in Nat : \A T : \A a \in T : \A step \in [1 .. n -> [T -> T]] :
        \E f : Recurs(f, n, T, a, step)
<1>. SUFFICES ASSUME NEW n \in Nat, NEW T, NEW a \in T, NEW step \in [1 .. n -> [T -> T]]
              PROVE  \E f : Recurs(f, n, T, a, step)
  OBVIOUS
<1>. DEFINE Upto(m, f) == Recurs(f, m, T, a, step)
            S == {m \in 0 .. n : \E f : Upto(m, f)}
<1>. USE DEF Recurs
<1>1. 0 \in S
  <2>1. Upto(0, [i \in 0 .. 0 |-> a])
    OBVIOUS
  <2>. HIDE DEF Upto
  <2>. QED  BY <2>1
<1>2. ASSUME NEW m \in 0 .. n, m \in S, m < n
      PROVE  m + 1 \in S
  <2>1. PICK f : Upto(m, f)
    BY <1>2
  <2>2. m + 1 \in 1 .. n /\ f[m] \in T
    BY <1>2, <2>1
  <2>. DEFINE g == [i \in 0 .. m + 1 |-> IF i = m + 1 THEN step[i][f[m]] ELSE f[i]]
  <2>3. step[m + 1][f[m]] \in T
    BY <2>2
  <2>4. \A i \in 0 .. m : g[i] = f[i] /\ g[i] \in T
    BY <2>1
  <2>5. g[m + 1] = step[m + 1][f[m]]
    BY <1>2
  <2>6. g \in [0 .. m + 1 -> T]
    BY <2>1, <2>3
  <2>7. g[0] = a
    BY <2>1, <2>4
  <2>. HIDE DEF g
  <2>8. ASSUME NEW i \in 1 .. m + 1
        PROVE  g[i] = step[i][g[i - 1]]
    <3>1. i - 1 \in 0 .. m
      OBVIOUS
    <3>2. CASE i = m + 1
      BY <2>4, <2>5, <3>1, <3>2
    <3>3. CASE i \in 1 .. m
      BY <2>1, <2>4, <3>1, <3>3
    <3>. QED  BY <3>2, <3>3
  <2>9. Upto(m + 1, g)
    BY <2>6, <2>7, <2>8
  <2>. HIDE DEF Upto
  <2>. QED  BY <1>2, <2>9
<1>3. n \in S
  <2>. HIDE DEF S
  <2>1. \A i \in 0 .. n : i \in S /\ i < n => i + 1 \in S
    BY <1>2
  <2>2. \A i \in 0 .. n : i \in S
    BY <1>1, <2>1, UpTo
  <2>. QED  BY <2>2
<1>. QED  BY <1>3

-----------------------------------------------------------------------------
(* Readings and rows.                                                      *)

\* Readings and rows of the people in P.
Reading(P) == [person : P, at : Nat, shown : Nat]

EventType ==
    {"FirstAttendeeForHappeningScanned", "AttendeeScanIn", "AttendeeScanOut",
     "AttendeePassthroughScan", "AttendeeDoubleScan", "AttendeeScanOutPreceedsScanIn",
     "AttendeeScannedAtStartCheckpoint", "AttendeeScannedAtFinishCheckpoint",
     "AttendeeScanInTimeChanged", "AttendeeScanOutTimeChanged",
     "AttendeePassthroughScanTimeChanged", "AttendeeScanInRemoved", "AttendeeScanOutRemoved"}

EventRow(P) == [type : EventType, person : P, at : Nat, time : Nat]

State(P) == [in : Seq(Reading(P)), out : Seq(Reading(P))]

-----------------------------------------------------------------------------
(* Removed: the readings of everybody else, in their order.                *)

\* The recursion that Removed is defined by.
LeftAfter(left, P, list, p) ==
    /\ left \in [0 .. Len(list) -> Seq(Reading(P))]
    /\ left[0] = <<>>
    /\ \A n \in 1 .. Len(list) :
          left[n] = IF list[n].person = p THEN left[n - 1] ELSE Append(left[n - 1], list[n])
    /\ Removed(list, p) = left[Len(list)]

\* The recursive function of Removed is one.
LEMMA RemovedRecursion ==
    ASSUME NEW P, NEW list \in Seq(Reading(P)), NEW p
    PROVE  \E left : LeftAfter(left, P, list, p)
<1>. DEFINE N == Len(list)
            T == Seq(Reading(P))
            step == [n \in 1 .. N |-> [x \in T |-> IF list[n].person = p THEN x
                                                   ELSE Append(x, list[n])]]
            Eq(f) == f = [n \in 0 .. N |->
                            IF n = 0 THEN <<>>
                            ELSE IF list[n].person = p THEN f[n - 1]
                                 ELSE Append(f[n - 1], list[n])]
<1>1. N \in Nat /\ \A n \in 1 .. N : list[n] \in Reading(P)
  OBVIOUS
<1>2. step \in [1 .. N -> [T -> T]]
  BY <1>1
<1>3. <<>> \in T
  OBVIOUS
<1>4. PICK f : Recurs(f, N, T, <<>>, step)
  <2>. HIDE DEF step, T, N
  <2>. QED  BY <1>1, <1>2, <1>3, Recursion
<1>5. \A n \in 1 .. N, x \in T :
         step[n][x] = IF list[n].person = p THEN x ELSE Append(x, list[n])
  OBVIOUS
<1>. HIDE DEF step
<1>6. Eq(f)
  <2>1. f \in [0 .. N -> T] /\ f[0] = <<>>
    BY <1>4 DEF Recurs
  <2>2. ASSUME NEW n \in 1 .. N
        PROVE  f[n] = IF list[n].person = p THEN f[n - 1] ELSE Append(f[n - 1], list[n])
    <3>1. f[n] = step[n][f[n - 1]]
      BY <1>4 DEF Recurs
    <3>2. f[n - 1] \in T
      BY <1>1, <2>1
    <3>. QED  BY <1>5, <3>1, <3>2
  <2>3. \A n \in 0 .. N : n = 0 \/ n \in 1 .. N
    BY <1>1
  <2>. HIDE DEF N, T
  <2>4. \A n \in 0 .. N : f[n] = IF n = 0 THEN <<>>
                                 ELSE IF list[n].person = p THEN f[n - 1]
                                      ELSE Append(f[n - 1], list[n])
    BY <2>1, <2>2, <2>3
  <2>. QED  BY <2>1, <2>4
<1>. DEFINE left == CHOOSE g : Eq(g)
<1>7. Eq(left)
  <2>. HIDE DEF Eq
  <2>. QED  BY <1>6
<1>8. Removed(list, p) = left[N]
  BY DEF Removed
<1>. HIDE DEF left
<1>9. /\ left[0] = <<>>
      /\ \A n \in 1 .. N : left[n] = IF list[n].person = p THEN left[n - 1]
                                     ELSE Append(left[n - 1], list[n])
  <2>. HIDE DEF N
  <2>1. 0 \in 0 .. N /\ \A n \in 1 .. N : n \in 0 .. N /\ n # 0
    BY <1>1
  <2>. QED  BY <1>7, <2>1
<1>10. \A n \in 0 .. N : left[n] \in T
  <2>. DEFINE S == {n \in 0 .. N : left[n] \in T}
  <2>1. 0 \in S
    <3>. HIDE DEF N, T
    <3>1. left[0] \in T /\ 0 \in 0 .. N
      BY <1>1, <1>3, <1>9
    <3>. QED  BY <3>1
  <2>2. ASSUME NEW n \in 0 .. N, n \in S, n < N
        PROVE  n + 1 \in S
    <3>1. n + 1 \in 1 .. N /\ (n + 1) - 1 = n /\ left[n] \in T
      BY <1>1, <2>2
    <3>2. list[n + 1] \in Reading(P)
      BY <1>1, <3>1
    <3>3. left[n + 1] = left[n] \/ left[n + 1] = Append(left[n], list[n + 1])
      BY <1>9, <3>1
    <3>. QED  BY <3>1, <3>2, <3>3
  <2>. HIDE DEF S
  <2>3. \A n \in 0 .. N : n \in S
    BY <1>1, <2>1, <2>2, UpTo
  <2>. QED  BY <2>3 DEF S
<1>11. left \in [0 .. N -> T]
  BY <1>7, <1>10
<1>12. LeftAfter(left, P, list, p)
  BY <1>8, <1>9, <1>11 DEF LeftAfter
<1>. QED  BY <1>12

\* m tells where in the first n readings of list those of L come from: all but
\* the readings of p, in their order.
Picks(m, L, list, n, p) ==
    /\ m \in [1 .. Len(L) -> 1 .. n]
    /\ \A i, j \in 1 .. Len(L) : i < j => m[i] < m[j]
    /\ \A i \in 1 .. Len(L) : L[i] = list[m[i]] /\ list[m[i]].person # p
    /\ \A j \in 1 .. n : list[j].person # p => \E i \in 1 .. Len(L) : m[i] = j

\* Removed keeps the readings of everybody else, in their order.
LEMMA RemovedPicks ==
    ASSUME NEW P, NEW list \in Seq(Reading(P)), NEW p
    PROVE  /\ Removed(list, p) \in Seq(Reading(P))
           /\ \E m : Picks(m, Removed(list, p), list, Len(list), p)
<1>. DEFINE N == Len(list)
<1>0. PICK left : LeftAfter(left, P, list, p)
  BY RemovedRecursion
<1>1. /\ left \in [0 .. N -> Seq(Reading(P))]
      /\ left[0] = <<>>
      /\ \A n \in 1 .. N : left[n] = IF list[n].person = p THEN left[n - 1]
                                     ELSE Append(left[n - 1], list[n])
      /\ Removed(list, p) = left[N]
  BY <1>0 DEF LeftAfter
<1>2. N \in Nat /\ \A n \in 1 .. N : list[n] \in Reading(P)
  OBVIOUS
<1>. DEFINE S == {n \in 0 .. N : \E m : Picks(m, left[n], list, n, p)}
<1>. HIDE DEF N
<1>3. 0 \in S
  <2>1. Picks(<<>>, left[0], list, 0, p)
    BY <1>1 DEF Picks
  <2>. QED  BY <1>2, <2>1
<1>4. ASSUME NEW n \in 0 .. N, n \in S, n < N
      PROVE  n + 1 \in S
  <2>1. PICK m : Picks(m, left[n], list, n, p)
    BY <1>4
  <2>2. n \in Nat /\ n + 1 \in 1 .. N /\ (n + 1) - 1 = n
    BY <1>2, <1>4
  <2>. DEFINE L == left[n]
              e == list[n + 1]
  <2>3. L \in Seq(Reading(P)) /\ e \in Reading(P)
    BY <1>1, <1>2, <2>2
  <2>4. left[n + 1] = IF e.person = p THEN L ELSE Append(L, e)
    BY <1>1, <2>2
  <2>. HIDE DEF L
  <2>5. CASE e.person = p
    <3>1. Picks(m, L, list, n + 1, p)
      BY <2>1, <2>2, <2>5 DEF Picks, L
    <3>. QED  BY <1>4, <2>2, <2>4, <2>5, <3>1
  <2>6. CASE e.person # p
    <3>. DEFINE K == Append(L, e)
                k == [i \in 1 .. Len(K) |-> IF i = Len(K) THEN n + 1 ELSE m[i]]
    <3>1. /\ Len(L) \in Nat /\ Len(K) = Len(L) + 1 /\ K[Len(K)] = e
          /\ \A i \in 1 .. Len(L) : K[i] = L[i]
      BY <2>3
    <3>2. /\ m \in [1 .. Len(L) -> 1 .. n]
          /\ \A i, j \in 1 .. Len(L) : i < j => m[i] < m[j]
          /\ \A i \in 1 .. Len(L) : L[i] = list[m[i]] /\ list[m[i]].person # p
          /\ \A j \in 1 .. n : list[j].person # p => \E i \in 1 .. Len(L) : m[i] = j
      BY <2>1 DEF Picks, L
    <3>. HIDE DEF K, e
    <3>3. /\ k \in [1 .. Len(K) -> 1 .. n + 1]
          /\ k[Len(K)] = n + 1
          /\ \A i \in 1 .. Len(L) : k[i] = m[i] /\ k[i] \in 1 .. n
      BY <2>2, <3>1, <3>2
    <3>. HIDE DEF k
    <3>4. \A i, j \in 1 .. Len(K) : i < j => k[i] < k[j]
      <4>. SUFFICES ASSUME NEW i \in 1 .. Len(K), NEW j \in 1 .. Len(K), i < j
                    PROVE  k[i] < k[j]
        OBVIOUS
      <4>1. i \in 1 .. Len(L)
        BY <3>1
      <4>2. CASE j = Len(K)
        BY <2>2, <3>3, <4>1, <4>2
      <4>3. CASE j \in 1 .. Len(L)
        BY <3>2, <3>3, <4>1, <4>3
      <4>. QED  BY <3>1, <4>2, <4>3
    <3>5. \A i \in 1 .. Len(K) : K[i] = list[k[i]] /\ list[k[i]].person # p
      <4>. TAKE i \in 1 .. Len(K)
      <4>1. CASE i = Len(K)
        BY <2>6, <3>1, <3>3, <4>1 DEF e
      <4>2. CASE i \in 1 .. Len(L)
        BY <3>1, <3>2, <3>3, <4>2
      <4>. QED  BY <3>1, <4>1, <4>2
    <3>6. \A j \in 1 .. n + 1 : list[j].person # p => \E i \in 1 .. Len(K) : k[i] = j
      <4>. SUFFICES ASSUME NEW j \in 1 .. n + 1, list[j].person # p
                    PROVE  \E i \in 1 .. Len(K) : k[i] = j
        OBVIOUS
      <4>1. CASE j = n + 1
        BY <3>1, <3>3, <4>1
      <4>2. CASE j \in 1 .. n
        BY <3>1, <3>2, <3>3, <4>2
      <4>. QED  BY <2>2, <4>1, <4>2
    <3>7. Picks(k, K, list, n + 1, p)
      BY <3>3, <3>4, <3>5, <3>6 DEF Picks
    <3>8. left[n + 1] = K
      BY <2>4, <2>6 DEF K, e
    <3>. QED  BY <1>4, <2>2, <3>7, <3>8
  <2>. QED  BY <2>5, <2>6
<1>5. N \in S
  <2>. HIDE DEF S
  <2>1. \A n \in 0 .. N : n \in S
    BY <1>2, <1>3, <1>4, UpTo
  <2>. QED  BY <1>2, <2>1
<1>. QED  BY <1>1, <1>2, <1>5 DEF N

\* Whose readings are left.
LEMMA RemovedIsRead ==
    ASSUME NEW P, NEW list \in Seq(Reading(P)), NEW p, NEW q
    PROVE  IsRead(Removed(list, p), q) <=> q # p /\ IsRead(list, q)
<1>. DEFINE R == Removed(list, p)
<1>1. R \in Seq(Reading(P)) /\ \E m : Picks(m, R, list, Len(list), p)
  BY RemovedPicks
<1>2. PICK m : Picks(m, R, list, Len(list), p)
  BY <1>1
<1>3. DOMAIN R = 1 .. Len(R) /\ DOMAIN list = 1 .. Len(list)
  BY <1>1
<1>. HIDE DEF R
<1>4. ASSUME IsRead(R, q) PROVE q # p /\ IsRead(list, q)
  BY <1>2, <1>3, <1>4 DEF IsRead, Readings, Picks
<1>5. ASSUME IsRead(list, q), q # p PROVE IsRead(R, q)
  BY <1>2, <1>3, <1>5 DEF IsRead, Readings, Picks
<1>. QED  BY <1>4, <1>5 DEF R

-----------------------------------------------------------------------------
(* Applied: what one row does to the readings.                             *)

\* The first reading of a person who has one.
LEMMA FirstIndexIn ==
    ASSUME NEW P, NEW list \in Seq(Reading(P)), NEW p, IsRead(list, p)
    PROVE  /\ FirstIndex(list, p) \in 1 .. Len(list)
           /\ list[FirstIndex(list, p)].person = p
           /\ \A j \in 1 .. Len(list) : list[j].person = p => FirstIndex(list, p) <= j
<1>. DEFINE I == Readings(list, p)
<1>1. I = {i \in 1 .. Len(list) : list[i].person = p}
  BY DEF Readings
<1>2. I \in SUBSET Nat /\ I # {}
  BY <1>1 DEF IsRead
<1>. HIDE DEF I
<1>3. \E i \in I : \A j \in I : i <= j
  BY <1>2, NatMin
<1>4. /\ FirstIndex(list, p) \in I
      /\ \A j \in I : FirstIndex(list, p) <= j
  BY <1>3 DEF FirstIndex, I
<1>. QED  BY <1>1, <1>4

\* A change of time leaves the list its length and everybody their places.
LEMMA ChangedRows ==
    ASSUME NEW P, NEW list \in Seq(Reading(P)), NEW e \in EventRow(P),
           IsRead(list, e.person)
    PROVE  /\ Changed(list, e) \in Seq(Reading(P))
           /\ Len(Changed(list, e)) = Len(list)
           /\ \A i \in 1 .. Len(list) : Changed(list, e)[i].person = list[i].person
<1>. DEFINE k == FirstIndex(list, e.person)
            row == [list[k] EXCEPT !.at = e.time, !.shown = e.time]
<1>1. k \in 1 .. Len(list)
  BY FirstIndexIn
<1>. HIDE DEF k
<1>2. list[k] \in Reading(P) /\ e.time \in Nat
  BY <1>1 DEF EventRow
<1>3. row \in Reading(P) /\ row.person = list[k].person
  BY <1>2 DEF Reading
<1>4. Changed(list, e) = [list EXCEPT ![k] = row]
  BY <1>1 DEF Changed, k
<1>. HIDE DEF row
<1>5. [list EXCEPT ![k] = row] \in Seq(Reading(P)) /\ Len([list EXCEPT ![k] = row]) = Len(list)
  BY <1>1, <1>3, ExceptSeq
<1>6. \A i \in 1 .. Len(list) : [list EXCEPT ![k] = row][i] = IF i = k THEN row ELSE list[i]
  BY <1>1
<1>. QED  BY <1>1, <1>3, <1>4, <1>5, <1>6

\* Whether p has a reading in the list once the row e has been applied to it,
\* when e adds, or removes, the readings of its person.
LEMMA AppendedIsRead ==
    ASSUME NEW P, NEW list \in Seq(Reading(P)), NEW row \in Reading(P), NEW q
    PROVE  /\ Append(list, row) \in Seq(Reading(P))
           /\ IsRead(Append(list, row), q) <=> row.person = q \/ IsRead(list, q)
<1>. DEFINE L == Append(list, row)
<1>1. /\ L \in Seq(Reading(P)) /\ Len(L) = Len(list) + 1 /\ Len(list) \in Nat
      /\ L[Len(L)] = row /\ \A i \in 1 .. Len(list) : L[i] = list[i]
  OBVIOUS
<1>. HIDE DEF L
<1>2. DOMAIN L = 1 .. Len(L) /\ DOMAIN list = 1 .. Len(list)
  BY <1>1
<1>3. IsRead(L, q) <=> \E i \in 1 .. Len(L) : L[i].person = q
  BY <1>2 DEF IsRead, Readings
<1>4. IsRead(list, q) <=> \E i \in 1 .. Len(list) : list[i].person = q
  BY <1>2 DEF IsRead, Readings
<1>5. (\E i \in 1 .. Len(L) : L[i].person = q)
         <=> row.person = q \/ \E i \in 1 .. Len(list) : list[i].person = q
  BY <1>1
<1>. QED  BY <1>1, <1>3, <1>4, <1>5 DEF L

\* A change of time gives nobody a first reading and takes nobody's last.
LEMMA ChangedIsRead ==
    ASSUME NEW P, NEW list \in Seq(Reading(P)), NEW e \in EventRow(P),
           IsRead(list, e.person), NEW q
    PROVE  IsRead(Changed(list, e), q) <=> IsRead(list, q)
<1>. DEFINE L == Changed(list, e)
<1>1. /\ L \in Seq(Reading(P)) /\ Len(L) = Len(list)
      /\ \A i \in 1 .. Len(list) : L[i].person = list[i].person
  BY ChangedRows
<1>. HIDE DEF L
<1>2. DOMAIN L = 1 .. Len(list) /\ DOMAIN list = 1 .. Len(list)
  BY <1>1
<1>3. IsRead(L, q) <=> IsRead(list, q)
  BY <1>1, <1>2 DEF IsRead, Readings
<1>. QED  BY <1>3 DEF L

\* A row makes readings of readings; whose, in the in and in the out list.
LEMMA AppliedReadings ==
    ASSUME NEW P, NEW S \in State(P), NEW e \in EventRow(P), ~Throws(S, e)
    PROVE  /\ Applied(S, e) \in State(P)
           /\ \A q : IsRead(Applied(S, e).in, q) <=>
                        \/ AddsIn(e) /\ e.person = q
                        \/ IsRead(S.in, q) /\ ~(RemovesIn(e) /\ e.person = q)
           /\ \A q : IsRead(Applied(S, e).out, q) <=>
                        \/ AddsOut(e) /\ e.person = q
                        \/ IsRead(S.out, q) /\ ~(RemovesOut(e) /\ e.person = q)
<1>. DEFINE T == Seq(Reading(P))
<1>1. S.in \in T /\ S.out \in T
  BY DEF State
<1>2. NewReading(e) \in Reading(P) /\ NewReading(e).person = e.person
  BY DEF NewReading, EventRow, Reading
<1>. HIDE DEF T
<1>3. /\ Applied(S, e).in \in T
      /\ \A q : IsRead(Applied(S, e).in, q) <=>
                   \/ AddsIn(e) /\ e.person = q
                   \/ IsRead(S.in, q) /\ ~(RemovesIn(e) /\ e.person = q)
  <2>1. CASE AddsIn(e)
    <3>1. ~RemovesIn(e) /\ ~ChangesIn(e)
      BY <2>1 DEF AddsIn, RemovesIn, ChangesIn
    <3>2. Applied(S, e).in = Append(S.in, NewReading(e))
      BY <2>1, <3>1 DEF Applied
    <3>. QED  BY <1>1, <1>2, <2>1, <3>1, <3>2, AppendedIsRead DEF T
  <2>2. CASE RemovesIn(e)
    <3>1. ~AddsIn(e) /\ ~ChangesIn(e)
      BY <2>2 DEF AddsIn, RemovesIn, ChangesIn
    <3>2. Applied(S, e).in = Removed(S.in, e.person)
      BY <2>2, <3>1 DEF Applied
    <3>. QED  BY <1>1, <2>2, <3>1, <3>2, RemovedPicks, RemovedIsRead DEF T
  <2>3. CASE ChangesIn(e)
    <3>1. ~AddsIn(e) /\ ~RemovesIn(e)
      BY <2>3 DEF AddsIn, RemovesIn, ChangesIn
    <3>2. Applied(S, e).in = Changed(S.in, e)
      BY <2>3, <3>1 DEF Applied
    <3>3. IsRead(S.in, e.person)
      BY <2>3 DEF Throws
    <3>. QED  BY <1>1, <3>1, <3>2, <3>3, ChangedRows, ChangedIsRead DEF T
  <2>4. CASE ~AddsIn(e) /\ ~RemovesIn(e) /\ ~ChangesIn(e)
    BY <1>1, <2>4 DEF Applied
  <2>. QED  BY <2>1, <2>2, <2>3, <2>4
<1>4. /\ Applied(S, e).out \in T
      /\ \A q : IsRead(Applied(S, e).out, q) <=>
                   \/ AddsOut(e) /\ e.person = q
                   \/ IsRead(S.out, q) /\ ~(RemovesOut(e) /\ e.person = q)
  <2>1. CASE AddsOut(e)
    <3>1. ~RemovesOut(e) /\ ~ChangesOut(e)
      BY <2>1 DEF AddsOut, RemovesOut, ChangesOut
    <3>2. Applied(S, e).out = Append(S.out, NewReading(e))
      BY <2>1, <3>1 DEF Applied
    <3>. QED  BY <1>1, <1>2, <2>1, <3>1, <3>2, AppendedIsRead DEF T
  <2>2. CASE RemovesOut(e)
    <3>1. ~AddsOut(e) /\ ~ChangesOut(e)
      BY <2>2 DEF AddsOut, RemovesOut, ChangesOut
    <3>2. Applied(S, e).out = Removed(S.out, e.person)
      BY <2>2, <3>1 DEF Applied
    <3>. QED  BY <1>1, <2>2, <3>1, <3>2, RemovedPicks, RemovedIsRead DEF T
  <2>3. CASE ChangesOut(e)
    <3>1. ~AddsOut(e) /\ ~RemovesOut(e)
      BY <2>3 DEF AddsOut, RemovesOut, ChangesOut
    <3>2. Applied(S, e).out = Changed(S.out, e)
      BY <2>3, <3>1 DEF Applied
    <3>3. IsRead(S.out, e.person)
      BY <2>3 DEF Throws
    <3>. QED  BY <1>1, <3>1, <3>2, <3>3, ChangedRows, ChangedIsRead DEF T
  <2>4. CASE ~AddsOut(e) /\ ~RemovesOut(e) /\ ~ChangesOut(e)
    BY <1>1, <2>4 DEF Applied
  <2>. QED  BY <2>1, <2>2, <2>3, <2>4
<1>5. Applied(S, e) \in State(P)
  BY <1>3, <1>4 DEF State, T, Applied
<1>. QED  BY <1>3, <1>4, <1>5
-----------------------------------------------------------------------------
(* States: the replay of a checkpoint's rows.                              *)

\* What a replay is: it begins with no readings and applies row after row,
\* until one throws.
IsReplay(states, P, rows) ==
    /\ states \in Seq(State(P))
    /\ Len(states) \in 1 .. Len(rows) + 1
    /\ states[1] = Blank
    /\ \A i \in 1 .. Len(states) - 1 :
          ~Throws(states[i], rows[i]) /\ states[i + 1] = Applied(states[i], rows[i])
    /\ Len(states) <= Len(rows) => Throws(states[Len(states)], rows[Len(states)])

\* The replay of the first n rows, as one of its steps leaves it.
RepliesTo(states, P, rows, n) ==
    /\ states \in Seq(State(P))
    /\ Len(states) \in 1 .. n + 1
    /\ states[1] = Blank
    /\ \A i \in 1 .. Len(states) - 1 :
          ~Throws(states[i], rows[i]) /\ states[i + 1] = Applied(states[i], rows[i])
    /\ Len(states) <= n => Throws(states[Len(states)], rows[Len(states)])

\* The recursion that States is defined by.
ReplayedAfter(after, P, rows) ==
    /\ after \in [0 .. Len(rows) -> Seq(State(P))]
    /\ after[0] = <<Blank>>
    /\ \A n \in 1 .. Len(rows) :
          after[n] = IF Len(after[n - 1]) < n \/ Throws(after[n - 1][n], rows[n])
                     THEN after[n - 1]
                     ELSE Append(after[n - 1], Applied(after[n - 1][n], rows[n]))
    /\ States(rows) = after[Len(rows)]

\* The recursive function of States is one.
LEMMA StatesRecursion ==
    ASSUME NEW P, NEW rows \in Seq(EventRow(P))
    PROVE  \E after : ReplayedAfter(after, P, rows)
<1>. DEFINE N == Len(rows)
            T == Seq(State(P))
            K(n, x) == IF Len(x) < n \/ Throws(x[n], rows[n]) THEN x
                       ELSE Append(x, Applied(x[n], rows[n]))
            step == [n \in 1 .. N |-> [x \in T |-> K(n, x)]]
            Eq(f) == f = [n \in 0 .. N |->
                            IF n = 0 THEN <<Blank>>
                            ELSE LET before == f[n - 1]
                                 IN  IF Len(before) < n \/ Throws(before[n], rows[n]) THEN before
                                     ELSE Append(before, Applied(before[n], rows[n]))]
<1>1. N \in Nat /\ \A n \in 1 .. N : rows[n] \in EventRow(P)
  OBVIOUS
<1>2. \A n \in 1 .. N, x \in T : K(n, x) \in T
  <2>. SUFFICES ASSUME NEW n \in 1 .. N, NEW x \in T PROVE K(n, x) \in T
    OBVIOUS
  <2>1. CASE Len(x) < n \/ Throws(x[n], rows[n])
    BY <2>1
  <2>2. CASE ~(Len(x) < n \/ Throws(x[n], rows[n]))
    <3>1. x[n] \in State(P)
      BY <1>1, <2>2
    <3>2. Applied(x[n], rows[n]) \in State(P)
      BY <1>1, <2>2, <3>1, AppliedReadings
    <3>. QED  BY <2>2, <3>2
  <2>. QED  BY <2>1, <2>2
<1>3. <<Blank>> \in T
  <2>1. Blank \in State(P)
    BY DEF Blank, State
  <2>. QED  BY <2>1
<1>. HIDE DEF K, T
<1>4. step \in [1 .. N -> [T -> T]]
  BY <1>2
<1>5. PICK f : Recurs(f, N, T, <<Blank>>, step)
  <2>. HIDE DEF step, N
  <2>. QED  BY <1>1, <1>3, <1>4, Recursion
<1>6. \A n \in 1 .. N, x \in T : step[n][x] = K(n, x)
  OBVIOUS
<1>. HIDE DEF step
<1>7. Eq(f)
  <2>1. f \in [0 .. N -> T] /\ f[0] = <<Blank>>
    BY <1>5 DEF Recurs
  <2>2. ASSUME NEW n \in 1 .. N
        PROVE  f[n] = K(n, f[n - 1])
    <3>1. f[n] = step[n][f[n - 1]]
      BY <1>5 DEF Recurs
    <3>2. f[n - 1] \in T
      BY <1>1, <2>1
    <3>. QED  BY <1>6, <3>1, <3>2
  <2>3. \A n \in 0 .. N : n = 0 \/ n \in 1 .. N
    BY <1>1
  <2>. HIDE DEF N
  <2>4. \A n \in 0 .. N : f[n] = IF n = 0 THEN <<Blank>> ELSE K(n, f[n - 1])
    BY <2>1, <2>2, <2>3
  <2>. QED  BY <2>1, <2>4 DEF K
<1>. DEFINE after == CHOOSE g : Eq(g)
<1>8. Eq(after)
  <2>. HIDE DEF Eq
  <2>. QED  BY <1>7
<1>9. States(rows) = after[N]
  BY DEF States
<1>. HIDE DEF after
<1>10. /\ after[0] = <<Blank>>
       /\ \A n \in 1 .. N : after[n] = K(n, after[n - 1])
  <2>. HIDE DEF N
  <2>1. 0 \in 0 .. N /\ \A n \in 1 .. N : n \in 0 .. N /\ n # 0
    BY <1>1
  <2>. QED  BY <1>8, <2>1 DEF K
<1>11. \A n \in 0 .. N : after[n] \in T
  <2>. DEFINE S == {n \in 0 .. N : after[n] \in T}
  <2>. HIDE DEF N
  <2>1. 0 \in S
    <3>1. after[0] \in T
      BY <1>3, <1>10
    <3>2. 0 \in 0 .. N
      BY <1>1
    <3>. QED  BY <3>1, <3>2
  <2>2. ASSUME NEW n \in 0 .. N, n \in S, n < N
        PROVE  n + 1 \in S
    <3>1. n + 1 \in 1 .. N /\ (n + 1) - 1 = n /\ after[n] \in T
      BY <1>1, <2>2
    <3>2. after[n + 1] = K(n + 1, after[n])
      BY <1>10, <3>1
    <3>. QED  BY <1>2, <3>1, <3>2
  <2>. HIDE DEF S
  <2>3. \A n \in 0 .. N : n \in S
    BY <1>1, <2>1, <2>2, UpTo
  <2>. QED  BY <2>3 DEF S
<1>12. after \in [0 .. N -> T]
  BY <1>8, <1>11
<1>13. ReplayedAfter(after, P, rows)
  BY <1>9, <1>10, <1>12 DEF ReplayedAfter, K, T
<1>. QED  BY <1>13

\* States is a replay.
LEMMA StatesReplay ==
    ASSUME NEW P, NEW rows \in Seq(EventRow(P))
    PROVE  IsReplay(States(rows), P, rows)
<1>. DEFINE N == Len(rows)
<1>1. PICK after : ReplayedAfter(after, P, rows)
  BY StatesRecursion
<1>2. /\ after \in [0 .. N -> Seq(State(P))]
      /\ after[0] = <<Blank>>
      /\ \A n \in 1 .. N :
            after[n] = IF Len(after[n - 1]) < n \/ Throws(after[n - 1][n], rows[n])
                       THEN after[n - 1]
                       ELSE Append(after[n - 1], Applied(after[n - 1][n], rows[n]))
      /\ States(rows) = after[N]
  BY <1>1 DEF ReplayedAfter
<1>3. N \in Nat /\ \A n \in 1 .. N : rows[n] \in EventRow(P)
  OBVIOUS
<1>. HIDE DEF N
<1>. DEFINE S == {n \in 0 .. N : RepliesTo(after[n], P, rows, n)}
<1>4. 0 \in S
  <2>. DEFINE x == after[0]
  <2>1. 0 \in 0 .. N
    BY <1>3
  <2>2. x \in Seq(State(P))
    BY <1>2, <2>1
  <2>3. x = <<Blank>>
    BY <1>2
  <2>. HIDE DEF x
  <2>4. RepliesTo(x, P, rows, 0)
    BY <2>2, <2>3 DEF RepliesTo
  <2>. QED  BY <2>1, <2>4 DEF x
<1>5. ASSUME NEW n \in 0 .. N, n \in S, n < N
      PROVE  n + 1 \in S
  <2>. DEFINE x == after[n]
              y == after[n + 1]
              s == Applied(x[n + 1], rows[n + 1])
  <2>1. n + 1 \in 1 .. N /\ (n + 1) - 1 = n /\ n \in Nat
    BY <1>3, <1>5
  <2>2. /\ x \in Seq(State(P))
        /\ Len(x) \in 1 .. n + 1
        /\ x[1] = Blank
        /\ \A i \in 1 .. Len(x) - 1 :
              ~Throws(x[i], rows[i]) /\ x[i + 1] = Applied(x[i], rows[i])
        /\ Len(x) <= n => Throws(x[Len(x)], rows[Len(x)])
    BY <1>5 DEF RepliesTo
  <2>3. y = IF Len(x) < n + 1 \/ Throws(x[n + 1], rows[n + 1])
            THEN x ELSE Append(x, s)
    BY <1>2, <2>1
  <2>. HIDE DEF x, y
  <2>4. CASE Len(x) < n + 1 \/ Throws(x[n + 1], rows[n + 1])
    <3>1. y = x
      BY <2>3, <2>4
    <3>2. Len(x) <= n + 1 => Throws(x[Len(x)], rows[Len(x)])
      BY <2>1, <2>2, <2>4
    <3>3. RepliesTo(y, P, rows, n + 1)
      BY <2>1, <2>2, <3>1, <3>2 DEF RepliesTo
    <3>. QED  BY <2>1, <3>3 DEF y
  <2>5. CASE ~(Len(x) < n + 1 \/ Throws(x[n + 1], rows[n + 1]))
    <3>1. Len(x) = n + 1 /\ ~Throws(x[n + 1], rows[n + 1])
      BY <2>1, <2>2, <2>5
    <3>2. x[n + 1] \in State(P) /\ rows[n + 1] \in EventRow(P)
      BY <1>3, <2>1, <2>2, <3>1
    <3>3. s \in State(P)
      BY <3>1, <3>2, AppliedReadings
    <3>. HIDE DEF s
    <3>4. /\ y \in Seq(State(P)) /\ Len(y) = n + 2 /\ y[n + 2] = s
          /\ \A i \in 1 .. n + 1 : y[i] = x[i]
      BY <2>1, <2>2, <2>3, <2>5, <3>1, <3>3
    <3>5. ASSUME NEW i \in 1 .. Len(y) - 1
          PROVE  ~Throws(y[i], rows[i]) /\ y[i + 1] = Applied(y[i], rows[i])
      <4>1. CASE i = n + 1
        BY <2>1, <3>1, <3>4, <4>1 DEF s
      <4>2. CASE i \in 1 .. n
        BY <2>1, <2>2, <3>1, <3>4, <4>2
      <4>. QED  BY <2>1, <3>4, <4>1, <4>2
    <3>6. RepliesTo(y, P, rows, n + 1)
      BY <2>1, <2>2, <3>4, <3>5 DEF RepliesTo
    <3>. QED  BY <2>1, <3>6 DEF y
  <2>. QED  BY <2>4, <2>5
<1>6. N \in S
  <2>. HIDE DEF S
  <2>1. \A n \in 0 .. N : n \in S
    BY <1>3, <1>4, <1>5, UpTo
  <2>. QED  BY <1>3, <2>1
<1>. QED  BY <1>2, <1>6 DEF RepliesTo, IsReplay, N

\* q comes in, or goes out, by one of the first n rows, and no row after that
\* one and among them takes this back.
InBy(rows, n, q) ==
    \E i \in 1 .. n :
        /\ AddsIn(rows[i]) /\ rows[i].person = q
        /\ \A j \in i + 1 .. n : ~(RemovesIn(rows[j]) /\ rows[j].person = q)

OutBy(rows, n, q) ==
    \E i \in 1 .. n :
        /\ AddsOut(rows[i]) /\ rows[i].person = q
        /\ \A j \in i + 1 .. n : ~(RemovesOut(rows[j]) /\ rows[j].person = q)

\* One row more.
LEMMA InOutByStep ==
    ASSUME NEW P, NEW rows \in Seq(EventRow(P)), NEW n \in Nat, n + 1 <= Len(rows), NEW q
    PROVE  /\ InBy(rows, n + 1, q) <=>
                 \/ AddsIn(rows[n + 1]) /\ rows[n + 1].person = q
                 \/ InBy(rows, n, q) /\ ~(RemovesIn(rows[n + 1]) /\ rows[n + 1].person = q)
           /\ OutBy(rows, n + 1, q) <=>
                 \/ AddsOut(rows[n + 1]) /\ rows[n + 1].person = q
                 \/ OutBy(rows, n, q) /\ ~(RemovesOut(rows[n + 1]) /\ rows[n + 1].person = q)
<1>. DEFINE AI(i) == AddsIn(rows[i]) /\ rows[i].person = q
            RI(i) == RemovesIn(rows[i]) /\ rows[i].person = q
            AO(i) == AddsOut(rows[i]) /\ rows[i].person = q
            RO(i) == RemovesOut(rows[i]) /\ rows[i].person = q
            I(m) == \E i \in 1 .. m : AI(i) /\ \A j \in i + 1 .. m : ~RI(j)
            O(m) == \E i \in 1 .. m : AO(i) /\ \A j \in i + 1 .. m : ~RO(j)
<1>1. I(n + 1) <=> AI(n + 1) \/ (I(n) /\ ~RI(n + 1))
  <2>. HIDE DEF AI, RI
  <2>1. ASSUME AI(n + 1) PROVE I(n + 1)
    <3>1. n + 1 \in 1 .. n + 1 /\ \A j \in (n + 1) + 1 .. n + 1 : ~RI(j)
      OBVIOUS
    <3>. QED  BY <2>1, <3>1
  <2>2. ASSUME I(n), ~RI(n + 1) PROVE I(n + 1)
    <3>1. PICK i \in 1 .. n : AI(i) /\ \A j \in i + 1 .. n : ~RI(j)
      BY <2>2
    <3>2. \A j \in i + 1 .. n + 1 : ~RI(j)
      BY <2>2, <3>1
    <3>. QED  BY <3>1, <3>2
  <2>3. ASSUME I(n + 1), ~AI(n + 1) PROVE I(n) /\ ~RI(n + 1)
    <3>1. PICK i \in 1 .. n + 1 : AI(i) /\ \A j \in i + 1 .. n + 1 : ~RI(j)
      BY <2>3
    <3>2. i \in 1 .. n
      BY <2>3, <3>1
    <3>. QED  BY <3>1, <3>2
  <2>. QED  BY <2>1, <2>2, <2>3
<1>2. O(n + 1) <=> AO(n + 1) \/ (O(n) /\ ~RO(n + 1))
  <2>. HIDE DEF AO, RO
  <2>1. ASSUME AO(n + 1) PROVE O(n + 1)
    <3>1. n + 1 \in 1 .. n + 1 /\ \A j \in (n + 1) + 1 .. n + 1 : ~RO(j)
      OBVIOUS
    <3>. QED  BY <2>1, <3>1
  <2>2. ASSUME O(n), ~RO(n + 1) PROVE O(n + 1)
    <3>1. PICK i \in 1 .. n : AO(i) /\ \A j \in i + 1 .. n : ~RO(j)
      BY <2>2
    <3>2. \A j \in i + 1 .. n + 1 : ~RO(j)
      BY <2>2, <3>1
    <3>. QED  BY <3>1, <3>2
  <2>3. ASSUME O(n + 1), ~AO(n + 1) PROVE O(n) /\ ~RO(n + 1)
    <3>1. PICK i \in 1 .. n + 1 : AO(i) /\ \A j \in i + 1 .. n + 1 : ~RO(j)
      BY <2>3
    <3>2. i \in 1 .. n
      BY <2>3, <3>1
    <3>. QED  BY <3>1, <3>2
  <2>. QED  BY <2>1, <2>2, <2>3
<1>. QED  BY <1>1, <1>2 DEF InBy, OutBy

\* Who has a reading in and out in the states of a replay.
LEMMA ReplayedReadings ==
    ASSUME NEW P, NEW rows \in Seq(EventRow(P)),
           NEW states, IsReplay(states, P, rows)
    PROVE  \A n \in 1 .. Len(states) : \A q :
              /\ IsRead(states[n].in, q) <=> InBy(rows, n - 1, q)
              /\ IsRead(states[n].out, q) <=> OutBy(rows, n - 1, q)
<1>. DEFINE L == Len(states)
            Fact(n) == \A q : /\ IsRead(states[n].in, q) <=> InBy(rows, n - 1, q)
                              /\ IsRead(states[n].out, q) <=> OutBy(rows, n - 1, q)
            S == {n \in 0 .. L - 1 : Fact(n + 1)}
<1>1. /\ states \in Seq(State(P)) /\ L \in Nat \ {0} /\ L <= Len(rows) + 1
      /\ states[1] = Blank
      /\ \A i \in 1 .. L - 1 :
            ~Throws(states[i], rows[i]) /\ states[i + 1] = Applied(states[i], rows[i])
  BY DEF IsReplay
<1>2. \A i \in 1 .. L : states[i] \in State(P)
  BY <1>1
<1>. HIDE DEF L
<1>3. 0 \in S
  <2>1. \A q : ~IsRead(Blank.in, q) /\ ~IsRead(Blank.out, q)
    BY DEF Blank, IsRead, Readings
  <2>2. \A q : ~InBy(rows, 0, q) /\ ~OutBy(rows, 0, q)
    BY DEF InBy, OutBy
  <2>3. Fact(1)
    BY <1>1, <2>1, <2>2
  <2>. QED  BY <1>1, <2>3
<1>4. ASSUME NEW n \in 0 .. L - 1, n \in S, n < L - 1
      PROVE  n + 1 \in S
  <2>1. n \in Nat /\ n + 1 \in 1 .. L - 1 /\ n + 1 \in 1 .. L /\ n + 1 <= Len(rows)
        /\ (n + 1) + 1 \in 1 .. L /\ (n + 1) - 1 = n /\ ((n + 1) + 1) - 1 = n + 1
        /\ n + 1 \in 0 .. L - 1
    BY <1>1, <1>4
  <2>. DEFINE e == rows[n + 1]
              s == states[n + 1]
  <2>2. /\ s \in State(P) /\ e \in EventRow(P) /\ ~Throws(s, e)
        /\ states[(n + 1) + 1] = Applied(s, e)
    BY <1>1, <1>2, <2>1
  <2>3. Fact(n + 1)
    BY <1>4
  <2>. HIDE DEF s
  <2>4. \A q : /\ IsRead(s.in, q) <=> InBy(rows, n, q)
               /\ IsRead(s.out, q) <=> OutBy(rows, n, q)
    BY <2>1, <2>3 DEF s
  <2>. HIDE DEF e
  <2>5. /\ \A q : IsRead(Applied(s, e).in, q) <=>
                     \/ AddsIn(e) /\ e.person = q
                     \/ IsRead(s.in, q) /\ ~(RemovesIn(e) /\ e.person = q)
        /\ \A q : IsRead(Applied(s, e).out, q) <=>
                     \/ AddsOut(e) /\ e.person = q
                     \/ IsRead(s.out, q) /\ ~(RemovesOut(e) /\ e.person = q)
    BY <2>2, AppliedReadings
  <2>6. \A q : /\ InBy(rows, n + 1, q) <=>
                     \/ AddsIn(e) /\ e.person = q
                     \/ InBy(rows, n, q) /\ ~(RemovesIn(e) /\ e.person = q)
               /\ OutBy(rows, n + 1, q) <=>
                     \/ AddsOut(e) /\ e.person = q
                     \/ OutBy(rows, n, q) /\ ~(RemovesOut(e) /\ e.person = q)
    BY <2>1, InOutByStep DEF e
  <2>7. Fact((n + 1) + 1)
    BY <2>1, <2>2, <2>4, <2>5, <2>6
  <2>. HIDE DEF Fact
  <2>. QED  BY <2>1, <2>7
<1>5. ASSUME NEW n \in 1 .. L PROVE Fact(n)
  <2>. HIDE DEF S, Fact
  <2>1. \A i \in 0 .. L - 1 : i \in S
    <3>1. L - 1 \in Nat
      BY <1>1
    <3>. QED  BY <1>3, <1>4, <3>1, UpTo
  <2>2. n - 1 \in S /\ (n - 1) + 1 = n
    BY <1>1, <2>1
  <2>. QED  BY <2>2 DEF S
<1>. QED  BY <1>5 DEF L

\* A reading comes from a row of the person.
LEMMA ReplayedReadingsAreRows ==
    ASSUME NEW P, NEW rows \in Seq(EventRow(P)), NEW q
    PROVE  LET states == States(rows)
               S == states[Len(states)]
           IN  /\ S \in State(P)
               /\ IsRead(S.in, q) =>
                     \E i \in 1 .. Len(rows) : AddsIn(rows[i]) /\ rows[i].person = q
               /\ IsRead(S.out, q) =>
                     \E i \in 1 .. Len(rows) : AddsOut(rows[i]) /\ rows[i].person = q
<1>. DEFINE states == States(rows)
            n == Len(states)
<1>1. IsReplay(states, P, rows)
  BY StatesReplay
<1>. HIDE DEF states
<1>2. states \in Seq(State(P)) /\ n \in Nat \ {0} /\ n <= Len(rows) + 1 /\ n \in 1 .. n
  BY <1>1 DEF IsReplay
<1>3. /\ IsRead(states[n].in, q) <=> InBy(rows, n - 1, q)
      /\ IsRead(states[n].out, q) <=> OutBy(rows, n - 1, q)
  BY <1>1, <1>2, ReplayedReadings
<1>4. states[n] \in State(P)
  BY <1>2
<1>. QED  BY <1>2, <1>3, <1>4 DEF InBy, OutBy, states

-----------------------------------------------------------------------------
(* Stored: where a row takes its place.                                    *)

\* OrderBy(EventTimestamp).
Sorted(rows) ==
    \A i, j \in 1 .. Len(rows) : i <= j => rows[i].at <= rows[j].at

\* new is rows with e in it, behind the first k.
InsertedAt(k, new, P, rows, e) ==
    /\ k \in 0 .. Len(rows)
    /\ new \in Seq(EventRow(P))
    /\ Len(new) = Len(rows) + 1
    /\ \A i \in 1 .. k : new[i] = rows[i] /\ rows[i].at <= e.at
    /\ new[k + 1] = e
    /\ \A i \in k + 1 .. Len(rows) : new[i + 1] = rows[i] /\ rows[i].at > e.at

\* Stored finds the place, and puts the row there.
LEMMA StoredInserts ==
    ASSUME NEW P, NEW rows \in Seq(EventRow(P)), NEW e \in EventRow(P), Sorted(rows)
    PROVE  \E k : InsertedAt(k, Stored(rows, e), P, rows, e)
<1>. DEFINE N == Len(rows)
            Place(k) == \A i \in 1 .. N : i <= k <=> rows[i].at <= e.at
            k == CHOOSE k \in 0 .. N : Place(k)
            new == Stored(rows, e)
<1>1. N \in Nat /\ e.at \in Nat /\ \A i \in 1 .. N : rows[i].at \in Nat
  <2>1. \A i \in 1 .. N : rows[i] \in EventRow(P)
    OBVIOUS
  <2>. QED  BY <2>1 DEF EventRow
<1>2. \E i \in 0 .. N : Place(i)
  <2>. DEFINE M == {i \in 1 .. N + 1 : i = N + 1 \/ rows[i].at > e.at}
  <2>1. M \in SUBSET Nat /\ N + 1 \in M
    BY <1>1
  <2>. HIDE DEF M
  <2>2. PICK m \in M : \A i \in M : m <= i
    BY <2>1, NatMin
  <2>. HIDE DEF N
  <2>3. m \in 1 .. N + 1 /\ m - 1 \in 0 .. N
    BY <1>1, <2>2 DEF M
  <2>4. ASSUME NEW i \in 1 .. N
        PROVE  i <= m - 1 <=> rows[i].at <= e.at
    <3>1. ASSUME i <= m - 1 PROVE rows[i].at <= e.at
      <4>1. i \notin M
        BY <1>1, <2>2, <2>3, <3>1
      <4>2. i \in 1 .. N + 1 /\ ~(rows[i].at > e.at)
        BY <1>1, <4>1 DEF M
      <4>. QED  BY <1>1, <4>2
    <3>2. ASSUME ~(i <= m - 1) PROVE ~(rows[i].at <= e.at)
      <4>1. m <= i /\ m # N + 1 /\ m \in 1 .. N
        BY <1>1, <2>3, <3>2
      <4>2. rows[m].at > e.at
        BY <2>2, <4>1 DEF M
      <4>3. rows[m].at <= rows[i].at
        BY <4>1 DEF Sorted, N
      <4>. QED  BY <1>1, <4>1, <4>2, <4>3
    <3>. QED  BY <3>1, <3>2
  <2>. QED  BY <2>3, <2>4
<1>3. k \in 0 .. N /\ Place(k)
  <2>. HIDE DEF Place, N
  <2>. QED  BY <1>2
<1>4. new = SubSeq(rows, 1, k) \o <<e>> \o SubSeq(rows, k + 1, N)
  BY DEF Stored
<1>. HIDE DEF k
<1>5. new = SubSeq(rows, 1, k) \o <<e>> \o SubSeq(rows, k + 1, N)
  BY <1>4
<1>. HIDE DEF new
<1>6. InsertedAt(k, new, P, rows, e)
  <2>. DEFINE a == SubSeq(rows, 1, k)
              b == SubSeq(rows, k + 1, N)
  <2>1. /\ a \in Seq(EventRow(P)) /\ Len(a) = k /\ \A i \in 1 .. k : a[i] = rows[i]
    BY <1>1, <1>3
  <2>2. /\ b \in Seq(EventRow(P)) /\ Len(b) = N - k
        /\ \A i \in 1 .. N - k : b[i] = rows[k + i]
    BY <1>1, <1>3
  <2>. HIDE DEF a, b
  <2>3. new = a \o <<e>> \o b
    BY <1>5 DEF a, b
  <2>. HIDE DEF N, Place
  <2>4. k \in Nat /\ k <= N /\ N - k \in Nat
    BY <1>1, <1>3
  <2>5. /\ new \in Seq(EventRow(P)) /\ Len(new) = N + 1
        /\ \A i \in 1 .. k : new[i] = a[i]
        /\ new[k + 1] = e
        /\ \A i \in 1 .. N - k : new[k + 1 + i] = b[i]
    <3>. DEFINE c == a \o <<e>>
    <3>1. /\ c \in Seq(EventRow(P)) /\ Len(c) = k + 1
          /\ \A i \in 1 .. k : c[i] = a[i]
          /\ c[k + 1] = e
      BY <2>1, <2>4
    <3>. HIDE DEF c
    <3>. DEFINE d == c \o b
    <3>2. /\ d \in Seq(EventRow(P)) /\ Len(d) = (k + 1) + (N - k)
          /\ \A i \in 1 .. (k + 1) + (N - k) :
                d[i] = IF i <= k + 1 THEN c[i] ELSE b[i - (k + 1)]
      <4>1. /\ d \in Seq(EventRow(P)) /\ Len(d) = Len(c) + Len(b)
            /\ \A i \in 1 .. Len(c) + Len(b) :
                  d[i] = IF i <= Len(c) THEN c[i] ELSE b[i - Len(c)]
        <5>. HIDE DEF d
        <5>1. b \in Seq(EventRow(P)) /\ c \in Seq(EventRow(P))
          BY <2>2, <3>1
        <5>. QED  BY <5>1, ConcatProperties DEF d
      <4>2. Len(c) = k + 1 /\ Len(b) = N - k
        BY <2>2, <3>1
      <4>. HIDE DEF d
      <4>. QED  BY <4>1, <4>2
    <3>3. new = d
      BY <2>3 DEF c
    <3>. HIDE DEF d
    <3>4. Len(d) = N + 1
      BY <1>1, <2>4, <3>2
    <3>5. \A i \in 1 .. k + 1 : d[i] = c[i]
      BY <1>1, <2>4, <3>2
    <3>6. \A i \in 1 .. N - k : d[k + 1 + i] = b[i]
      BY <1>1, <2>4, <3>2
    <3>7. \A i \in 1 .. k : d[i] = a[i]
      BY <2>4, <3>1, <3>5
    <3>8. d[k + 1] = e
      BY <2>4, <3>1, <3>5
    <3>. QED  BY <3>2, <3>3, <3>4, <3>6, <3>7, <3>8
  <2>6. \A i \in k + 1 .. N : new[i + 1] = rows[i]
    <3>. TAKE i \in k + 1 .. N
    <3>1. i - k \in 1 .. N - k /\ k + 1 + (i - k) = i + 1 /\ k + (i - k) = i
      BY <1>1, <2>4
    <3>. QED  BY <2>2, <2>5, <3>1
  <2>7. \A i \in k + 1 .. N : rows[i].at > e.at
    BY <1>1, <1>3, <2>4 DEF Place
  <2>8. \A i \in 1 .. k : rows[i].at <= e.at
    BY <1>1, <1>3, <2>4 DEF Place
  <2>. QED  BY <1>3, <2>1, <2>5, <2>6, <2>7, <2>8 DEF InsertedAt, N
<1>. QED  BY <1>6 DEF new

\* e is one of the rows.
HasRow(rows, e) == \E i \in 1 .. Len(rows) : rows[i] = e

\* The order stays, and e is the one row more.
LEMMA StoredRows ==
    ASSUME NEW P, NEW rows \in Seq(EventRow(P)), NEW e \in EventRow(P), Sorted(rows)
    PROVE  /\ Stored(rows, e) \in Seq(EventRow(P))
           /\ Len(Stored(rows, e)) = Len(rows) + 1
           /\ Sorted(Stored(rows, e))
           /\ \A f : HasRow(Stored(rows, e), f) <=> f = e \/ HasRow(rows, f)
<1>. DEFINE N == Len(rows)
            new == Stored(rows, e)
<1>1. PICK k : InsertedAt(k, new, P, rows, e)
  BY StoredInserts
<1>. HIDE DEF new
<1>2. /\ k \in 0 .. N
      /\ new \in Seq(EventRow(P))
      /\ Len(new) = N + 1
      /\ \A i \in 1 .. k : new[i] = rows[i] /\ rows[i].at <= e.at
      /\ new[k + 1] = e
      /\ \A i \in k + 1 .. N : new[i + 1] = rows[i] /\ rows[i].at > e.at
  BY <1>1 DEF InsertedAt
<1>3. N \in Nat /\ k \in Nat /\ k <= N
  BY <1>2
<1>4. e.at \in Nat /\ \A i \in 1 .. N : rows[i].at \in Nat
  <2>1. \A i \in 1 .. N : rows[i] \in EventRow(P)
    OBVIOUS
  <2>. QED  BY <2>1 DEF EventRow
<1>5. \A i, j \in 1 .. N : i <= j => rows[i].at <= rows[j].at
  BY DEF Sorted
<1>. HIDE DEF N
<1>6. \A i \in 1 .. N + 1 : \/ i \in 1 .. k
                            \/ i = k + 1
                            \/ i - 1 \in k + 1 .. N /\ (i - 1) + 1 = i
  BY <1>3
<1>7. Sorted(new)
  <2>. SUFFICES ASSUME NEW i \in 1 .. N + 1, NEW j \in 1 .. N + 1, i <= j
                PROVE  new[i].at <= new[j].at
    BY <1>2 DEF Sorted
  <2>1. CASE i \in 1 .. k
    <3>1. new[i].at = rows[i].at /\ rows[i].at <= e.at /\ i \in 1 .. N
      BY <1>2, <1>3, <2>1
    <3>2. CASE j \in 1 .. k
      BY <1>2, <1>3, <1>5, <2>1, <3>1, <3>2
    <3>3. CASE j = k + 1
      BY <1>2, <3>1, <3>3
    <3>4. CASE j - 1 \in k + 1 .. N /\ (j - 1) + 1 = j
      <4>1. new[j] = rows[j - 1] /\ rows[j - 1].at > e.at /\ j - 1 \in 1 .. N
        BY <1>2, <1>3, <3>4
      <4>. QED  BY <1>4, <3>1, <4>1
    <3>. QED  BY <1>6, <3>2, <3>3, <3>4
  <2>2. CASE i = k + 1
    <3>1. CASE j = k + 1
      BY <1>2, <1>4, <2>2, <3>1
    <3>2. CASE j - 1 \in k + 1 .. N /\ (j - 1) + 1 = j
      <4>1. new[j] = rows[j - 1] /\ rows[j - 1].at > e.at /\ j - 1 \in 1 .. N
        BY <1>2, <1>3, <3>2
      <4>. QED  BY <1>2, <1>4, <2>2, <4>1
    <3>. QED  BY <1>3, <1>6, <2>2, <3>1, <3>2
  <2>3. CASE i - 1 \in k + 1 .. N /\ (i - 1) + 1 = i
    <3>1. j - 1 \in k + 1 .. N /\ (j - 1) + 1 = j
      BY <1>3, <1>6, <2>3
    <3>2. /\ new[i] = rows[i - 1] /\ new[j] = rows[j - 1]
          /\ i - 1 \in 1 .. N /\ j - 1 \in 1 .. N /\ i - 1 <= j - 1
      BY <1>2, <1>3, <2>3, <3>1
    <3>. QED  BY <1>5, <3>2
  <2>. QED  BY <1>6, <2>1, <2>2, <2>3
<1>8. ASSUME NEW f
      PROVE  HasRow(new, f) <=> f = e \/ HasRow(rows, f)
  <2>1. ASSUME NEW i \in 1 .. N + 1, new[i] = f, f # e
        PROVE  \E j \in 1 .. N : rows[j] = f
    <3>1. CASE i \in 1 .. k
      BY <1>2, <1>3, <2>1, <3>1
    <3>2. CASE i = k + 1
      BY <1>2, <2>1, <3>2
    <3>3. CASE i - 1 \in k + 1 .. N /\ (i - 1) + 1 = i
      <4>1. new[i] = rows[i - 1] /\ i - 1 \in 1 .. N
        BY <1>2, <1>3, <3>3
      <4>. QED  BY <2>1, <4>1
    <3>. QED  BY <1>6, <3>1, <3>2, <3>3
  <2>2. ASSUME NEW j \in 1 .. N, rows[j] = f
        PROVE  \E i \in 1 .. N + 1 : new[i] = f
    <3>1. CASE j \in 1 .. k
      BY <1>2, <1>3, <2>2, <3>1
    <3>2. CASE j \in k + 1 .. N
      BY <1>2, <1>3, <2>2, <3>2
    <3>. QED  BY <1>3, <3>1, <3>2
  <2>3. k + 1 \in 1 .. N + 1 /\ new[k + 1] = e
    BY <1>2, <1>3
  <2>. QED  BY <1>2, <2>1, <2>2, <2>3 DEF HasRow, N
<1>. QED  BY <1>2, <1>7, <1>8 DEF new, N

SortedRows(P) == {rows \in Seq(EventRow(P)) : Sorted(rows)}

\* The recursion that AllStored is defined by.
StoredAfter(stored, P, rows, events) ==
    /\ stored \in [0 .. Len(events) -> SortedRows(P)]
    /\ stored[0] = rows
    /\ \A n \in 1 .. Len(events) :
          stored[n] = IF ChangesNothing(events[n]) THEN stored[n - 1]
                      ELSE Stored(stored[n - 1], events[n])
    /\ AllStored(rows, events) = stored[Len(events)]

\* The recursive function of AllStored is one.
LEMMA AllStoredRecursion ==
    ASSUME NEW P, NEW rows \in SortedRows(P), NEW events \in Seq(EventRow(P))
    PROVE  \E stored : StoredAfter(stored, P, rows, events)
<1>. DEFINE N == Len(events)
            T == SortedRows(P)
            K(n, x) == IF ChangesNothing(events[n]) THEN x ELSE Stored(x, events[n])
            step == [n \in 1 .. N |-> [x \in T |-> K(n, x)]]
            Eq(f) == f = [n \in 0 .. N |->
                            IF n = 0 THEN rows
                            ELSE IF ChangesNothing(events[n]) THEN f[n - 1]
                                 ELSE Stored(f[n - 1], events[n])]
<1>1. N \in Nat /\ \A n \in 1 .. N : events[n] \in EventRow(P)
  OBVIOUS
<1>2. \A n \in 1 .. N, x \in T : K(n, x) \in T
  <2>. SUFFICES ASSUME NEW n \in 1 .. N, NEW x \in T PROVE K(n, x) \in T
    OBVIOUS
  <2>1. events[n] \in EventRow(P) /\ x \in Seq(EventRow(P)) /\ Sorted(x)
    BY <1>1 DEF SortedRows
  <2>2. Stored(x, events[n]) \in T
    BY <2>1, StoredRows DEF SortedRows
  <2>. QED  BY <2>2
<1>. HIDE DEF K, T
<1>3. rows \in T
  BY DEF T
<1>4. step \in [1 .. N -> [T -> T]]
  BY <1>2
<1>5. PICK f : Recurs(f, N, T, rows, step)
  <2>. HIDE DEF step, N
  <2>. QED  BY <1>1, <1>3, <1>4, Recursion
<1>6. \A n \in 1 .. N, x \in T : step[n][x] = K(n, x)
  OBVIOUS
<1>. HIDE DEF step
<1>7. Eq(f)
  <2>1. f \in [0 .. N -> T] /\ f[0] = rows
    BY <1>5 DEF Recurs
  <2>2. ASSUME NEW n \in 1 .. N
        PROVE  f[n] = K(n, f[n - 1])
    <3>1. f[n] = step[n][f[n - 1]]
      BY <1>5 DEF Recurs
    <3>2. f[n - 1] \in T
      BY <1>1, <2>1
    <3>. QED  BY <1>6, <3>1, <3>2
  <2>3. \A n \in 0 .. N : n = 0 \/ n \in 1 .. N
    BY <1>1
  <2>. HIDE DEF N
  <2>4. \A n \in 0 .. N : f[n] = IF n = 0 THEN rows ELSE K(n, f[n - 1])
    BY <2>1, <2>2, <2>3
  <2>. QED  BY <2>1, <2>4 DEF K
<1>. DEFINE stored == CHOOSE g : Eq(g)
<1>8. Eq(stored)
  <2>. HIDE DEF Eq
  <2>. QED  BY <1>7
<1>9. AllStored(rows, events) = stored[N]
  BY DEF AllStored
<1>. HIDE DEF stored
<1>10. /\ stored[0] = rows
       /\ \A n \in 1 .. N : stored[n] = K(n, stored[n - 1])
  <2>. HIDE DEF N
  <2>1. 0 \in 0 .. N /\ \A n \in 1 .. N : n \in 0 .. N /\ n # 0
    BY <1>1
  <2>. QED  BY <1>8, <2>1 DEF K
<1>11. \A n \in 0 .. N : stored[n] \in T
  <2>. DEFINE S == {n \in 0 .. N : stored[n] \in T}
  <2>. HIDE DEF N
  <2>1. 0 \in S
    BY <1>1, <1>3, <1>10
  <2>2. ASSUME NEW n \in 0 .. N, n \in S, n < N
        PROVE  n + 1 \in S
    <3>1. n + 1 \in 1 .. N /\ (n + 1) - 1 = n /\ stored[n] \in T
      BY <1>1, <2>2
    <3>2. stored[n + 1] = K(n + 1, stored[n])
      BY <1>10, <3>1
    <3>. QED  BY <1>2, <3>1, <3>2
  <2>. HIDE DEF S
  <2>3. \A n \in 0 .. N : n \in S
    BY <1>1, <2>1, <2>2, UpTo
  <2>. QED  BY <2>3 DEF S
<1>12. stored \in [0 .. N -> T]
  BY <1>8, <1>11
<1>13. StoredAfter(stored, P, rows, events)
  BY <1>9, <1>10, <1>12 DEF StoredAfter, K, T
<1>. QED  BY <1>13

\* The rows once the events have been stored: those there were, and the events
\* that a replay does something with.
LEMMA AllStoredRows ==
    ASSUME NEW P, NEW rows \in SortedRows(P), NEW events \in Seq(EventRow(P))
    PROVE  /\ AllStored(rows, events) \in SortedRows(P)
           /\ \A f : HasRow(AllStored(rows, events), f) <=>
                        HasRow(rows, f) \/ (HasRow(events, f) /\ ~ChangesNothing(f))
<1>. DEFINE N == Len(events)
<1>1. PICK stored : StoredAfter(stored, P, rows, events)
  BY AllStoredRecursion
<1>2. /\ stored \in [0 .. N -> SortedRows(P)]
      /\ stored[0] = rows
      /\ \A n \in 1 .. N :
            stored[n] = IF ChangesNothing(events[n]) THEN stored[n - 1]
                        ELSE Stored(stored[n - 1], events[n])
      /\ AllStored(rows, events) = stored[N]
  BY <1>1 DEF StoredAfter
<1>3. N \in Nat /\ \A n \in 1 .. N : events[n] \in EventRow(P)
  OBVIOUS
<1>. DEFINE Fact(n) == \A f : HasRow(stored[n], f) <=>
                                \/ HasRow(rows, f)
                                \/ \E i \in 1 .. n : events[i] = f /\ ~ChangesNothing(f)
            S == {n \in 0 .. N : Fact(n)}
<1>. HIDE DEF N
<1>4. 0 \in S
  BY <1>2, <1>3
<1>5. ASSUME NEW n \in 0 .. N, n \in S, n < N
      PROVE  n + 1 \in S
  <2>1. n \in Nat /\ n + 1 \in 1 .. N /\ n + 1 \in 0 .. N /\ (n + 1) - 1 = n
    BY <1>3, <1>5
  <2>. DEFINE x == stored[n]
              y == stored[n + 1]
              e == events[n + 1]
  <2>2. Fact(n)
    BY <1>5
  <2>3. x \in Seq(EventRow(P)) /\ Sorted(x) /\ e \in EventRow(P)
    BY <1>2, <1>3, <2>1 DEF SortedRows
  <2>4. y = IF ChangesNothing(e) THEN x ELSE Stored(x, e)
    BY <1>2, <2>1
  <2>5. \A f : HasRow(Stored(x, e), f) <=> f = e \/ HasRow(x, f)
    <3>. HIDE DEF x, e
    <3>. QED  BY <2>3, StoredRows
  <2>6. \A f : HasRow(y, f) <=> HasRow(x, f) \/ (f = e /\ ~ChangesNothing(f))
    <3>. HIDE DEF x, y, e
    <3>. QED  BY <2>4, <2>5
  <2>7. \A f : (\E i \in 1 .. n + 1 : events[i] = f /\ ~ChangesNothing(f)) <=>
                 \/ \E i \in 1 .. n : events[i] = f /\ ~ChangesNothing(f)
                 \/ f = e /\ ~ChangesNothing(f)
    <3>1. \A i : i \in 1 .. n + 1 <=> i \in 1 .. n \/ i = n + 1
      BY <2>1
    <3>. QED  BY <3>1
  <2>8. Fact(n + 1)
    <3>. HIDE DEF e
    <3>. QED  BY <2>2, <2>6, <2>7
  <2>. HIDE DEF Fact
  <2>. QED  BY <2>1, <2>8
<1>6. N \in S
  <2>. HIDE DEF S
  <2>1. \A n \in 0 .. N : n \in S
    BY <1>3, <1>4, <1>5, UpTo
  <2>. QED  BY <1>3, <2>1
<1>7. AllStored(rows, events) \in SortedRows(P)
  BY <1>2, <1>3
<1>. QED  BY <1>2, <1>6, <1>7 DEF HasRow, N

-----------------------------------------------------------------------------
(* The events of the operations.                                           *)

\* The rows of a concatenation are those of its parts.
LEMMA HasRowConcat ==
    ASSUME NEW T, NEW s \in Seq(T), NEW t \in Seq(T)
    PROVE  s \o t \in Seq(T) /\ \A f : HasRow(s \o t, f) <=> HasRow(s, f) \/ HasRow(t, f)
<1>. DEFINE c == s \o t
<1>1. /\ c \in Seq(T) /\ Len(c) = Len(s) + Len(t)
      /\ \A i \in 1 .. Len(s) + Len(t) : c[i] = IF i <= Len(s) THEN s[i] ELSE t[i - Len(s)]
  BY ConcatProperties
<1>2. Len(s) \in Nat /\ Len(t) \in Nat
  OBVIOUS
<1>. HIDE DEF c
<1>3. ASSUME NEW f PROVE HasRow(c, f) <=> HasRow(s, f) \/ HasRow(t, f)
  <2>1. ASSUME NEW i \in 1 .. Len(c), c[i] = f
        PROVE  HasRow(s, f) \/ HasRow(t, f)
    <3>1. CASE i <= Len(s)
      BY <1>1, <1>2, <2>1, <3>1 DEF HasRow
    <3>2. CASE ~(i <= Len(s))
      <4>1. i - Len(s) \in 1 .. Len(t) /\ t[i - Len(s)] = f
        BY <1>1, <1>2, <2>1, <3>2
      <4>. QED  BY <4>1 DEF HasRow
    <3>. QED  BY <3>1, <3>2
  <2>2. ASSUME NEW i \in 1 .. Len(s), s[i] = f
        PROVE  HasRow(c, f)
    <3>1. i \in 1 .. Len(c) /\ c[i] = f
      BY <1>1, <1>2, <2>2
    <3>. QED  BY <3>1 DEF HasRow
  <2>3. ASSUME NEW i \in 1 .. Len(t), t[i] = f
        PROVE  HasRow(c, f)
    <3>1. Len(s) + i \in 1 .. Len(c) /\ ~(Len(s) + i <= Len(s)) /\ (Len(s) + i) - Len(s) = i
      BY <1>1, <1>2
    <3>2. c[Len(s) + i] = f
      BY <1>1, <2>3, <3>1
    <3>. QED  BY <3>1, <3>2 DEF HasRow
  <2>. QED  BY <2>1, <2>2, <2>3 DEF HasRow
<1>. QED  BY <1>1, <1>3 DEF c

\* A list that has one row when cond holds, and none otherwise.
LEMMA HasRowIf ==
    ASSUME NEW T, NEW e \in T, NEW cond \in BOOLEAN, NEW s,
           s = IF cond THEN <<e>> ELSE <<>>
    PROVE  s \in Seq(T) /\ \A f : HasRow(s, f) <=> cond /\ f = e
<1>1. CASE cond
  <2>1. s = <<e>>
    BY <1>1
  <2>2. s \in Seq(T) /\ Len(s) = 1 /\ s[1] = e
    BY <2>1
  <2>. QED  BY <1>1, <2>2 DEF HasRow
<1>2. CASE ~cond
  <2>1. s = <<>>
    BY <1>2
  <2>2. s \in Seq(T) /\ Len(s) = 0
    BY <2>1
  <2>. QED  BY <1>2, <2>2 DEF HasRow
<1>. QED  BY <1>1, <1>2

\* The commands that operations take.
IsInfo(info, P) == info.person \in P /\ info.at \in Nat /\ info.time \in Nat

\* An event of a known type is a row.
LEMMA EventIsRow ==
    ASSUME NEW P, NEW info, IsInfo(info, P), NEW t \in EventType
    PROVE  Event(t, info) \in EventRow(P)
BY DEF IsInfo, Event, EventRow

\* What a scan is taken for.
LEMMA ScanEventIs ==
    ASSUME NEW type, NEW S, NEW info
    PROVE  LET scan == ScanEvent(type, S, info)
               read == IsRead(S.in, info.person)
           IN  \/ IsDouble(S, info) /\ scan = "AttendeeDoubleScan"
               \/ ~IsDouble(S, info) /\ read /\ scan = "AttendeeScanOutPreceedsScanIn"
               \/ ~IsDouble(S, info) /\ read /\ scan = "AttendeeScanOut"
               \/ ~read /\ type = "Passthrough" /\ scan = "AttendeePassthroughScan"
               \/ ~read /\ type = "Start" /\ scan = "AttendeeScanOut"
               \/ ~read /\ type \notin {"Passthrough", "Start"} /\ scan = "AttendeeScanIn"
<1>. DEFINE scan == ScanEvent(type, S, info)
            double == IsDouble(S, info)
            read == IsRead(S.in, info.person)
            other == CASE type = "Passthrough" -> "AttendeePassthroughScan"
                       [] type = "Start"       -> "AttendeeScanOut"
                       [] OTHER                -> "AttendeeScanIn"
            late == IF PrecedesIn(S, info) THEN "AttendeeScanOutPreceedsScanIn"
                                           ELSE "AttendeeScanOut"
<1>1. scan = CASE double -> "AttendeeDoubleScan"
               [] ~double /\ read -> late
               [] OTHER -> other
  BY DEF ScanEvent
<1>2. late = "AttendeeScanOutPreceedsScanIn" \/ late = "AttendeeScanOut"
  OBVIOUS
<1>3. \/ type = "Passthrough" /\ other = "AttendeePassthroughScan"
      \/ type = "Start" /\ other = "AttendeeScanOut"
      \/ type \notin {"Passthrough", "Start"} /\ other = "AttendeeScanIn"
  OBVIOUS
<1>4. double => read
  BY DEF IsDouble
<1>. HIDE DEF scan, double, read, other, late
<1>5. CASE double
  BY <1>1, <1>5 DEF scan, double
<1>6. CASE ~double /\ read
  <2>1. scan = late
    BY <1>1, <1>6
  <2>. QED  BY <1>2, <1>6, <2>1 DEF scan, double, read
<1>7. CASE ~read
  <2>1. scan = other
    BY <1>1, <1>4, <1>7
  <2>. QED  BY <1>3, <1>7, <2>1 DEF scan, double, read
<1>. QED  BY <1>5, <1>6, <1>7

\* A scan makes rows: that of ScanEvent, and announcements.
LEMMA AddScanRows ==
    ASSUME NEW P, NEW type, NEW S, NEW info, IsInfo(info, P)
    PROVE  /\ ScanEvent(type, S, info) \in EventType
           /\ AddScan(type, S, info) \in Seq(EventRow(P))
           /\ \A f : HasRow(AddScan(type, S, info), f) <=>
                  \/ /\ type = "Start" /\ S.out = <<>>
                     /\ f = Event("FirstAttendeeForHappeningScanned", info)
                  \/ f = Event(ScanEvent(type, S, info), info)
                  \/ /\ type = "Start" /\ ScanEvent(type, S, info) = "AttendeeScanOut"
                     /\ f = Event("AttendeeScannedAtStartCheckpoint", info)
                  \/ /\ type = "Finish" /\ ScanEvent(type, S, info) = "AttendeeScanIn"
                     /\ f = Event("AttendeeScannedAtFinishCheckpoint", info)
<1>. DEFINE T == EventRow(P)
            scan == ScanEvent(type, S, info)
            ca == type = "Start" /\ S.out = <<>>
            cc == type = "Start" /\ scan = "AttendeeScanOut"
            cd == type = "Finish" /\ scan = "AttendeeScanIn"
            ea == Event("FirstAttendeeForHappeningScanned", info)
            eb == Event(scan, info)
            ec == Event("AttendeeScannedAtStartCheckpoint", info)
            ed == Event("AttendeeScannedAtFinishCheckpoint", info)
            a == IF ca THEN <<ea>> ELSE <<>>
            b == <<eb>>
            c == IF cc THEN <<ec>> ELSE <<>>
            d == IF cd THEN <<ed>> ELSE <<>>
<1>1. scan \in EventType
  <2>1. scan \in {"AttendeeDoubleScan", "AttendeeScanOutPreceedsScanIn", "AttendeeScanOut",
                 "AttendeePassthroughScan", "AttendeeScanIn"}
    <3>. HIDE DEF scan
    <3>. QED  BY ScanEventIs DEF scan
  <2>. HIDE DEF scan
  <2>. QED  BY <2>1 DEF EventType
<1>2. AddScan(type, S, info) = a \o b \o c \o d
  BY DEF AddScan
<1>3. ca \in BOOLEAN /\ cc \in BOOLEAN /\ cd \in BOOLEAN
  OBVIOUS
<1>4. ea \in T /\ eb \in T /\ ec \in T /\ ed \in T
  <2>1. \A t \in EventType : Event(t, info) \in T
    BY EventIsRow
  <2>. HIDE DEF scan, T
  <2>. QED  BY <1>1, <2>1 DEF EventType
<1>5. b \in Seq(T) /\ \A f : HasRow(b, f) <=> f = eb
  <2>. HIDE DEF eb, T
  <2>1. b \in Seq(T) /\ Len(b) = 1 /\ b[1] = eb
    BY <1>4
  <2>. HIDE DEF b
  <2>. QED  BY <2>1 DEF HasRow
<1>. HIDE DEF ea, eb, ec, ed, ca, cc, cd, T, b
<1>6. a \in Seq(T) /\ \A f : HasRow(a, f) <=> ca /\ f = ea
  BY <1>3, <1>4, HasRowIf
<1>7. c \in Seq(T) /\ \A f : HasRow(c, f) <=> cc /\ f = ec
  BY <1>3, <1>4, HasRowIf
<1>8. d \in Seq(T) /\ \A f : HasRow(d, f) <=> cd /\ f = ed
  BY <1>3, <1>4, HasRowIf
<1>. HIDE DEF a, c, d
<1>9. a \o b \in Seq(T) /\ \A f : HasRow(a \o b, f) <=> HasRow(a, f) \/ HasRow(b, f)
  BY <1>5, <1>6, HasRowConcat
<1>10. a \o b \o c \in Seq(T)
       /\ \A f : HasRow(a \o b \o c, f) <=> HasRow(a \o b, f) \/ HasRow(c, f)
  <2>. DEFINE ab == a \o b
  <2>1. ab \in Seq(T)
    BY <1>9
  <2>. HIDE DEF ab
  <2>2. ab \o c \in Seq(T) /\ \A f : HasRow(ab \o c, f) <=> HasRow(ab, f) \/ HasRow(c, f)
    BY <1>7, <2>1, HasRowConcat
  <2>. QED  BY <2>2 DEF ab
<1>11. a \o b \o c \o d \in Seq(T)
       /\ \A f : HasRow(a \o b \o c \o d, f) <=> HasRow(a \o b \o c, f) \/ HasRow(d, f)
  <2>. DEFINE abc == a \o b \o c
  <2>1. abc \in Seq(T)
    BY <1>10
  <2>. HIDE DEF abc
  <2>2. abc \o d \in Seq(T) /\ \A f : HasRow(abc \o d, f) <=> HasRow(abc, f) \/ HasRow(d, f)
    BY <1>8, <2>1, HasRowConcat
  <2>. QED  BY <2>2 DEF abc
<1>12. \A f : HasRow(AddScan(type, S, info), f) <=>
                  (ca /\ f = ea) \/ f = eb \/ (cc /\ f = ec) \/ (cd /\ f = ed)
  BY <1>2, <1>5, <1>6, <1>7, <1>8, <1>9, <1>10, <1>11
<1>. QED  BY <1>1, <1>2, <1>11, <1>12 DEF T, ca, cc, cd, ea, eb, ec, ed

\* Which rows a removal makes.
LEMMA RemoveScanRows ==
    ASSUME NEW P, NEW type, NEW S, NEW info, IsInfo(info, P)
    PROVE  /\ RemoveScan(type, S, info) \in Seq(EventRow(P))
           /\ \A f : HasRow(RemoveScan(type, S, info), f) <=>
                  \/ /\ IsRead(S.in, info.person)
                     /\ IsRead(S.out, info.person) => type = "Passthrough"
                     /\ f = Event("AttendeeScanInRemoved", info)
                  \/ /\ IsRead(S.out, info.person)
                     /\ f = Event("AttendeeScanOutRemoved", info)
<1>. DEFINE T == EventRow(P)
            in == IsRead(S.in, info.person)
            out == IsRead(S.out, info.person)
            ei == Event("AttendeeScanInRemoved", info)
            eo == Event("AttendeeScanOutRemoved", info)
            new == RemoveScan(type, S, info)
<1>1. ei \in T /\ eo \in T
  <2>1. \A t \in EventType : Event(t, info) \in T
    BY EventIsRow
  <2>. HIDE DEF T
  <2>. QED  BY <2>1 DEF EventType
<1>2. \/ type = "Passthrough" /\ in /\ out /\ new = <<ei, eo>>
      \/ out /\ ~(type = "Passthrough" /\ in) /\ new = <<eo>>
      \/ in /\ ~out /\ new = <<ei>>
      \/ ~in /\ ~out /\ new = <<>>
  BY DEF RemoveScan
<1>. HIDE DEF ei, eo, T, in, out, new
<1>3. CASE type = "Passthrough" /\ in /\ out /\ new = <<ei, eo>>
  <2>1. new \in Seq(T) /\ Len(new) = 2 /\ new[1] = ei /\ new[2] = eo
    BY <1>1, <1>3
  <2>2. \A f : HasRow(new, f) <=> f = ei \/ f = eo
    BY <2>1 DEF HasRow
  <2>. QED  BY <1>3, <2>1, <2>2 DEF ei, eo, in, out, T, new
<1>4. CASE out /\ ~(type = "Passthrough" /\ in) /\ new = <<eo>>
  <2>1. new \in Seq(T) /\ Len(new) = 1 /\ new[1] = eo
    BY <1>1, <1>4
  <2>2. \A f : HasRow(new, f) <=> f = eo
    BY <2>1 DEF HasRow
  <2>. QED  BY <1>4, <2>1, <2>2 DEF ei, eo, in, out, T, new
<1>5. CASE in /\ ~out /\ new = <<ei>>
  <2>1. new \in Seq(T) /\ Len(new) = 1 /\ new[1] = ei
    BY <1>1, <1>5
  <2>2. \A f : HasRow(new, f) <=> f = ei
    BY <2>1 DEF HasRow
  <2>. QED  BY <1>5, <2>1, <2>2 DEF ei, eo, in, out, T, new
<1>6. CASE ~in /\ ~out /\ new = <<>>
  <2>1. new \in Seq(T) /\ Len(new) = 0
    BY <1>6
  <2>2. \A f : ~HasRow(new, f)
    BY <2>1 DEF HasRow
  <2>. QED  BY <1>6, <2>1, <2>2 DEF ei, eo, in, out, T, new
<1>. QED  BY <1>2, <1>3, <1>4, <1>5, <1>6

-----------------------------------------------------------------------------
(* One list of readings, and the rows its readings come from. The lists of *)
(* readings in and out are alike: rows of the types add append a reading,  *)
(* of rem remove a person's, and of chg change the time of the first.      *)

InAdd == {"AttendeeScanIn", "AttendeePassthroughScan"}
InRem == {"AttendeeScanInRemoved"}
InChg == {"AttendeeScanInTimeChanged", "AttendeePassthroughScanTimeChanged"}

OutAdd == {"AttendeeScanOut", "AttendeePassthroughScan"}
OutRem == {"AttendeeScanOutRemoved"}
OutChg == {"AttendeeScanOutTimeChanged", "AttendeePassthroughScanTimeChanged"}

IsSide(add, rem, chg) ==
    /\ add \cap rem = {} /\ add \cap chg = {} /\ rem \cap chg = {}

\* The rows before the n-th that add a reading of q which none of them removes.
Live(rows, add, rem, n, q) ==
    {i \in 1 .. n - 1 :
        /\ rows[i].type \in add /\ rows[i].person = q
        /\ \A j \in 1 .. n - 1 : i < j /\ rows[j].type \in rem => rows[j].person # q}

\* The time of q's reading that comes from row i, before the n-th row.
IsReadTime(t, i, q, rows, chg, n) ==
    \/ /\ t = rows[i].at
       /\ \A c \in 1 .. n - 1 : i < c /\ rows[c].type \in chg => rows[c].person # q
    \/ \E c \in 1 .. n - 1 :
          /\ i < c /\ rows[c].type \in chg /\ rows[c].person = q /\ t = rows[c].time
          /\ \A d \in 1 .. n - 1 : c < d /\ rows[d].type \in chg => rows[d].person # q

\* m tells which rows the readings of list come from, in their order.
Origins(m, list, rows, add, rem, n) ==
    /\ m \in [1 .. Len(list) -> 1 .. n - 1]
    /\ \A k, l \in 1 .. Len(list) : k < l => m[k] < m[l]
    /\ \A k \in 1 .. Len(list) : m[k] \in Live(rows, add, rem, n, list[k].person)
    /\ \A q : \A i \in Live(rows, add, rem, n, q) : \E k \in 1 .. Len(list) : m[k] = i

TimesFrom(m, list, rows, chg, n) ==
    \A q : IsRead(list, q) =>
        IsReadTime(FirstReading(list, q).at, m[FirstIndex(list, q)], q, rows, chg, n)

\* One row more.
LEMMA LiveStep ==
    ASSUME NEW rows, NEW add, NEW rem, add \cap rem = {}, NEW n \in Nat \ {0}, NEW q, NEW i
    PROVE  i \in Live(rows, add, rem, n + 1, q) <=>
              \/ i = n /\ rows[n].type \in add /\ rows[n].person = q
              \/ /\ i \in Live(rows, add, rem, n, q)
                 /\ ~(rows[n].type \in rem /\ rows[n].person = q)
<1>1. /\ \A j : j \in 1 .. (n + 1) - 1 <=> j \in 1 .. n - 1 \/ j = n
      /\ \A j \in 1 .. n - 1 : j < n
      /\ n \in 1 .. (n + 1) - 1 /\ ~(n < n)
      /\ \A j \in 1 .. n - 1 : ~(n < j)
  OBVIOUS
<1>. DEFINE N == n + 1
            U == 1 .. n - 1
            V == 1 .. N - 1
<1>2. /\ \A j : j \in V <=> j \in U \/ j = n
      /\ \A j \in U : j < n /\ ~(n < j)
      /\ ~(n < n)
  BY <1>1
<1>3. /\ i \in Live(rows, add, rem, N, q) <=>
            /\ i \in V /\ rows[i].type \in add /\ rows[i].person = q
            /\ \A j \in V : i < j /\ rows[j].type \in rem => rows[j].person # q
      /\ i \in Live(rows, add, rem, n, q) <=>
            /\ i \in U /\ rows[i].type \in add /\ rows[i].person = q
            /\ \A j \in U : i < j /\ rows[j].type \in rem => rows[j].person # q
  BY DEF Live
<1>. HIDE DEF U, V
<1>4. i \in Live(rows, add, rem, N, q) <=>
              \/ i = n /\ rows[n].type \in add /\ rows[n].person = q
              \/ /\ i \in Live(rows, add, rem, n, q)
                 /\ ~(rows[n].type \in rem /\ rows[n].person = q)
  <2>. HIDE DEF N
  <2>. QED  BY <1>2, <1>3
<1>. QED  BY <1>4

\* What one more row does to the time of a reading.
LEMMA TimeStep ==
    ASSUME NEW rows, NEW chg, NEW n \in Nat \ {0}, NEW q
    PROVE  /\ rows[n].type \in chg /\ rows[n].person = q =>
                 \A i \in 1 .. n - 1 : IsReadTime(rows[n].time, i, q, rows, chg, n + 1)
           /\ ~(rows[n].type \in chg /\ rows[n].person = q) =>
                 \A i \in 1 .. n - 1 : \A t :
                     IsReadTime(t, i, q, rows, chg, n) => IsReadTime(t, i, q, rows, chg, n + 1)
           /\ IsReadTime(rows[n].at, n, q, rows, chg, n + 1)
<1>. DEFINE N == n + 1
            U == 1 .. n - 1
            V == 1 .. N - 1
<1>1. /\ \A j : j \in V <=> j \in U \/ j = n
      /\ \A j \in U : j < n /\ ~(n < j)
      /\ ~(n < n)
  OBVIOUS
<1>2. /\ \A i, t : IsReadTime(t, i, q, rows, chg, N) <=>
            \/ /\ t = rows[i].at
               /\ \A c \in V : i < c /\ rows[c].type \in chg => rows[c].person # q
            \/ \E c \in V :
                  /\ i < c /\ rows[c].type \in chg /\ rows[c].person = q /\ t = rows[c].time
                  /\ \A d \in V : c < d /\ rows[d].type \in chg => rows[d].person # q
      /\ \A i, t : IsReadTime(t, i, q, rows, chg, n) <=>
            \/ /\ t = rows[i].at
               /\ \A c \in U : i < c /\ rows[c].type \in chg => rows[c].person # q
            \/ \E c \in U :
                  /\ i < c /\ rows[c].type \in chg /\ rows[c].person = q /\ t = rows[c].time
                  /\ \A d \in U : c < d /\ rows[d].type \in chg => rows[d].person # q
  BY DEF IsReadTime
<1>. HIDE DEF U, V
<1>3. /\ rows[n].type \in chg /\ rows[n].person = q =>
            \A i \in U : IsReadTime(rows[n].time, i, q, rows, chg, N)
      /\ ~(rows[n].type \in chg /\ rows[n].person = q) =>
            \A i \in U : \A t :
                IsReadTime(t, i, q, rows, chg, n) => IsReadTime(t, i, q, rows, chg, N)
      /\ IsReadTime(rows[n].at, n, q, rows, chg, N)
  <2>. HIDE DEF N
  <2>1. ASSUME rows[n].type \in chg, rows[n].person = q, NEW i \in U
        PROVE  IsReadTime(rows[n].time, i, q, rows, chg, N)
    BY <1>1, <1>2, <2>1
  <2>2. ASSUME ~(rows[n].type \in chg /\ rows[n].person = q), NEW i \in U, NEW t,
               IsReadTime(t, i, q, rows, chg, n)
        PROVE  IsReadTime(t, i, q, rows, chg, N)
    BY <1>1, <1>2, <2>2
  <2>3. IsReadTime(rows[n].at, n, q, rows, chg, N)
    BY <1>1, <1>2
  <2>. QED  BY <2>1, <2>2, <2>3
<1>. QED  BY <1>3 DEF U
\* The first reading is the one with nobody's of the same person before it.
LEMMA FirstIs ==
    ASSUME NEW P, NEW list \in Seq(Reading(P)), NEW q, NEW k \in 1 .. Len(list),
           list[k].person = q,
           \A j \in 1 .. Len(list) : list[j].person = q => ~(j < k)
    PROVE  IsRead(list, q) /\ FirstIndex(list, q) = k
<1>1. IsRead(list, q)
  BY DEF IsRead, Readings
<1>2. FirstIndex(list, q) \in 1 .. Len(list) /\ list[FirstIndex(list, q)].person = q
      /\ FirstIndex(list, q) <= k
  BY <1>1, FirstIndexIn
<1>. DEFINE f == FirstIndex(list, q)
<1>. HIDE DEF f
<1>3. f = k
  BY <1>2 DEF f
<1>. QED  BY <1>1, <1>3 DEF f

\* A reading more.
LEMMA OriginsAppend ==
    ASSUME NEW P, NEW rows, NEW n \in Nat \ {0}, rows[n] \in EventRow(P),
           NEW add, NEW rem, NEW chg, IsSide(add, rem, chg), rows[n].type \in add,
           NEW list \in Seq(Reading(P)), NEW m, Origins(m, list, rows, add, rem, n)
    PROVE  \E k : /\ Origins(k, Append(list, NewReading(rows[n])), rows, add, rem, n + 1)
                  /\ TimesFrom(m, list, rows, chg, n) =>
                        TimesFrom(k, Append(list, NewReading(rows[n])), rows, chg, n + 1)
<1>. DEFINE r == NewReading(rows[n])
            K == Append(list, r)
            k == [i \in 1 .. Len(K) |-> IF i = Len(K) THEN n ELSE m[i]]
            N == n + 1
            L == Len(list)
<1>1. r \in Reading(P) /\ r.person = rows[n].person /\ r.at = rows[n].at
  BY DEF NewReading, EventRow, Reading
<1>. HIDE DEF r
<1>2. /\ K \in Seq(Reading(P)) /\ L \in Nat /\ Len(K) = L + 1 /\ K[L + 1] = r
      /\ \A i \in 1 .. L : K[i] = list[i] /\ i \in 1 .. L + 1 /\ i # L + 1
      /\ \A i : i \in 1 .. L + 1 <=> i \in 1 .. L \/ i = L + 1
      /\ \A i \in 1 .. L : i < L + 1 /\ ~(L + 1 < i)
      /\ ~(L + 1 < L + 1)
  BY <1>1
<1>3. /\ m \in [1 .. L -> 1 .. n - 1]
      /\ \A i, l \in 1 .. L : i < l => m[i] < m[l]
      /\ \A i \in 1 .. L : m[i] \in Live(rows, add, rem, n, list[i].person)
      /\ \A q : \A i \in Live(rows, add, rem, n, q) : \E l \in 1 .. L : m[l] = i
  BY DEF Origins
<1>4. \A i : i \in 1 .. n - 1 => i \in 1 .. N - 1 /\ i < n
  OBVIOUS
<1>5. n \in 1 .. N - 1
  OBVIOUS
<1>6. /\ rows[n].type \notin rem /\ rows[n].type \notin chg /\ add \cap rem = {}
  BY DEF IsSide
<1>7. \A q, i : i \in Live(rows, add, rem, N, q) <=>
                  (i = n /\ rows[n].person = q) \/ i \in Live(rows, add, rem, n, q)
  BY <1>6, LiveStep
<1>. HIDE DEF K
<1>8. /\ DOMAIN k = 1 .. L + 1 /\ k[L + 1] = n /\ \A i \in 1 .. L : k[i] = m[i]
  BY <1>2
<1>9. k \in [1 .. Len(K) -> 1 .. N - 1]
  BY <1>2, <1>3, <1>4, <1>5
<1>. HIDE DEF k, N, L
<1>10. Origins(k, K, rows, add, rem, N)
  <2>1. ASSUME NEW i \in 1 .. L + 1, NEW l \in 1 .. L + 1, i < l
        PROVE  k[i] < k[l]
    BY <1>2, <1>3, <1>4, <1>8, <2>1
  <2>2. ASSUME NEW i \in 1 .. L + 1
        PROVE  k[i] \in Live(rows, add, rem, N, K[i].person)
    BY <1>1, <1>2, <1>3, <1>7, <1>8
  <2>3. ASSUME NEW q, NEW i \in Live(rows, add, rem, N, q)
        PROVE  \E l \in 1 .. L + 1 : k[l] = i
    BY <1>2, <1>3, <1>7, <1>8
  <2>. QED  BY <1>2, <1>9, <2>1, <2>2, <2>3 DEF Origins
<1>11. ASSUME TimesFrom(m, list, rows, chg, n)
       PROVE  TimesFrom(k, K, rows, chg, N)
  <2>. SUFFICES ASSUME NEW q, IsRead(K, q)
                PROVE  IsReadTime(FirstReading(K, q).at, k[FirstIndex(K, q)], q, rows, chg, N)
    BY DEF TimesFrom
  <2>1. CASE IsRead(list, q)
    <3>. DEFINE f == FirstIndex(list, q)
    <3>1. /\ f \in 1 .. L /\ list[f].person = q
          /\ \A j \in 1 .. L : list[j].person = q => f <= j
      BY <2>1, FirstIndexIn DEF L
    <3>2. IsReadTime(list[f].at, m[f], q, rows, chg, n)
      BY <1>11, <2>1 DEF TimesFrom, FirstReading
    <3>. HIDE DEF f
    <3>3. \A j \in 1 .. L + 1 : K[j].person = q => ~(j < f)
      BY <1>2, <3>1
    <3>4. FirstIndex(K, q) = f
      BY <1>2, <3>1, <3>3, FirstIs
    <3>5. k[f] = m[f] /\ K[f] = list[f] /\ m[f] \in 1 .. n - 1
      BY <1>2, <1>3, <1>8, <3>1
    <3>6. IsReadTime(list[f].at, m[f], q, rows, chg, N)
      BY <1>6, <3>2, <3>5, TimeStep DEF N
    <3>. QED  BY <3>4, <3>5, <3>6 DEF FirstReading
  <2>2. CASE ~IsRead(list, q)
    <3>1. \A j \in 1 .. L : list[j].person # q
      BY <2>2 DEF IsRead, Readings, L
    <3>2. /\ FirstIndex(K, q) \in 1 .. L + 1 /\ K[FirstIndex(K, q)].person = q
      BY <1>2, FirstIndexIn
    <3>3. FirstIndex(K, q) = L + 1 /\ q = rows[n].person
      BY <1>1, <1>2, <3>1, <3>2
    <3>4. IsReadTime(rows[n].at, n, q, rows, chg, N)
      BY TimeStep DEF N
    <3>. QED  BY <1>1, <1>2, <1>8, <3>3, <3>4 DEF FirstReading
  <2>. QED  BY <2>1, <2>2
<1>. QED  BY <1>10, <1>11 DEF K, N, r

\* A person's readings fewer.
LEMMA OriginsRemove ==
    ASSUME NEW P, NEW rows, NEW n \in Nat \ {0}, rows[n] \in EventRow(P),
           NEW add, NEW rem, NEW chg, IsSide(add, rem, chg), rows[n].type \in rem,
           NEW list \in Seq(Reading(P)), NEW m, Origins(m, list, rows, add, rem, n)
    PROVE  \E k : /\ Origins(k, Removed(list, rows[n].person), rows, add, rem, n + 1)
                  /\ TimesFrom(m, list, rows, chg, n) =>
                        TimesFrom(k, Removed(list, rows[n].person), rows, chg, n + 1)
<1>. DEFINE p == rows[n].person
            K == Removed(list, p)
            N == n + 1
            L == Len(list)
<1>1. K \in Seq(Reading(P)) /\ \E u : Picks(u, K, list, L, p)
  BY RemovedPicks
<1>. HIDE DEF K
<1>2. PICK u : Picks(u, K, list, L, p)
  BY <1>1
<1>3. /\ u \in [1 .. Len(K) -> 1 .. L]
      /\ \A i, j \in 1 .. Len(K) : i < j => u[i] < u[j]
      /\ \A i \in 1 .. Len(K) : K[i] = list[u[i]] /\ list[u[i]].person # p
      /\ \A j \in 1 .. L : list[j].person # p => \E i \in 1 .. Len(K) : u[i] = j
  BY <1>2 DEF Picks
<1>4. /\ m \in [1 .. L -> 1 .. n - 1]
      /\ \A i, l \in 1 .. L : i < l => m[i] < m[l]
      /\ \A i \in 1 .. L : m[i] \in Live(rows, add, rem, n, list[i].person)
      /\ \A q : \A i \in Live(rows, add, rem, n, q) : \E l \in 1 .. L : m[l] = i
  BY DEF Origins
<1>. DEFINE k == [i \in 1 .. Len(K) |-> m[u[i]]]
<1>5. \A i : i \in 1 .. n - 1 => i \in 1 .. N - 1
  OBVIOUS
<1>6. rows[n].type \notin add /\ rows[n].type \notin chg /\ add \cap rem = {}
  BY DEF IsSide
<1>7. \A q, i : i \in Live(rows, add, rem, N, q) <=> i \in Live(rows, add, rem, n, q) /\ q # p
  BY <1>6, LiveStep
<1>8. \A i \in 1 .. Len(K) : k[i] = m[u[i]] /\ u[i] \in 1 .. L
  BY <1>3
<1>9. k \in [1 .. Len(K) -> 1 .. N - 1]
  BY <1>3, <1>4, <1>5
<1>. HIDE DEF k, N, p
<1>10. Origins(k, K, rows, add, rem, N)
  <2>1. ASSUME NEW i \in 1 .. Len(K), NEW l \in 1 .. Len(K), i < l
        PROVE  k[i] < k[l]
    BY <1>3, <1>4, <1>8, <2>1
  <2>2. ASSUME NEW i \in 1 .. Len(K)
        PROVE  k[i] \in Live(rows, add, rem, N, K[i].person)
    BY <1>3, <1>4, <1>7, <1>8
  <2>3. ASSUME NEW q, NEW i \in Live(rows, add, rem, N, q)
        PROVE  \E l \in 1 .. Len(K) : k[l] = i
    <3>1. i \in Live(rows, add, rem, n, q) /\ q # p
      BY <1>7
    <3>2. PICK j \in 1 .. L : m[j] = i
      BY <1>4, <3>1
    <3>3. list[j].person = q
      <4>1. rows[i].person = q
        BY <3>1 DEF Live
      <4>2. rows[i].person = list[j].person
        BY <1>4, <3>2 DEF Live
      <4>. QED  BY <4>1, <4>2
    <3>4. PICK l \in 1 .. Len(K) : u[l] = j
      BY <1>3, <3>1, <3>3
    <3>. QED  BY <1>8, <3>2, <3>4
  <2>. QED  BY <1>9, <2>1, <2>2, <2>3 DEF Origins
<1>11. ASSUME TimesFrom(m, list, rows, chg, n)
       PROVE  TimesFrom(k, K, rows, chg, N)
  <2>. SUFFICES ASSUME NEW q, IsRead(K, q)
                PROVE  IsReadTime(FirstReading(K, q).at, k[FirstIndex(K, q)], q, rows, chg, N)
    BY DEF TimesFrom
  <2>. DEFINE f == FirstIndex(K, q)
  <2>1. /\ f \in 1 .. Len(K) /\ K[f].person = q
        /\ \A j \in 1 .. Len(K) : K[j].person = q => f <= j
    BY <1>1, FirstIndexIn
  <2>. HIDE DEF f
  <2>2. u[f] \in 1 .. L /\ list[u[f]].person = q /\ q # p
    BY <1>3, <2>1
  <2>3. \A j \in 1 .. L : list[j].person = q => ~(j < u[f])
    <3>. SUFFICES ASSUME NEW j \in 1 .. L, list[j].person = q, j < u[f] PROVE FALSE
      OBVIOUS
    <3>1. PICK i \in 1 .. Len(K) : u[i] = j
      BY <1>3, <2>2
    <3>2. K[i].person = q /\ f <= i
      BY <1>3, <2>1, <3>1
    <3>3. f < i \/ f = i
      BY <2>1, <3>2
    <3>. QED  BY <1>3, <2>1, <2>2, <3>1, <3>3
  <2>4. IsRead(list, q) /\ FirstIndex(list, q) = u[f]
    BY <2>2, <2>3, FirstIs DEF L
  <2>5. IsReadTime(list[u[f]].at, m[u[f]], q, rows, chg, n)
    BY <1>11, <2>4 DEF TimesFrom, FirstReading
  <2>6. m[u[f]] \in 1 .. n - 1
    BY <1>4, <2>2
  <2>7. IsReadTime(list[u[f]].at, m[u[f]], q, rows, chg, N)
    BY <1>6, <2>5, <2>6, TimeStep DEF N
  <2>. QED  BY <1>3, <1>8, <2>1, <2>7 DEF FirstReading, f
<1>. QED  BY <1>10, <1>11 DEF K, N, p

\* What a change of time changes.
LEMMA ChangedTimes ==
    ASSUME NEW P, NEW list \in Seq(Reading(P)), NEW e \in EventRow(P),
           IsRead(list, e.person)
    PROVE  /\ Changed(list, e)[FirstIndex(list, e.person)].at = e.time
           /\ \A i \in 1 .. Len(list) : i # FirstIndex(list, e.person) =>
                 Changed(list, e)[i] = list[i]
<1>. DEFINE k == FirstIndex(list, e.person)
            row == [list[k] EXCEPT !.at = e.time, !.shown = e.time]
<1>1. k \in 1 .. Len(list)
  BY FirstIndexIn
<1>. HIDE DEF k
<1>2. list[k] \in Reading(P)
  BY <1>1
<1>3. row.at = e.time
  BY <1>2 DEF Reading
<1>4. Changed(list, e) = [list EXCEPT ![k] = row]
  BY <1>1 DEF Changed, k
<1>. HIDE DEF row
<1>5. \A i \in 1 .. Len(list) : [list EXCEPT ![k] = row][i] = IF i = k THEN row ELSE list[i]
  BY <1>1
<1>. QED  BY <1>1, <1>3, <1>4, <1>5 DEF k

\* Another time.
LEMMA OriginsChange ==
    ASSUME NEW P, NEW rows, NEW n \in Nat \ {0}, rows[n] \in EventRow(P),
           NEW add, NEW rem, NEW chg, IsSide(add, rem, chg), rows[n].type \in chg,
           NEW list \in Seq(Reading(P)), NEW m, Origins(m, list, rows, add, rem, n),
           IsRead(list, rows[n].person)
    PROVE  /\ Origins(m, Changed(list, rows[n]), rows, add, rem, n + 1)
           /\ TimesFrom(m, list, rows, chg, n) =>
                 TimesFrom(m, Changed(list, rows[n]), rows, chg, n + 1)
<1>. DEFINE e == rows[n]
            K == Changed(list, e)
            N == n + 1
            L == Len(list)
            g == FirstIndex(list, e.person)
<1>1. /\ K \in Seq(Reading(P)) /\ Len(K) = L
      /\ \A i \in 1 .. L : K[i].person = list[i].person
      /\ K[g].at = e.time
      /\ \A i \in 1 .. L : i # g => K[i] = list[i]
  BY ChangedRows, ChangedTimes
<1>2. g \in 1 .. L /\ list[g].person = e.person
  BY FirstIndexIn
<1>. HIDE DEF K, g
<1>3. /\ m \in [1 .. L -> 1 .. n - 1]
      /\ \A i, l \in 1 .. L : i < l => m[i] < m[l]
      /\ \A i \in 1 .. L : m[i] \in Live(rows, add, rem, n, list[i].person)
      /\ \A q : \A i \in Live(rows, add, rem, n, q) : \E l \in 1 .. L : m[l] = i
  BY DEF Origins
<1>4. m \in [1 .. L -> 1 .. N - 1]
  <2>1. \A i : i \in 1 .. n - 1 => i \in 1 .. N - 1
    OBVIOUS
  <2>. QED  BY <1>3, <2>1
<1>5. e.type \notin add /\ e.type \notin rem /\ add \cap rem = {}
  BY DEF IsSide
<1>6. \A q, i : i \in Live(rows, add, rem, N, q) <=> i \in Live(rows, add, rem, n, q)
  BY <1>5, LiveStep
<1>. HIDE DEF N
<1>7. Origins(m, K, rows, add, rem, N)
  BY <1>1, <1>3, <1>4, <1>6 DEF Origins
<1>8. ASSUME TimesFrom(m, list, rows, chg, n)
      PROVE  TimesFrom(m, K, rows, chg, N)
  <2>. SUFFICES ASSUME NEW q, IsRead(K, q)
                PROVE  IsReadTime(FirstReading(K, q).at, m[FirstIndex(K, q)], q, rows, chg, N)
    BY DEF TimesFrom
  <2>1. IsRead(list, q)
    BY ChangedIsRead DEF K
  <2>. DEFINE f == FirstIndex(list, q)
  <2>2. /\ f \in 1 .. L /\ list[f].person = q
        /\ \A j \in 1 .. L : list[j].person = q => f <= j
    BY <2>1, FirstIndexIn
  <2>3. IsReadTime(list[f].at, m[f], q, rows, chg, n) /\ m[f] \in 1 .. n - 1
    BY <1>3, <1>8, <2>1, <2>2 DEF TimesFrom, FirstReading
  <2>4. q = e.person => f = g
    BY DEF g
  <2>. HIDE DEF f
  <2>5. \A j \in 1 .. L : K[j].person = q => ~(j < f)
    BY <1>1, <2>2
  <2>6. FirstIndex(K, q) = f
    BY <1>1, <2>2, <2>5, FirstIs
  <2>7. IsReadTime(K[f].at, m[f], q, rows, chg, N)
    <3>1. CASE q = e.person
      BY <1>1, <2>3, <2>4, <3>1, TimeStep DEF N
    <3>2. CASE q # e.person
      <4>1. K[f] = list[f]
        BY <1>1, <1>2, <2>2, <3>2
      <4>. QED  BY <2>3, <3>2, <4>1, TimeStep DEF N
    <3>. QED  BY <3>1, <3>2
  <2>. QED  BY <2>6, <2>7 DEF FirstReading
<1>. QED  BY <1>7, <1>8 DEF K, N

\* A row of another kind.
LEMMA OriginsSame ==
    ASSUME NEW P, NEW rows, NEW n \in Nat \ {0}, rows[n] \in EventRow(P),
           NEW add, NEW rem, NEW chg, IsSide(add, rem, chg),
           rows[n].type \notin add \cup rem \cup chg,
           NEW list \in Seq(Reading(P)), NEW m, Origins(m, list, rows, add, rem, n)
    PROVE  /\ Origins(m, list, rows, add, rem, n + 1)
           /\ TimesFrom(m, list, rows, chg, n) => TimesFrom(m, list, rows, chg, n + 1)
<1>. DEFINE N == n + 1
            L == Len(list)
<1>1. /\ m \in [1 .. L -> 1 .. n - 1]
      /\ \A i, l \in 1 .. L : i < l => m[i] < m[l]
      /\ \A i \in 1 .. L : m[i] \in Live(rows, add, rem, n, list[i].person)
      /\ \A q : \A i \in Live(rows, add, rem, n, q) : \E l \in 1 .. L : m[l] = i
  BY DEF Origins
<1>2. m \in [1 .. L -> 1 .. N - 1]
  <2>1. \A i : i \in 1 .. n - 1 => i \in 1 .. N - 1
    OBVIOUS
  <2>. QED  BY <1>1, <2>1
<1>3. \A q, i : i \in Live(rows, add, rem, N, q) <=> i \in Live(rows, add, rem, n, q)
  BY LiveStep DEF IsSide
<1>. HIDE DEF N
<1>4. Origins(m, list, rows, add, rem, N)
  BY <1>1, <1>2, <1>3 DEF Origins
<1>5. ASSUME TimesFrom(m, list, rows, chg, n)
      PROVE  TimesFrom(m, list, rows, chg, N)
  <2>. SUFFICES ASSUME NEW q, IsRead(list, q)
                PROVE  IsReadTime(FirstReading(list, q).at, m[FirstIndex(list, q)], q, rows, chg, N)
    BY DEF TimesFrom
  <2>. DEFINE f == FirstIndex(list, q)
  <2>1. f \in 1 .. L
    BY FirstIndexIn
  <2>2. IsReadTime(FirstReading(list, q).at, m[f], q, rows, chg, n) /\ m[f] \in 1 .. n - 1
    BY <1>1, <1>5, <2>1 DEF TimesFrom
  <2>. HIDE DEF f
  <2>3. IsReadTime(FirstReading(list, q).at, m[f], q, rows, chg, N)
    BY <2>2, TimeStep DEF N
  <2>. QED  BY <2>3 DEF f
<1>. QED  BY <1>4, <1>5 DEF N

\* The lists of readings that a replay goes through, all in or all out.
IsListReplay(lists, P, rows, add, rem, chg) ==
    /\ IsSide(add, rem, chg)
    /\ Len(lists) \in 1 .. Len(rows) + 1
    /\ \A n \in 1 .. Len(lists) : lists[n] \in Seq(Reading(P))
    /\ lists[1] = <<>>
    /\ \A n \in 1 .. Len(lists) - 1 :
          LET e == rows[n]
          IN  /\ e.type \in add => lists[n + 1] = Append(lists[n], NewReading(e))
              /\ e.type \in rem => lists[n + 1] = Removed(lists[n], e.person)
              /\ e.type \in chg => IsRead(lists[n], e.person) /\ lists[n + 1] = Changed(lists[n], e)
              /\ e.type \notin add \cup rem \cup chg => lists[n + 1] = lists[n]

\* Every list comes from the rows before it.
LEMMA ListOrigins ==
    ASSUME NEW P, NEW rows \in Seq(EventRow(P)), NEW add, NEW rem, NEW chg,
           NEW lists, IsListReplay(lists, P, rows, add, rem, chg)
    PROVE  \A n \in 1 .. Len(lists) :
              \E m : Origins(m, lists[n], rows, add, rem, n) /\ TimesFrom(m, lists[n], rows, chg, n)
<1>. DEFINE L == Len(lists)
            Fact(n) == \E m : /\ Origins(m, lists[n], rows, add, rem, n)
                              /\ TimesFrom(m, lists[n], rows, chg, n)
            S == {n \in 0 .. L - 1 : Fact(n + 1)}
<1>1. /\ L \in Nat \ {0} /\ L <= Len(rows) + 1 /\ Len(rows) \in Nat
      /\ \A n \in 1 .. L : lists[n] \in Seq(Reading(P))
      /\ lists[1] = <<>>
      /\ IsSide(add, rem, chg)
      /\ \A n \in 1 .. L - 1 :
          /\ rows[n].type \in add => lists[n + 1] = Append(lists[n], NewReading(rows[n]))
          /\ rows[n].type \in rem => lists[n + 1] = Removed(lists[n], rows[n].person)
          /\ rows[n].type \in chg =>
                IsRead(lists[n], rows[n].person) /\ lists[n + 1] = Changed(lists[n], rows[n])
          /\ rows[n].type \notin add \cup rem \cup chg => lists[n + 1] = lists[n]
  BY DEF IsListReplay
<1>. HIDE DEF L
<1>2. 0 \in S
  <2>. DEFINE none == <<>>
              one == 0 + 1
  <2>1. Len(none) = 0 /\ none \in Seq(Reading(P)) /\ one = 1
    OBVIOUS
  <2>2. \A q : Live(rows, add, rem, one, q) = {}
    BY DEF Live
  <2>3. \A q : ~IsRead(none, q)
    BY DEF IsRead, Readings
  <2>. HIDE DEF one
  <2>4. Origins(none, none, rows, add, rem, one)
    BY <2>1, <2>2 DEF Origins
  <2>5. TimesFrom(none, none, rows, chg, one)
    BY <2>3 DEF TimesFrom
  <2>6. lists[one] = none
    BY <1>1, <2>1
  <2>. HIDE DEF none
  <2>7. Fact(one)
    BY <2>4, <2>5, <2>6
  <2>. QED  BY <1>1, <2>7 DEF one
<1>3. ASSUME NEW i \in 0 .. L - 1, i \in S, i < L - 1
      PROVE  i + 1 \in S
  <2>. DEFINE n == i + 1
  <2>1. /\ n \in Nat \ {0} /\ n \in 1 .. L - 1 /\ n \in 1 .. L /\ n \in 1 .. Len(rows)
        /\ n \in 0 .. L - 1
    BY <1>1, <1>3
  <2>2. Fact(n)
    BY <1>3
  <2>. HIDE DEF n
  <2>3. PICK m : /\ Origins(m, lists[n], rows, add, rem, n)
                 /\ TimesFrom(m, lists[n], rows, chg, n)
    BY <2>2
  <2>4. rows[n] \in EventRow(P) /\ lists[n] \in Seq(Reading(P))
    BY <1>1, <2>1
  <2>5. Fact(n + 1)
    <3>. DEFINE list == lists[n]
                next == lists[n + 1]
    <3>1. /\ list \in Seq(Reading(P))
          /\ Origins(m, list, rows, add, rem, n) /\ TimesFrom(m, list, rows, chg, n)
          /\ rows[n].type \in add => next = Append(list, NewReading(rows[n]))
          /\ rows[n].type \in rem => next = Removed(list, rows[n].person)
          /\ rows[n].type \in chg =>
                IsRead(list, rows[n].person) /\ next = Changed(list, rows[n])
          /\ rows[n].type \notin add \cup rem \cup chg => next = list
      BY <1>1, <2>1, <2>3, <2>4
    <3>. SUFFICES \E k : Origins(k, next, rows, add, rem, n + 1) /\ TimesFrom(k, next, rows, chg, n + 1)
      OBVIOUS
    <3>. HIDE DEF list, next, Fact
    <3>2. ASSUME rows[n].type \in add
          PROVE  \E k : Origins(k, next, rows, add, rem, n + 1) /\ TimesFrom(k, next, rows, chg, n + 1)
      <4>1. PICK k : /\ Origins(k, Append(list, NewReading(rows[n])), rows, add, rem, n + 1)
                     /\ TimesFrom(m, list, rows, chg, n) =>
                          TimesFrom(k, Append(list, NewReading(rows[n])), rows, chg, n + 1)
        <5>1. IsSide(add, rem, chg) /\ rows[n] \in EventRow(P) /\ rows[n].type \in add
              /\ list \in Seq(Reading(P)) /\ Origins(m, list, rows, add, rem, n) /\ n \in Nat \ {0}
          BY <1>1, <2>1, <2>4, <3>1, <3>2
        <5>. QED  BY ONLY <5>1, OriginsAppend
      <4>. QED  BY <3>1, <3>2, <4>1
    <3>3. ASSUME rows[n].type \in rem
          PROVE  \E k : Origins(k, next, rows, add, rem, n + 1) /\ TimesFrom(k, next, rows, chg, n + 1)
      <4>1. PICK k : /\ Origins(k, Removed(list, rows[n].person), rows, add, rem, n + 1)
                     /\ TimesFrom(m, list, rows, chg, n) =>
                          TimesFrom(k, Removed(list, rows[n].person), rows, chg, n + 1)
        <5>1. IsSide(add, rem, chg) /\ rows[n] \in EventRow(P) /\ rows[n].type \in rem
              /\ list \in Seq(Reading(P)) /\ Origins(m, list, rows, add, rem, n) /\ n \in Nat \ {0}
          BY <1>1, <2>1, <2>4, <3>1, <3>3
        <5>. QED  BY ONLY <5>1, OriginsRemove
      <4>. QED  BY <3>1, <3>3, <4>1
    <3>4. CASE rows[n].type \in chg
      BY <1>1, <2>1, <2>4, <3>1, <3>4, OriginsChange
    <3>5. CASE rows[n].type \notin add \cup rem \cup chg
      BY <1>1, <2>1, <2>4, <3>1, <3>5, OriginsSame
    <3>. QED  BY <3>2, <3>3, <3>4, <3>5
  <2>. HIDE DEF Fact
  <2>. QED  BY <2>1, <2>5 DEF n
<1>4. ASSUME NEW n \in 1 .. L PROVE Fact(n)
  <2>. HIDE DEF S, Fact
  <2>1. \A i \in 0 .. L - 1 : i \in S
    <3>1. L - 1 \in Nat
      BY <1>1
    <3>. QED  BY <1>2, <1>3, <3>1, UpTo
  <2>2. n - 1 \in S /\ (n - 1) + 1 = n
    BY <1>1, <2>1
  <2>. QED  BY <2>2 DEF S
<1>. QED  BY <1>4 DEF L

\* t is the time of q's first reading.
HasTime(t, q, rows, add, rem, chg, n) ==
    \E i \in Live(rows, add, rem, n, q) :
        /\ \A j \in Live(rows, add, rem, n, q) : i <= j
        /\ IsReadTime(t, i, q, rows, chg, n)

\* What a list holds: a reading for every row that adds one and is not taken
\* back, the first with the time it was last given.
LEMMA ListReads ==
    ASSUME NEW P, NEW rows \in Seq(EventRow(P)), NEW add, NEW rem, NEW chg,
           NEW lists, IsListReplay(lists, P, rows, add, rem, chg),
           NEW n \in 1 .. Len(lists), NEW q
    PROVE  /\ IsRead(lists[n], q) <=> Live(rows, add, rem, n, q) # {}
           /\ Cardinality(Readings(lists[n], q)) = Cardinality(Live(rows, add, rem, n, q))
           /\ IsRead(lists[n], q) =>
                 HasTime(FirstReading(lists[n], q).at, q, rows, add, rem, chg, n)
<1>. DEFINE list == lists[n]
            R == Readings(list, q)
            V == Live(rows, add, rem, n, q)
            L == Len(list)
<1>1. list \in Seq(Reading(P)) /\ L \in Nat
  BY DEF IsListReplay
<1>2. PICK m : Origins(m, list, rows, add, rem, n) /\ TimesFrom(m, list, rows, chg, n)
  BY ListOrigins
<1>. HIDE DEF list
<1>3. R = {k \in 1 .. L : list[k].person = q}
  BY <1>1 DEF Readings
<1>4. /\ m \in [1 .. L -> 1 .. n - 1]
      /\ \A k, l \in 1 .. L : k < l => m[k] < m[l]
      /\ \A k \in 1 .. L : m[k] \in Live(rows, add, rem, n, list[k].person)
      /\ \A i \in V : \E k \in 1 .. L : m[k] = i
  BY <1>2 DEF Origins
<1>5. \A k \in 1 .. L : rows[m[k]].person = list[k].person
  BY <1>4 DEF Live
<1>6. \A i \in V : rows[i].person = q /\ i \in 1 .. n - 1
  BY DEF Live
<1>. HIDE DEF R, V, L
<1>7. /\ \A k \in R : m[k] \in V
      /\ \A i \in V : \E k \in R : m[k] = i
  BY <1>3, <1>4, <1>5, <1>6 DEF V
<1>8. IsRead(list, q) <=> V # {}
  BY <1>7 DEF IsRead, R
<1>9. Cardinality(R) = Cardinality(V)
  <2>. DEFINE f == [k \in R |-> m[k]]
  <2>1. f \in [R -> V] /\ \A k \in R : f[k] = m[k]
    BY <1>7
  <2>. HIDE DEF f
  <2>2. \A k, l \in R : f[k] = f[l] => k = l
    <3>. SUFFICES ASSUME NEW k \in R, NEW l \in R, f[k] = f[l], k # l PROVE FALSE
      OBVIOUS
    <3>1. k \in 1 .. L /\ l \in 1 .. L /\ m[k] = m[l] /\ m[k] \in 1 .. n - 1
      BY <1>3, <1>4, <2>1
    <3>2. k < l \/ l < k
      BY <3>1
    <3>3. m[k] < m[l] \/ m[l] < m[k]
      BY <1>4, <3>1, <3>2
    <3>. QED  BY <3>1, <3>3
  <2>3. f \in Injection(R, V)
    BY <2>1, <2>2 DEF Injection, IsInjective
  <2>4. f \in Surjection(R, V)
    BY <1>7, <2>1 DEF Surjection
  <2>5. IsFiniteSet(R)
    <3>1. IsFiniteSet(1 .. L)
      BY <1>1, FS_Interval DEF L
    <3>2. R \in SUBSET (1 .. L)
      BY <1>3
    <3>. QED  BY <3>1, <3>2, FS_Subset
  <2>6. ExistsBijection(R, V)
    BY <2>3, <2>4 DEF Bijection, ExistsBijection
  <2>. QED  BY <2>5, <2>6, FS_Bijection
<1>10. ASSUME IsRead(list, q)
       PROVE  HasTime(FirstReading(list, q).at, q, rows, add, rem, chg, n)
  <2>. DEFINE f == FirstIndex(list, q)
              i == m[f]
  <2>1. /\ f \in 1 .. L /\ list[f].person = q
        /\ \A j \in 1 .. L : list[j].person = q => f <= j
    BY <1>1, <1>10, FirstIndexIn DEF L
  <2>2. IsReadTime(FirstReading(list, q).at, i, q, rows, chg, n)
    BY <1>2, <1>10 DEF TimesFrom
  <2>. HIDE DEF f
  <2>3. i \in V
    BY <1>3, <1>7, <2>1
  <2>4. \A j \in V : i <= j
    <3>. SUFFICES ASSUME NEW j \in V PROVE i <= j
      OBVIOUS
    <3>1. PICK k \in R : m[k] = j
      BY <1>7
    <3>2. k \in 1 .. L /\ f <= k
      BY <1>3, <2>1
    <3>3. f = k \/ f < k
      BY <2>1, <3>2
    <3>4. i = j \/ i < j
      BY <1>4, <2>1, <3>1, <3>2, <3>3
    <3>5. i \in 1 .. n - 1 /\ j \in 1 .. n - 1
      BY <1>6, <2>3
    <3>. QED  BY <3>4, <3>5
  <2>. HIDE DEF i
  <2>. QED  BY <2>2, <2>3, <2>4 DEF HasTime, V
<1>. QED  BY <1>8, <1>9, <1>10 DEF list, R, V

\* The two lists of a replay.
LEMMA ReplayedLists ==
    ASSUME NEW P, NEW rows \in Seq(EventRow(P)), NEW states, IsReplay(states, P, rows)
    PROVE  /\ IsListReplay([n \in 1 .. Len(states) |-> states[n].in], P, rows, InAdd, InRem, InChg)
           /\ IsListReplay([n \in 1 .. Len(states) |-> states[n].out], P, rows, OutAdd, OutRem, OutChg)
<1>. DEFINE L == Len(states)
            ins == [n \in 1 .. L |-> states[n].in]
            outs == [n \in 1 .. L |-> states[n].out]
<1>1. /\ L \in 1 .. Len(rows) + 1 /\ L \in Nat /\ Len(rows) \in Nat
      /\ \A n \in 1 .. L : states[n].in \in Seq(Reading(P)) /\ states[n].out \in Seq(Reading(P))
      /\ states[1] = Blank
      /\ \A n \in 1 .. L - 1 :
            ~Throws(states[n], rows[n]) /\ states[n + 1] = Applied(states[n], rows[n])
  <2>1. /\ states \in Seq(State(P)) /\ L \in 1 .. Len(rows) + 1 /\ states[1] = Blank
        /\ \A n \in 1 .. L - 1 :
            ~Throws(states[n], rows[n]) /\ states[n + 1] = Applied(states[n], rows[n])
    BY DEF IsReplay
  <2>2. \A n \in 1 .. L : states[n] \in State(P)
    BY <2>1
  <2>3. \A n \in 1 .. L : states[n].in \in Seq(Reading(P)) /\ states[n].out \in Seq(Reading(P))
    BY <2>2 DEF State
  <2>4. L \in Nat /\ Len(rows) \in Nat
    BY <2>1
  <2>. HIDE DEF L
  <2>. QED  BY <2>1, <2>3, <2>4
<1>2. /\ Len(ins) = L /\ Len(outs) = L
      /\ \A n \in 1 .. L : ins[n] = states[n].in /\ outs[n] = states[n].out
      /\ \A n \in 1 .. L - 1 : n \in 1 .. L /\ n + 1 \in 1 .. L
      /\ 1 \in 1 .. L
  BY <1>1
<1>3. IsSide(InAdd, InRem, InChg) /\ IsSide(OutAdd, OutRem, OutChg)
  BY DEF IsSide, InAdd, InRem, InChg, OutAdd, OutRem, OutChg
<1>4. \A e : /\ AddsIn(e) <=> e.type \in InAdd
             /\ RemovesIn(e) <=> e.type \in InRem
             /\ ChangesIn(e) <=> e.type \in InChg
             /\ AddsOut(e) <=> e.type \in OutAdd
             /\ RemovesOut(e) <=> e.type \in OutRem
             /\ ChangesOut(e) <=> e.type \in OutChg
  BY DEF AddsIn, RemovesIn, ChangesIn, AddsOut, RemovesOut, ChangesOut,
         InAdd, InRem, InChg, OutAdd, OutRem, OutChg
<1>5. ASSUME NEW S, NEW e, ~Throws(S, e)
      PROVE  LET T == Applied(S, e)
             IN  /\ AddsIn(e) => T.in = Append(S.in, NewReading(e))
                 /\ RemovesIn(e) => T.in = Removed(S.in, e.person)
                 /\ ChangesIn(e) => IsRead(S.in, e.person) /\ T.in = Changed(S.in, e)
                 /\ ~AddsIn(e) /\ ~RemovesIn(e) /\ ~ChangesIn(e) => T.in = S.in
                 /\ AddsOut(e) => T.out = Append(S.out, NewReading(e))
                 /\ RemovesOut(e) => T.out = Removed(S.out, e.person)
                 /\ ChangesOut(e) => IsRead(S.out, e.person) /\ T.out = Changed(S.out, e)
                 /\ ~AddsOut(e) /\ ~RemovesOut(e) /\ ~ChangesOut(e) => T.out = S.out
  <2>1. /\ Applied(S, e).in = CASE AddsIn(e) -> Append(S.in, NewReading(e))
                                [] RemovesIn(e) -> Removed(S.in, e.person)
                                [] ChangesIn(e) -> Changed(S.in, e)
                                [] OTHER -> S.in
        /\ Applied(S, e).out = CASE AddsOut(e) -> Append(S.out, NewReading(e))
                                 [] RemovesOut(e) -> Removed(S.out, e.person)
                                 [] ChangesOut(e) -> Changed(S.out, e)
                                 [] OTHER -> S.out
    BY DEF Applied
  <2>2. /\ AddsIn(e) => ~RemovesIn(e) /\ ~ChangesIn(e)
        /\ RemovesIn(e) => ~ChangesIn(e)
        /\ AddsOut(e) => ~RemovesOut(e) /\ ~ChangesOut(e)
        /\ RemovesOut(e) => ~ChangesOut(e)
    BY <1>3, <1>4 DEF IsSide
  <2>3. /\ ChangesIn(e) => IsRead(S.in, e.person)
        /\ ChangesOut(e) => IsRead(S.out, e.person)
    BY <1>5 DEF Throws
  <2>. QED  BY <2>1, <2>2, <2>3
<1>. HIDE DEF ins, outs, L
<1>6. ASSUME NEW n \in 1 .. L - 1
      PROVE  LET e == rows[n]
             IN  /\ e.type \in InAdd => ins[n + 1] = Append(ins[n], NewReading(e))
                 /\ e.type \in InRem => ins[n + 1] = Removed(ins[n], e.person)
                 /\ e.type \in InChg => IsRead(ins[n], e.person) /\ ins[n + 1] = Changed(ins[n], e)
                 /\ e.type \notin InAdd \cup InRem \cup InChg => ins[n + 1] = ins[n]
                 /\ e.type \in OutAdd => outs[n + 1] = Append(outs[n], NewReading(e))
                 /\ e.type \in OutRem => outs[n + 1] = Removed(outs[n], e.person)
                 /\ e.type \in OutChg => IsRead(outs[n], e.person) /\ outs[n + 1] = Changed(outs[n], e)
                 /\ e.type \notin OutAdd \cup OutRem \cup OutChg => outs[n + 1] = outs[n]
  <2>. DEFINE e == rows[n]
              S == states[n]
              T == Applied(S, e)
  <2>1. /\ ~Throws(S, e) /\ ins[n] = S.in /\ outs[n] = S.out
        /\ ins[n + 1] = T.in /\ outs[n + 1] = T.out
    BY <1>1, <1>2
  <2>2. /\ AddsIn(e) => T.in = Append(S.in, NewReading(e))
        /\ RemovesIn(e) => T.in = Removed(S.in, e.person)
        /\ ChangesIn(e) => IsRead(S.in, e.person) /\ T.in = Changed(S.in, e)
        /\ ~AddsIn(e) /\ ~RemovesIn(e) /\ ~ChangesIn(e) => T.in = S.in
        /\ AddsOut(e) => T.out = Append(S.out, NewReading(e))
        /\ RemovesOut(e) => T.out = Removed(S.out, e.person)
        /\ ChangesOut(e) => IsRead(S.out, e.person) /\ T.out = Changed(S.out, e)
        /\ ~AddsOut(e) /\ ~RemovesOut(e) /\ ~ChangesOut(e) => T.out = S.out
    BY <1>5, <2>1
  <2>. HIDE DEF T, S
  <2>. QED  BY <1>4, <2>1, <2>2
<1>7. ins[1] = <<>> /\ outs[1] = <<>>
  BY <1>1, <1>2 DEF Blank
<1>8. IsListReplay(ins, P, rows, InAdd, InRem, InChg)
  BY <1>1, <1>2, <1>3, <1>6, <1>7 DEF IsListReplay
<1>9. IsListReplay(outs, P, rows, OutAdd, OutRem, OutChg)
  BY <1>1, <1>2, <1>3, <1>6, <1>7 DEF IsListReplay
<1>. QED  BY <1>8, <1>9 DEF ins, outs, L

\* Every change of time finds a reading to change.
Replayable(rows, add, rem, chg) ==
    \A n \in 1 .. Len(rows) :
        rows[n].type \in chg => Live(rows, add, rem, n, rows[n].person) # {}

\* What the readings of a list, after all the rows, say of them.
ReadsFrom(list, rows, add, rem, chg) ==
    \A q : /\ IsRead(list, q) <=> Live(rows, add, rem, Len(rows) + 1, q) # {}
           /\ Cardinality(Readings(list, q)) = Cardinality(Live(rows, add, rem, Len(rows) + 1, q))
           /\ IsRead(list, q) =>
                 HasTime(FirstReading(list, q).at, q, rows, add, rem, chg, Len(rows) + 1)

\* When rows can be replayed, and to what.
LEMMA ReplayedRows ==
    ASSUME NEW P, NEW rows \in Seq(EventRow(P))
    PROVE  LET states == States(rows)
               S == states[Len(states)]
           IN  /\ Replays(rows) <=> /\ Replayable(rows, InAdd, InRem, InChg)
                                    /\ Replayable(rows, OutAdd, OutRem, OutChg)
               /\ S \in State(P)
               /\ Replays(rows) => /\ ReadsFrom(S.in, rows, InAdd, InRem, InChg)
                                   /\ ReadsFrom(S.out, rows, OutAdd, OutRem, OutChg)
<1>. DEFINE states == States(rows)
            L == Len(states)
            N == Len(rows)
            ins == [n \in 1 .. L |-> states[n].in]
            outs == [n \in 1 .. L |-> states[n].out]
<1>1. IsReplay(states, P, rows)
  BY StatesReplay
<1>. HIDE DEF states
<1>2. /\ IsListReplay(ins, P, rows, InAdd, InRem, InChg)
      /\ IsListReplay(outs, P, rows, OutAdd, OutRem, OutChg)
  BY <1>1, ReplayedLists
<1>3. /\ L \in 1 .. N + 1 /\ N \in Nat /\ states \in Seq(State(P))
      /\ \A i \in 1 .. L - 1 : ~Throws(states[i], rows[i])
      /\ L <= N => Throws(states[L], rows[L])
  BY <1>1 DEF IsReplay
<1>4. /\ Len(ins) = L /\ Len(outs) = L
      /\ \A n \in 1 .. L : ins[n] = states[n].in /\ outs[n] = states[n].out
  BY <1>3
<1>. HIDE DEF ins, outs, L
<1>5. ASSUME NEW n \in 1 .. L, NEW q
      PROVE  /\ IsRead(states[n].in, q) <=> Live(rows, InAdd, InRem, n, q) # {}
             /\ Cardinality(Readings(states[n].in, q)) = Cardinality(Live(rows, InAdd, InRem, n, q))
             /\ IsRead(states[n].in, q) =>
                   HasTime(FirstReading(states[n].in, q).at, q, rows, InAdd, InRem, InChg, n)
             /\ IsRead(states[n].out, q) <=> Live(rows, OutAdd, OutRem, n, q) # {}
             /\ Cardinality(Readings(states[n].out, q)) = Cardinality(Live(rows, OutAdd, OutRem, n, q))
             /\ IsRead(states[n].out, q) =>
                   HasTime(FirstReading(states[n].out, q).at, q, rows, OutAdd, OutRem, OutChg, n)
  <2>1. /\ ins[n] = states[n].in /\ outs[n] = states[n].out
        /\ n \in 1 .. Len(ins) /\ n \in 1 .. Len(outs)
    BY <1>4
  <2>2. /\ IsRead(ins[n], q) <=> Live(rows, InAdd, InRem, n, q) # {}
        /\ Cardinality(Readings(ins[n], q)) = Cardinality(Live(rows, InAdd, InRem, n, q))
        /\ IsRead(ins[n], q) => HasTime(FirstReading(ins[n], q).at, q, rows, InAdd, InRem, InChg, n)
    BY <1>2, <2>1, ListReads
  <2>3. /\ IsRead(outs[n], q) <=> Live(rows, OutAdd, OutRem, n, q) # {}
        /\ Cardinality(Readings(outs[n], q)) = Cardinality(Live(rows, OutAdd, OutRem, n, q))
        /\ IsRead(outs[n], q) => HasTime(FirstReading(outs[n], q).at, q, rows, OutAdd, OutRem, OutChg, n)
    BY <1>2, <2>1, ListReads
  <2>. QED  BY <2>1, <2>2, <2>3
<1>6. \A e, n : n \in 1 .. L =>
         (Throws(states[n], e) <=>
            \/ e.type \in InChg /\ Live(rows, InAdd, InRem, n, e.person) = {}
            \/ e.type \in OutChg /\ Live(rows, OutAdd, OutRem, n, e.person) = {})
  BY <1>5 DEF Throws, ChangesIn, ChangesOut, InChg, OutChg
<1>7. Replays(rows) <=> L = N + 1
  BY DEF Replays, L, states
<1>8. ASSUME Replays(rows)
      PROVE  Replayable(rows, InAdd, InRem, InChg) /\ Replayable(rows, OutAdd, OutRem, OutChg)
  <2>1. \A n \in 1 .. N : n \in 1 .. L /\ ~Throws(states[n], rows[n])
    BY <1>3, <1>7, <1>8
  <2>. QED  BY <1>6, <2>1 DEF Replayable
<1>9. ASSUME Replayable(rows, InAdd, InRem, InChg), Replayable(rows, OutAdd, OutRem, OutChg)
      PROVE  Replays(rows)
  <2>1. L <= N => L \in 1 .. N /\ L \in 1 .. L
    BY <1>3
  <2>2. ~(L <= N)
    BY <1>3, <1>6, <1>9, <2>1 DEF Replayable
  <2>. QED  BY <1>3, <1>7, <2>2
<1>10. states[L] \in State(P)
  BY <1>3 DEF L
<1>11. ASSUME Replays(rows)
       PROVE  /\ ReadsFrom(states[L].in, rows, InAdd, InRem, InChg)
              /\ ReadsFrom(states[L].out, rows, OutAdd, OutRem, OutChg)
  <2>1. L \in 1 .. L /\ L = Len(rows) + 1
    BY <1>3, <1>7, <1>11
  <2>. QED  BY <1>5, <2>1 DEF ReadsFrom
<1>. QED  BY <1>8, <1>9, <1>10, <1>11 DEF states, L
-----------------------------------------------------------------------------
(* A row takes its place among others.                                     *)

\* new is rows with e at h: phi tells where in new the rows are, and where the
\* place behind the last one is.
Shifts(phi, h, new, rows, e) ==
    /\ phi \in [1 .. Len(rows) + 1 -> 1 .. Len(rows) + 2]
    /\ phi[Len(rows) + 1] = Len(rows) + 2
    /\ Len(new) = Len(rows) + 1
    /\ h \in 1 .. Len(rows) + 1 /\ new[h] = e
    /\ \A i \in 1 .. Len(rows) + 1 : phi[i] # h
    /\ \A i, j \in 1 .. Len(rows) + 1 : i < j => phi[i] < phi[j]
    /\ \A i \in 1 .. Len(rows) :
          new[phi[i]] = rows[i] /\ (phi[i] < h <=> rows[i].at <= e.at)
    /\ \A j \in 1 .. Len(rows) + 1 : j = h \/ \E i \in 1 .. Len(rows) : phi[i] = j

\* Storing a row shifts those behind its place.
LEMMA StoredShifts ==
    ASSUME NEW P, NEW rows \in SortedRows(P), NEW e \in EventRow(P)
    PROVE  \E phi : \E h : Shifts(phi, h, Stored(rows, e), rows, e)
<1>. DEFINE N == Len(rows)
            new == Stored(rows, e)
<1>1. rows \in Seq(EventRow(P)) /\ Sorted(rows) /\ N \in Nat
  BY DEF SortedRows
<1>2. PICK k : InsertedAt(k, new, P, rows, e)
  BY <1>1, StoredInserts
<1>. HIDE DEF new
<1>3. /\ k \in 0 .. N
      /\ Len(new) = N + 1
      /\ \A i \in 1 .. k : new[i] = rows[i] /\ rows[i].at <= e.at
      /\ new[k + 1] = e
      /\ \A i \in k + 1 .. N : new[i + 1] = rows[i] /\ rows[i].at > e.at
  BY <1>2 DEF InsertedAt
<1>. HIDE DEF N
<1>4. e.at \in Nat /\ \A i \in 1 .. N : rows[i].at \in Nat
  <2>1. \A i \in 1 .. N : rows[i] \in EventRow(P)
    BY <1>1 DEF N
  <2>. QED  BY <2>1 DEF EventRow
<1>. DEFINE phi == [i \in 1 .. N + 1 |-> IF i <= k THEN i ELSE i + 1]
            h == k + 1
<1>5. /\ phi \in [1 .. N + 1 -> 1 .. N + 2]
      /\ phi[N + 1] = N + 2
      /\ \A i \in 1 .. N + 1 : phi[i] = IF i <= k THEN i ELSE i + 1
  BY <1>1, <1>3
<1>. HIDE DEF phi
<1>6. /\ h \in 1 .. N + 1 /\ new[h] = e
      /\ \A i \in 1 .. N + 1 : phi[i] # h
      /\ \A i, j \in 1 .. N + 1 : i < j => phi[i] < phi[j]
  <2>1. h \in 1 .. N + 1 /\ new[h] = e
    BY <1>1, <1>3
  <2>2. ASSUME NEW i \in 1 .. N + 1 PROVE phi[i] # h
    BY <1>1, <1>3, <1>5
  <2>3. ASSUME NEW i \in 1 .. N + 1, NEW j \in 1 .. N + 1, i < j PROVE phi[i] < phi[j]
    <3>1. /\ phi[i] = IF i <= k THEN i ELSE i + 1
          /\ phi[j] = IF j <= k THEN j ELSE j + 1
      BY <1>5
    <3>. QED  BY <1>1, <1>3, <2>3, <3>1
  <2>. QED  BY <2>1, <2>2, <2>3
<1>7. ASSUME NEW i \in 1 .. N
      PROVE  new[phi[i]] = rows[i] /\ (phi[i] < h <=> rows[i].at <= e.at)
  <2>1. CASE i <= k
    BY <1>1, <1>3, <1>5, <2>1
  <2>2. CASE ~(i <= k)
    <3>1. i \in k + 1 .. N /\ phi[i] = i + 1 /\ ~(i + 1 < h)
      BY <1>1, <1>3, <1>5, <2>2
    <3>2. new[i + 1] = rows[i] /\ rows[i].at > e.at
      BY <1>3, <3>1
    <3>. QED  BY <1>4, <3>1, <3>2
  <2>. QED  BY <2>1, <2>2
<1>8. ASSUME NEW j \in 1 .. N + 1, j # h
      PROVE  \E i \in 1 .. N : phi[i] = j
  <2>1. CASE j <= k
    <3>1. j \in 1 .. N /\ phi[j] = j
      BY <1>1, <1>3, <1>5, <2>1
    <3>. QED  BY <3>1
  <2>2. CASE ~(j <= k)
    <3>1. j - 1 \in 1 .. N /\ phi[j - 1] = j
      BY <1>1, <1>3, <1>5, <1>8, <2>2
    <3>. QED  BY <3>1
  <2>. QED  BY <2>1, <2>2
<1>. HIDE DEF h
<1>9. Shifts(phi, h, new, rows, e)
  BY <1>3, <1>5, <1>6, <1>7, <1>8 DEF Shifts, N
<1>. QED  BY <1>9 DEF new

\* The same of the places U before one of the rows, and V before it in new.
Embeds(phi, h, U, V, new, rows, e) ==
    /\ new[h] = e
    /\ \A i \in U : /\ phi[i] \in V /\ phi[i] # h /\ new[phi[i]] = rows[i]
                    /\ phi[i] < h \/ h < phi[i]
                    /\ ~(phi[i] < h /\ h < phi[i])
    /\ \A i, j \in U : i < j <=> phi[i] < phi[j]
    /\ \A j \in V : j = h \/ \E i \in U : phi[i] = j
    /\ ~(h < h)

\* Up to any row, and to the end, the old rows are found among the new.
LEMMA ShiftsEmbed ==
    ASSUME NEW T, NEW rows \in Seq(T), NEW e, NEW new, NEW phi, NEW h, Shifts(phi, h, new, rows, e),
           NEW n \in 1 .. Len(rows) + 1
    PROVE  /\ Embeds(phi, h, 1 .. n - 1, 1 .. phi[n] - 1, new, rows, e)
           /\ h \in 1 .. phi[n] - 1 <=> h < phi[n]
<1>. DEFINE N == Len(rows)
            U == 1 .. n - 1
            V == 1 .. phi[n] - 1
<1>1. /\ N \in Nat
      /\ phi \in [1 .. N + 1 -> 1 .. N + 2]
      /\ h \in 1 .. N + 1 /\ new[h] = e
      /\ \A i \in 1 .. N + 1 : phi[i] # h
      /\ \A i, j \in 1 .. N + 1 : i < j => phi[i] < phi[j]
      /\ \A i \in 1 .. N : new[phi[i]] = rows[i]
      /\ \A j \in 1 .. N + 1 : j = h \/ \E i \in 1 .. N : phi[i] = j
  BY DEF Shifts
<1>2. n \in 1 .. N + 1 /\ phi[n] \in 1 .. N + 2
  BY <1>1
<1>. HIDE DEF N
<1>3. \A i \in U : i \in 1 .. N /\ i \in 1 .. N + 1 /\ i < n /\ i \in Int
  BY <1>1, <1>2
<1>4. h \in V <=> h < phi[n]
  BY <1>1, <1>2
<1>5. \A i \in U : phi[i] \in V /\ phi[i] \in Int
  <2>1. \A i \in U : phi[i] \in 1 .. N + 2 /\ phi[i] < phi[n]
    BY <1>1, <1>2, <1>3
  <2>. QED  BY <1>1, <1>2, <2>1
<1>6. \A i, j \in U : i < j <=> phi[i] < phi[j]
  <2>. SUFFICES ASSUME NEW i \in U, NEW j \in U PROVE i < j <=> phi[i] < phi[j]
    OBVIOUS
  <2>1. i \in Int /\ j \in Int /\ phi[i] \in Int /\ phi[j] \in Int
    BY <1>3, <1>5
  <2>2. i < j \/ i = j \/ j < i
    BY <2>1
  <2>3. /\ i < j => phi[i] < phi[j]
        /\ j < i => phi[j] < phi[i]
    BY <1>1, <1>3
  <2>. QED  BY <2>1, <2>2, <2>3
<1>7. ASSUME NEW j \in V, j # h
      PROVE  \E i \in U : phi[i] = j
  <2>1. j \in 1 .. N + 1 /\ j < phi[n] /\ j \in Int
    BY <1>1, <1>2
  <2>2. PICK i \in 1 .. N : phi[i] = j
    BY <1>1, <1>7, <2>1
  <2>3. i \in 1 .. N + 1 /\ i < n
    <3>1. i \in 1 .. N + 1 /\ (i < n \/ i = n \/ n < i)
      BY <1>1, <1>2
    <3>2. n < i => phi[n] < phi[i]
      BY <1>1, <1>2, <3>1
    <3>. QED  BY <1>2, <2>1, <2>2, <3>1, <3>2
  <2>4. i \in U
    BY <1>2, <2>3
  <2>. QED  BY <2>2, <2>4
<1>8. ~(h < h)
  BY <1>1
<1>9. \A i \in U : /\ phi[i] # h /\ new[phi[i]] = rows[i]
                   /\ phi[i] < h \/ h < phi[i]
                   /\ ~(phi[i] < h /\ h < phi[i])
  <2>1. \A i \in U : phi[i] # h /\ new[phi[i]] = rows[i] /\ phi[i] \in Int
    BY <1>1, <1>3, <1>5
  <2>. QED  BY <1>1, <2>1
<1>. HIDE DEF U, V
<1>10. Embeds(phi, h, U, V, new, rows, e)
  BY <1>1, <1>5, <1>6, <1>7, <1>8, <1>9 DEF Embeds
<1>. QED  BY <1>4, <1>10 DEF U, V

\* Which rows are live before a row, when e has taken its place.
LiveShifts(phi, h, new, rows, e, add, rem, n, q) ==
    /\ \A i \in Live(rows, add, rem, n, q) :
          \/ phi[i] \in Live(new, add, rem, phi[n], q)
          \/ e.type \in rem /\ e.person = q /\ phi[i] < h /\ h < phi[n]
    /\ \A j \in Live(new, add, rem, phi[n], q) :
          \/ j = h /\ h < phi[n] /\ e.type \in add /\ e.person = q
          \/ \E i \in Live(rows, add, rem, n, q) : j = phi[i]
    /\ h \in Live(new, add, rem, phi[n], q) =>
          \A i \in 1 .. n - 1 :
             h < phi[i] /\ rows[i].type \in rem => rows[i].person # q

\* The readings up to a row, after the insertion.
LEMMA ShiftedLive ==
    ASSUME NEW T, NEW rows \in Seq(T), NEW e, NEW new, NEW phi, NEW h, Shifts(phi, h, new, rows, e),
           NEW n \in 1 .. Len(rows) + 1, NEW add, NEW rem, add \cap rem = {}, NEW q
    PROVE  LiveShifts(phi, h, new, rows, e, add, rem, n, q)
<1>. DEFINE U == 1 .. n - 1
            V == 1 .. phi[n] - 1
<1>1. /\ Embeds(phi, h, U, V, new, rows, e)
      /\ h \in V <=> h < phi[n]
  BY ShiftsEmbed
<1>2. /\ new[h] = e
      /\ \A i \in U : /\ phi[i] \in V /\ phi[i] # h /\ new[phi[i]] = rows[i]
                      /\ phi[i] < h \/ h < phi[i]
                      /\ ~(phi[i] < h /\ h < phi[i])
      /\ \A i, j \in U : i < j <=> phi[i] < phi[j]
      /\ \A j \in V : j = h \/ \E i \in U : phi[i] = j
      /\ ~(h < h)
  BY <1>1 DEF Embeds
<1>3. /\ \A i : i \in Live(rows, add, rem, n, q) <=>
            /\ i \in U /\ rows[i].type \in add /\ rows[i].person = q
            /\ \A j \in U : i < j /\ rows[j].type \in rem => rows[j].person # q
      /\ \A i : i \in Live(new, add, rem, phi[n], q) <=>
            /\ i \in V /\ new[i].type \in add /\ new[i].person = q
            /\ \A j \in V : i < j /\ new[j].type \in rem => new[j].person # q
  BY DEF Live
<1>. HIDE DEF U, V
<1>4. ASSUME NEW i \in Live(rows, add, rem, n, q),
             ~(e.type \in rem /\ e.person = q /\ phi[i] < h /\ h < phi[n])
      PROVE  phi[i] \in Live(new, add, rem, phi[n], q)
  <2>1. /\ i \in U /\ rows[i].type \in add /\ rows[i].person = q
        /\ \A j \in U : i < j /\ rows[j].type \in rem => rows[j].person # q
    BY <1>3, <1>4
  <2>2. phi[i] \in V /\ new[phi[i]] = rows[i]
    BY <1>2, <2>1
  <2>3. ASSUME NEW j \in V, phi[i] < j, new[j].type \in rem
        PROVE  new[j].person # q
    <3>1. CASE j = h
      BY <1>1, <1>2, <1>4, <2>3, <3>1
    <3>2. CASE j # h
      <4>1. PICK l \in U : phi[l] = j
        BY <1>2, <3>2
      <4>. QED  BY <1>2, <2>1, <2>3, <4>1
    <3>. QED  BY <3>1, <3>2
  <2>. QED  BY <1>3, <2>1, <2>2, <2>3
<1>5. ASSUME NEW j \in Live(new, add, rem, phi[n], q), j # h
      PROVE  \E i \in Live(rows, add, rem, n, q) : j = phi[i]
  <2>1. /\ j \in V /\ new[j].type \in add /\ new[j].person = q
        /\ \A l \in V : j < l /\ new[l].type \in rem => new[l].person # q
    BY <1>3, <1>5
  <2>2. PICK i \in U : phi[i] = j
    BY <1>2, <1>5, <2>1
  <2>3. \A l \in U : i < l /\ rows[l].type \in rem => rows[l].person # q
    BY <1>2, <2>1, <2>2
  <2>4. i \in Live(rows, add, rem, n, q)
    BY <1>2, <1>3, <2>1, <2>2, <2>3
  <2>. QED  BY <2>2, <2>4
<1>6. ASSUME h \in Live(new, add, rem, phi[n], q)
      PROVE  /\ h < phi[n] /\ e.type \in add /\ e.person = q
             /\ \A i \in U : h < phi[i] /\ rows[i].type \in rem => rows[i].person # q
  <2>1. /\ h \in V /\ new[h].type \in add /\ new[h].person = q
        /\ \A l \in V : h < l /\ new[l].type \in rem => new[l].person # q
    BY <1>3, <1>6
  <2>. QED  BY <1>1, <1>2, <2>1
<1>. QED  BY <1>4, <1>5, <1>6 DEF U, LiveShifts

\* ... and the times of their readings.
TimeShifts(phi, h, new, rows, e, chg, n, q) ==
    /\ ~(e.type \in chg /\ e.person = q) =>
          \A i \in 1 .. n - 1 : \A t :
              IsReadTime(t, phi[i], q, new, chg, phi[n]) => IsReadTime(t, i, q, rows, chg, n)
    /\ e.type \in chg /\ e.person = q /\ h < phi[n]
       /\ (\A i \in 1 .. n - 1 : phi[i] < h) =>
          \A i \in 1 .. n - 1 : \A t :
              IsReadTime(t, phi[i], q, new, chg, phi[n]) => t = e.time
    /\ e.type \notin chg
       /\ (\A i \in 1 .. n - 1 : h < phi[i] /\ rows[i].type \in chg => rows[i].person # q) =>
          \A t : IsReadTime(t, h, q, new, chg, phi[n]) => t = e.at

\* The time of a reading, after the insertion.
LEMMA ShiftedTime ==
    ASSUME NEW T, NEW rows \in Seq(T), NEW e, NEW new, NEW phi, NEW h, Shifts(phi, h, new, rows, e),
           NEW n \in 1 .. Len(rows) + 1, NEW chg, NEW q
    PROVE  TimeShifts(phi, h, new, rows, e, chg, n, q)
<1>. DEFINE U == 1 .. n - 1
            V == 1 .. phi[n] - 1
<1>1. /\ Embeds(phi, h, U, V, new, rows, e)
      /\ h \in V <=> h < phi[n]
  BY ShiftsEmbed
<1>2. /\ new[h] = e
      /\ \A i \in U : /\ phi[i] \in V /\ phi[i] # h /\ new[phi[i]] = rows[i]
                      /\ phi[i] < h \/ h < phi[i]
                      /\ ~(phi[i] < h /\ h < phi[i])
      /\ \A i, j \in U : i < j <=> phi[i] < phi[j]
      /\ \A j \in V : j = h \/ \E i \in U : phi[i] = j
      /\ ~(h < h)
  BY <1>1 DEF Embeds
<1>3. /\ \A i, t : IsReadTime(t, i, q, rows, chg, n) <=>
            \/ /\ t = rows[i].at
               /\ \A c \in U : i < c /\ rows[c].type \in chg => rows[c].person # q
            \/ \E c \in U :
                  /\ i < c /\ rows[c].type \in chg /\ rows[c].person = q /\ t = rows[c].time
                  /\ \A d \in U : c < d /\ rows[d].type \in chg => rows[d].person # q
      /\ \A i, t : IsReadTime(t, i, q, new, chg, phi[n]) <=>
            \/ /\ t = new[i].at
               /\ \A c \in V : i < c /\ new[c].type \in chg => new[c].person # q
            \/ \E c \in V :
                  /\ i < c /\ new[c].type \in chg /\ new[c].person = q /\ t = new[c].time
                  /\ \A d \in V : c < d /\ new[d].type \in chg => new[d].person # q
  BY DEF IsReadTime
<1>. HIDE DEF U, V
<1>4. ASSUME ~(e.type \in chg /\ e.person = q), NEW i \in U, NEW t,
             IsReadTime(t, phi[i], q, new, chg, phi[n])
      PROVE  IsReadTime(t, i, q, rows, chg, n)
  <2>1. CASE /\ t = new[phi[i]].at
             /\ \A c \in V : phi[i] < c /\ new[c].type \in chg => new[c].person # q
    <3>1. t = rows[i].at
      BY <1>2, <2>1
    <3>2. \A c \in U : i < c /\ rows[c].type \in chg => rows[c].person # q
      BY <1>2, <2>1
    <3>. QED  BY <1>3, <3>1, <3>2
  <2>2. ASSUME NEW c \in V, phi[i] < c, new[c].type \in chg, new[c].person = q, t = new[c].time,
               \A d \in V : c < d /\ new[d].type \in chg => new[d].person # q
        PROVE  IsReadTime(t, i, q, rows, chg, n)
    <3>1. PICK k \in U : phi[k] = c
      BY <1>2, <1>4, <2>2
    <3>2. i < k /\ rows[k].type \in chg /\ rows[k].person = q /\ t = rows[k].time
      BY <1>2, <2>2, <3>1
    <3>3. \A d \in U : k < d /\ rows[d].type \in chg => rows[d].person # q
      BY <1>2, <2>2, <3>1
    <3>. QED  BY <1>3, <3>2, <3>3
  <2>. QED  BY <1>3, <1>4, <2>1, <2>2
<1>5. ASSUME e.type \in chg, e.person = q, h < phi[n], \A i \in U : phi[i] < h,
             NEW i \in U, NEW t, IsReadTime(t, phi[i], q, new, chg, phi[n])
      PROVE  t = e.time
  <2>1. h \in V /\ new[h].type \in chg /\ new[h].person = q /\ phi[i] < h
    BY <1>1, <1>2, <1>5
  <2>2. PICK c \in V : /\ new[c].type \in chg /\ t = new[c].time
                       /\ \A d \in V : c < d /\ new[d].type \in chg => new[d].person # q
    BY <1>3, <1>5, <2>1
  <2>3. c = h
    BY <1>2, <1>5, <2>1, <2>2
  <2>. QED  BY <1>2, <2>2, <2>3
<1>6. ASSUME e.type \notin chg,
             \A i \in U : h < phi[i] /\ rows[i].type \in chg => rows[i].person # q,
             NEW t, IsReadTime(t, h, q, new, chg, phi[n])
      PROVE  t = e.at
  <2>1. \A c \in V : h < c /\ new[c].type \in chg => new[c].person # q
    BY <1>2, <1>6
  <2>. QED  BY <1>2, <1>3, <1>6, <2>1
<1>. QED  BY <1>4, <1>5, <1>6 DEF U, TimeShifts

\* A person's first reading has one time.
LEMMA TimeIsOne ==
    ASSUME NEW rows, NEW add, NEW rem, NEW chg, NEW n \in Nat, NEW q,
           NEW t, NEW u, HasTime(t, q, rows, add, rem, chg, n), HasTime(u, q, rows, add, rem, chg, n)
    PROVE  t = u
<1>1. PICK i \in Live(rows, add, rem, n, q) :
          /\ \A j \in Live(rows, add, rem, n, q) : i <= j
          /\ IsReadTime(t, i, q, rows, chg, n)
  BY DEF HasTime
<1>2. PICK k \in Live(rows, add, rem, n, q) :
          /\ \A j \in Live(rows, add, rem, n, q) : k <= j
          /\ IsReadTime(u, k, q, rows, chg, n)
  BY DEF HasTime
<1>3. i \in 1 .. n - 1 /\ k \in 1 .. n - 1
  BY DEF Live
<1>4. i = k
  BY <1>1, <1>2, <1>3
<1>. DEFINE U == 1 .. n - 1
            At(x) == /\ x = rows[i].at
                     /\ \A c \in U : i < c /\ rows[c].type \in chg => rows[c].person # q
            By(x, c) == /\ i < c /\ rows[c].type \in chg /\ rows[c].person = q /\ x = rows[c].time
                        /\ \A d \in U : c < d /\ rows[d].type \in chg => rows[d].person # q
<1>5. /\ At(t) \/ \E c \in U : By(t, c)
      /\ At(u) \/ \E c \in U : By(u, c)
  BY <1>1, <1>2, <1>4 DEF IsReadTime
<1>6. \A c, d \in U : c < d \/ c = d \/ d < c
  OBVIOUS
<1>. HIDE DEF U
<1>7. ~(At(t) /\ \E c \in U : By(u, c)) /\ ~(At(u) /\ \E c \in U : By(t, c))
  OBVIOUS
<1>8. ASSUME NEW c \in U, NEW d \in U, By(t, c), By(u, d)
      PROVE  t = u
  BY <1>6, <1>8
<1>. QED  BY <1>5, <1>7, <1>8

-----------------------------------------------------------------------------
(* What a row stored among others does to the readings.                    *)

\* The rows that q's readings come from, and the time of the first.
Reads(rows, add, rem, q) == Live(rows, add, rem, Len(rows) + 1, q)

ReadAt(t, q, rows, add, rem, chg) == HasTime(t, q, rows, add, rem, chg, Len(rows) + 1)

\* Who has a reading.
LEMMA ReadsStored ==
    ASSUME NEW T, NEW rows \in Seq(T), NEW e, NEW new, NEW phi, NEW h, Shifts(phi, h, new, rows, e),
           NEW add, NEW rem, NEW chg, IsSide(add, rem, chg), NEW q
    PROVE  /\ ~(e.type \in rem /\ e.person = q) /\ Reads(rows, add, rem, q) # {} =>
                 Reads(new, add, rem, q) # {}
           /\ ~(e.type \in add /\ e.person = q) /\ Reads(new, add, rem, q) # {} =>
                 Reads(rows, add, rem, q) # {}
<1>. DEFINE n == Len(rows) + 1
<1>1. n \in 1 .. Len(rows) + 1 /\ phi[n] = Len(new) + 1
  BY DEF Shifts
<1>. HIDE DEF n
<1>2. add \cap rem = {}
  BY DEF IsSide
<1>3. /\ \A i \in Live(rows, add, rem, n, q) :
           \/ phi[i] \in Live(new, add, rem, phi[n], q)
           \/ e.type \in rem /\ e.person = q
      /\ \A j \in Live(new, add, rem, phi[n], q) :
           \/ e.type \in add /\ e.person = q
           \/ \E i \in Live(rows, add, rem, n, q) : j = phi[i]
  <2>1. LiveShifts(phi, h, new, rows, e, add, rem, n, q)
    BY <1>1, <1>2, ShiftedLive
  <2>. QED  BY <2>1 DEF LiveShifts
<1>4. /\ Reads(rows, add, rem, q) = Live(rows, add, rem, n, q)
      /\ Reads(new, add, rem, q) = Live(new, add, rem, phi[n], q)
  BY <1>1 DEF Reads, n
<1>. QED  BY <1>3, <1>4

\* Rows can still be replayed when another is added behind its reading.
LEMMA ReplayableStored ==
    ASSUME NEW T, NEW rows \in Seq(T), NEW e, NEW new, NEW phi, NEW h, Shifts(phi, h, new, rows, e),
           NEW add, NEW rem, NEW chg, IsSide(add, rem, chg), Replayable(rows, add, rem, chg),
           \/ e.type \notin rem \cup chg
           \/ /\ \A i \in 1 .. Len(rows) : rows[i].at <= e.at
              /\ e.type \in chg => Reads(rows, add, rem, e.person) # {}
    PROVE  Replayable(new, add, rem, chg)
<1>. DEFINE N == Len(rows)
<1>1. /\ phi[N + 1] = N + 2 /\ Len(new) = N + 1 /\ N \in Nat
      /\ h \in 1 .. N + 1 /\ new[h] = e
      /\ \A i \in 1 .. N :
            new[phi[i]] = rows[i] /\ (phi[i] < h <=> rows[i].at <= e.at)
      /\ \A j \in 1 .. N + 1 : j = h \/ \E i \in 1 .. N : phi[i] = j
      /\ \A i \in 1 .. N + 1 : phi[i] \in 1 .. N + 2
  BY DEF Shifts
<1>2. add \cap rem = {} /\ rem \cap chg = {} /\ add \cap chg = {}
  BY DEF IsSide
<1>. SUFFICES ASSUME NEW m \in 1 .. N + 1, new[m].type \in chg
              PROVE  Live(new, add, rem, m, new[m].person) # {}
  BY <1>1 DEF Replayable
<1>3. CASE m = h
  <2>. DEFINE q == e.person
  <2>1. /\ e.type \in chg /\ Live(rows, add, rem, N + 1, q) # {}
        /\ \A i \in 1 .. N : rows[i].at <= e.at
    BY <1>1, <1>3 DEF Reads
  <2>2. h = N + 1
    <3>1. N + 1 \in 1 .. N + 1
      BY <1>1
    <3>2. \A i \in 1 .. N : phi[i] < h
      BY <1>1, <2>1
    <3>3. N + 1 = h \/ N + 1 < h
      BY <1>1, <3>1, <3>2
    <3>. QED  BY <1>1, <3>3
  <2>3. Live(new, add, rem, phi[N + 1], q) # {}
    <3>1. N + 1 \in 1 .. Len(rows) + 1 /\ e.type \notin rem
      BY <1>1, <1>2, <2>1
    <3>. HIDE DEF N, q
    <3>2. LiveShifts(phi, h, new, rows, e, add, rem, N + 1, q)
      BY <1>2, <3>1, ShiftedLive
    <3>. QED  BY <2>1, <3>1, <3>2 DEF LiveShifts
  <2>4. phi[N + 1] = h + 1 /\ h \in Nat \ {0}
    BY <1>1, <2>2
  <2>5. \A i : i \in Live(new, add, rem, h + 1, q) =>
                 \/ i = h /\ new[h].type \in add
                 \/ i \in Live(new, add, rem, h, q)
    BY <1>2, <2>4, LiveStep
  <2>6. new[h].type \notin add /\ new[m].person = q
    BY <1>1, <1>2, <1>3, <2>1
  <2>. HIDE DEF q, N
  <2>. QED  BY <1>3, <2>3, <2>4, <2>5, <2>6
<1>4. CASE m # h
  <2>1. PICK n \in 1 .. N : phi[n] = m
    BY <1>1, <1>4
  <2>. DEFINE q == rows[n].person
  <2>2. rows[n].type \in chg /\ new[m].person = q
    BY <1>1, <2>1
  <2>3. Live(rows, add, rem, n, q) # {}
    BY <2>2 DEF Replayable
  <2>4. n \in 1 .. Len(rows) + 1 /\ h \in Int /\ phi[n] \in Int
    BY <1>1, <2>1
  <2>. HIDE DEF q
  <2>5. \A i \in Live(rows, add, rem, n, q) :
           phi[i] \in Live(new, add, rem, phi[n], q) \/ (e.type \in rem /\ h < phi[n])
    <3>1. LiveShifts(phi, h, new, rows, e, add, rem, n, q)
      BY <1>2, <2>4, ShiftedLive
    <3>. QED  BY <3>1 DEF LiveShifts
  <2>6. ~(e.type \in rem /\ h < phi[n])
    <3>1. e.type \in rem => phi[n] < h
      BY <1>1
    <3>. QED  BY <2>4, <3>1
  <2>. QED  BY <2>1, <2>2, <2>3, <2>5, <2>6
<1>. QED  BY <1>3, <1>4

\* Between two rows that add a reading of a person one removes it.
One(rows, add, rem) ==
    \A i, j \in 1 .. Len(rows) :
        /\ i < j /\ rows[i].type \in add /\ rows[j].type \in add
        /\ rows[i].person = rows[j].person
        => \E d \in 1 .. Len(rows) :
               i < d /\ rows[d].type \in rem /\ rows[d].person = rows[i].person

\* Nobody has two readings.
LEMMA OneReads ==
    ASSUME NEW rows, Len(rows) \in Nat, NEW add, NEW rem, One(rows, add, rem), NEW q
    PROVE  /\ \A i, j \in Reads(rows, add, rem, q) : i = j
           /\ Cardinality(Reads(rows, add, rem, q)) <= 1
<1>. DEFINE N == Len(rows)
            R == Reads(rows, add, rem, q)
<1>1. \A i : i \in R <=>
         /\ i \in 1 .. N /\ rows[i].type \in add /\ rows[i].person = q
         /\ \A j \in 1 .. N : i < j /\ rows[j].type \in rem => rows[j].person # q
  <2>1. 1 .. (N + 1) - 1 = 1 .. N
    OBVIOUS
  <2>. QED  BY <2>1 DEF Reads, Live
<1>2. \A i, j \in 1 .. N : i < j \/ i = j \/ j < i
  OBVIOUS
<1>3. ASSUME NEW i \in R, NEW j \in R PROVE i = j
  <2>1. ~(i < j) /\ ~(j < i)
    BY <1>1 DEF One
  <2>. QED  BY <1>1, <1>2, <2>1
<1>. HIDE DEF R
<1>4. Cardinality(R) <= 1
  <2>1. CASE R = {}
    BY <2>1, FS_EmptySet
  <2>2. CASE R # {}
    <3>1. PICK i : i \in R
      BY <2>2
    <3>2. R = {i}
      BY <1>3, <3>1
    <3>3. Cardinality({i}) = 1
      BY FS_Singleton
    <3>. QED  BY <3>2, <3>3
  <2>. QED  BY <2>1, <2>2
<1>. QED  BY <1>3, <1>4 DEF R

\* Nobody has two readings, if a reading is only added to those without one.
LEMMA OneStored ==
    ASSUME NEW T, NEW rows \in Seq(T), NEW e, NEW new, NEW phi, NEW h, Shifts(phi, h, new, rows, e),
           NEW add, NEW rem, One(rows, add, rem),
           e.type \in add => Reads(rows, add, rem, e.person) = {}
    PROVE  One(new, add, rem)
<1>. DEFINE n == Len(rows) + 1
            U == 1 .. n - 1
            V == 1 .. phi[n] - 1
<1>1. /\ n \in 1 .. Len(rows) + 1 /\ n - 1 = Len(rows) /\ phi[n] - 1 = Len(new)
  BY DEF Shifts
<1>2. Embeds(phi, h, U, V, new, rows, e)
  BY <1>1, ShiftsEmbed
<1>3. /\ new[h] = e
      /\ \A i \in U : phi[i] \in V /\ new[phi[i]] = rows[i]
      /\ \A i, j \in U : i < j <=> phi[i] < phi[j]
      /\ \A j \in V : j = h \/ \E i \in U : phi[i] = j
      /\ ~(h < h)
  BY <1>2 DEF Embeds
<1>4. U = 1 .. Len(rows) /\ V = 1 .. Len(new)
  BY <1>1
<1>5. /\ \A i \in U, j \in U :
            i < j /\ rows[i].type \in add /\ rows[j].type \in add /\ rows[i].person = rows[j].person
            => \E d \in U : i < d /\ rows[d].type \in rem /\ rows[d].person = rows[i].person
      /\ \A i \in U : i \in Reads(rows, add, rem, e.person) <=>
            /\ rows[i].type \in add /\ rows[i].person = e.person
            /\ \A j \in U : i < j /\ rows[j].type \in rem => rows[j].person # e.person
  BY <1>4 DEF One, Reads, Live
<1>6. \A i, j, l \in V : i < j /\ j < l => i < l
  <2>1. V \in SUBSET Nat
    BY <1>4
  <2>. QED  BY <2>1
<1>. HIDE DEF n, U, V
<1>7. ASSUME NEW i \in V, NEW j \in V, i < j, new[i].type \in add, new[j].type \in add,
             new[i].person = new[j].person
      PROVE  \E d \in V : i < d /\ new[d].type \in rem /\ new[d].person = new[i].person
  <2>1. CASE i = h
    <3>1. PICK k \in U : phi[k] = j
      BY <1>3, <1>7, <2>1
    <3>2. k \notin Reads(rows, add, rem, e.person) /\ rows[k] = new[j]
      BY <1>3, <1>7, <2>1, <3>1
    <3>3. PICK d \in U : k < d /\ rows[d].type \in rem /\ rows[d].person = e.person
      BY <1>3, <1>5, <1>7, <2>1, <3>2
    <3>4. phi[d] \in V /\ new[phi[d]] = rows[d] /\ j < phi[d]
      BY <1>3, <3>1, <3>3
    <3>. QED  BY <1>3, <1>6, <1>7, <2>1, <3>3, <3>4
  <2>2. CASE i # h
    <3>1. PICK k \in U : phi[k] = i
      BY <1>3, <2>2
    <3>2. rows[k] = new[i]
      BY <1>3, <3>1
    <3>3. \E d \in U : k < d /\ rows[d].type \in rem /\ rows[d].person = rows[k].person
      <4>1. CASE j = h
        BY <1>3, <1>5, <1>7, <3>2, <4>1
      <4>2. CASE j # h
        <5>1. PICK l \in U : phi[l] = j
          BY <1>3, <4>2
        <5>. QED  BY <1>3, <1>5, <1>7, <3>1, <3>2, <5>1
      <4>. QED  BY <4>1, <4>2
    <3>4. PICK d \in U : k < d /\ rows[d].type \in rem /\ rows[d].person = rows[k].person
      BY <3>3
    <3>5. phi[d] \in V /\ new[phi[d]] = rows[d] /\ i < phi[d]
      BY <1>3, <3>1, <3>4
    <3>. QED  BY <3>2, <3>4, <3>5
  <2>. QED  BY <2>1, <2>2
<1>. QED  BY <1>4, <1>7 DEF One

\* What the time of a person's reading is, when a row is stored.
LEMMA ReadAtStored ==
    ASSUME NEW T, NEW rows \in Seq(T), NEW e, NEW new, NEW phi, NEW h, Shifts(phi, h, new, rows, e),
           NEW add, NEW rem, NEW chg, IsSide(add, rem, chg), One(rows, add, rem),
           NEW q, NEW t, ReadAt(t, q, new, add, rem, chg)
    PROVE  /\ ~(e.type \in add \cup chg /\ e.person = q) => ReadAt(t, q, rows, add, rem, chg)
           /\ e.type \in add /\ e.person = q /\ Reads(rows, add, rem, q) = {}
              /\ Replayable(rows, add, rem, chg) => t = e.at
           /\ e.type \in chg /\ e.person = q /\ (\A i \in 1 .. Len(rows) : rows[i].at <= e.at) =>
                 t = e.time
<1>. DEFINE N == Len(rows)
            n == N + 1
<1>1. /\ n \in 1 .. Len(rows) + 1 /\ phi[n] = Len(new) + 1 /\ n - 1 = N /\ N \in Nat
      /\ h < phi[n]
      /\ \A i \in 1 .. N : phi[i] < h <=> rows[i].at <= e.at
      /\ \A i, j \in 1 .. N : i < j => phi[i] < phi[j]
      /\ h \in Int /\ \A i \in 1 .. N : phi[i] \in Int
  BY DEF Shifts
<1>2. add \cap rem = {} /\ rem \cap chg = {} /\ add \cap chg = {}
  BY DEF IsSide
<1>. DEFINE R == Live(rows, add, rem, n, q)
            W == Live(new, add, rem, phi[n], q)
<1>3. R = Reads(rows, add, rem, q) /\ W = Reads(new, add, rem, q)
  BY <1>1 DEF Reads
<1>4. PICK j \in W : IsReadTime(t, j, q, new, chg, phi[n])
  BY <1>1, <1>3 DEF ReadAt, HasTime, Reads
<1>5. LiveShifts(phi, h, new, rows, e, add, rem, n, q)
  <2>. HIDE DEF n
  <2>. QED  BY <1>1, <1>2, ShiftedLive
<1>6. TimeShifts(phi, h, new, rows, e, chg, n, q)
  <2>. HIDE DEF n
  <2>. QED  BY <1>1, ShiftedTime
<1>7. /\ j = h /\ e.type \in add /\ e.person = q
      \/ \E i \in R : j = phi[i]
  BY <1>4, <1>5 DEF LiveShifts
<1>8. \A i \in R : i \in 1 .. N /\ i \in 1 .. n - 1 /\ rows[i].type \in add /\ rows[i].person = q
  BY <1>1 DEF Live
<1>9. ASSUME ~(e.type \in add \cup chg /\ e.person = q)
      PROVE  ReadAt(t, q, rows, add, rem, chg)
  <2>1. PICK i \in R : j = phi[i]
    BY <1>7, <1>9
  <2>2. IsReadTime(t, i, q, rows, chg, n)
    BY <1>4, <1>6, <1>8, <1>9, <2>1 DEF TimeShifts
  <2>3. \A k \in R : i <= k
    BY <1>1, <1>3, <1>8, <2>1, OneReads
  <2>. QED  BY <2>1, <2>2, <2>3 DEF ReadAt, HasTime
<1>10. ASSUME e.type \in add, e.person = q, Reads(rows, add, rem, q) = {},
              Replayable(rows, add, rem, chg)
       PROVE  t = e.at
  <2>1. j = h
    BY <1>3, <1>7, <1>10
  <2>2. \A i \in 1 .. N : h < phi[i] /\ rows[i].type \in rem => rows[i].person # q
    BY <1>1, <1>4, <1>5, <2>1 DEF LiveShifts
  <2>3. \A c \in 1 .. N : h < phi[c] /\ rows[c].type \in chg => rows[c].person # q
    <3>. SUFFICES ASSUME NEW c \in 1 .. N, h < phi[c], rows[c].type \in chg, rows[c].person = q
                  PROVE  FALSE
      OBVIOUS
    <3>1. PICK i : i \in Live(rows, add, rem, c, q)
      BY <1>10 DEF Replayable
    <3>2. /\ i \in 1 .. N /\ rows[i].type \in add /\ rows[i].person = q
          /\ \A d \in 1 .. c - 1 : i < d /\ rows[d].type \in rem => rows[d].person # q
      BY <1>1, <3>1 DEF Live
    <3>3. i \notin R
      BY <1>3, <1>10
    <3>4. PICK d \in 1 .. N : i < d /\ rows[d].type \in rem /\ rows[d].person = q
      BY <1>1, <3>2, <3>3 DEF Live
    <3>5. d \notin 1 .. c - 1 /\ d # c
      BY <1>2, <3>2, <3>4
    <3>6. c < d
      BY <1>1, <3>5
    <3>7. h < phi[d]
      BY <1>1, <3>6
    <3>. QED  BY <2>2, <3>4, <3>7
  <2>4. e.type \notin chg
    BY <1>2, <1>10
  <2>. QED  BY <1>1, <1>4, <1>6, <2>1, <2>3, <2>4 DEF TimeShifts
<1>11. ASSUME e.type \in chg, e.person = q, \A i \in 1 .. Len(rows) : rows[i].at <= e.at
       PROVE  t = e.time
  <2>1. PICK i \in R : j = phi[i]
    BY <1>2, <1>7, <1>11
  <2>2. \A k \in 1 .. n - 1 : phi[k] < h
    BY <1>1, <1>11
  <2>. QED  BY <1>1, <1>4, <1>6, <1>8, <1>11, <2>1, <2>2 DEF TimeShifts
<1>. QED  BY <1>9, <1>10, <1>11

-----------------------------------------------------------------------------
(* The one row of an operation that a replay does something with.          *)

NoneDoes(events) == \A n \in 1 .. Len(events) : ChangesNothing(events[n])

OnlyDoes(events, e) ==
    \E m \in 1 .. Len(events) :
        /\ events[m] = e
        /\ \A n \in 1 .. Len(events) : n # m => ChangesNothing(events[n])

\* Events that do nothing may stand before and behind.
LEMMA DoesConcat ==
    ASSUME NEW T, NEW s \in Seq(T), NEW u \in Seq(T), NEW e
    PROVE  /\ s \o u \in Seq(T)
           /\ NoneDoes(s) /\ OnlyDoes(u, e) => OnlyDoes(s \o u, e)
           /\ OnlyDoes(s, e) /\ NoneDoes(u) => OnlyDoes(s \o u, e)
<1>. DEFINE c == s \o u
            L == Len(s)
            M == Len(u)
<1>1. /\ c \in Seq(T) /\ Len(c) = L + M
      /\ \A i \in 1 .. L + M : c[i] = IF i <= L THEN s[i] ELSE u[i - L]
  BY ConcatProperties
<1>2. L \in Nat /\ M \in Nat
  OBVIOUS
<1>. HIDE DEF c, L, M
<1>3. ASSUME NoneDoes(s), OnlyDoes(u, e) PROVE OnlyDoes(c, e)
  <2>1. PICK m \in 1 .. M : u[m] = e /\ \A n \in 1 .. M : n # m => ChangesNothing(u[n])
    BY <1>3 DEF OnlyDoes, M
  <2>2. L + m \in 1 .. Len(c) /\ c[L + m] = e
    BY <1>1, <1>2, <2>1
  <2>3. ASSUME NEW n \in 1 .. Len(c), n # L + m PROVE ChangesNothing(c[n])
    <3>1. CASE n <= L
      BY <1>1, <1>2, <1>3, <3>1 DEF NoneDoes, L
    <3>2. CASE ~(n <= L)
      <4>1. n - L \in 1 .. M /\ n - L # m /\ c[n] = u[n - L]
        BY <1>1, <1>2, <2>1, <2>3, <3>2
      <4>. QED  BY <2>1, <4>1
    <3>. QED  BY <3>1, <3>2
  <2>. QED  BY <2>2, <2>3 DEF OnlyDoes
<1>4. ASSUME OnlyDoes(s, e), NoneDoes(u) PROVE OnlyDoes(c, e)
  <2>1. PICK m \in 1 .. L : s[m] = e /\ \A n \in 1 .. L : n # m => ChangesNothing(s[n])
    BY <1>4 DEF OnlyDoes, L
  <2>2. m \in 1 .. Len(c) /\ c[m] = e
    BY <1>1, <1>2, <2>1
  <2>3. ASSUME NEW n \in 1 .. Len(c), n # m PROVE ChangesNothing(c[n])
    <3>1. CASE n <= L
      BY <1>1, <1>2, <2>1, <2>3, <3>1
    <3>2. CASE ~(n <= L)
      <4>1. n - L \in 1 .. M /\ c[n] = u[n - L]
        BY <1>1, <1>2, <3>2
      <4>. QED  BY <1>4, <4>1 DEF NoneDoes, M
    <3>. QED  BY <3>1, <3>2
  <2>. QED  BY <2>2, <2>3 DEF OnlyDoes
<1>. QED  BY <1>1, <1>3, <1>4 DEF c

\* The row of a scan is the only one that does anything.
LEMMA AddScanDoes ==
    ASSUME NEW P, NEW type, NEW S, NEW info, IsInfo(info, P)
    PROVE  OnlyDoes(AddScan(type, S, info), Event(ScanEvent(type, S, info), info))
<1>. DEFINE T == EventRow(P)
            scan == ScanEvent(type, S, info)
            ca == type = "Start" /\ S.out = <<>>
            cc == type = "Start" /\ scan = "AttendeeScanOut"
            cd == type = "Finish" /\ scan = "AttendeeScanIn"
            ea == Event("FirstAttendeeForHappeningScanned", info)
            eb == Event(scan, info)
            ec == Event("AttendeeScannedAtStartCheckpoint", info)
            ed == Event("AttendeeScannedAtFinishCheckpoint", info)
            a == IF ca THEN <<ea>> ELSE <<>>
            b == <<eb>>
            c == IF cc THEN <<ec>> ELSE <<>>
            d == IF cd THEN <<ed>> ELSE <<>>
<1>1. scan \in EventType
  BY AddScanRows
<1>2. AddScan(type, S, info) = a \o b \o c \o d
  BY DEF AddScan
<1>3. ea \in T /\ eb \in T /\ ec \in T /\ ed \in T
  <2>1. \A t \in EventType : Event(t, info) \in T
    BY EventIsRow
  <2>. HIDE DEF scan, T
  <2>. QED  BY <1>1, <2>1 DEF EventType
<1>4. ChangesNothing(ea) /\ ChangesNothing(ec) /\ ChangesNothing(ed)
  BY DEF Event, ChangesNothing, AddsIn, AddsOut, RemovesIn, RemovesOut, ChangesIn, ChangesOut
<1>. HIDE DEF ea, eb, ec, ed, ca, cc, cd, T
<1>5. /\ a \in Seq(T) /\ NoneDoes(a)
      /\ c \in Seq(T) /\ NoneDoes(c)
      /\ d \in Seq(T) /\ NoneDoes(d)
  <2>1. ASSUME NEW x \in T, ChangesNothing(x)
        PROVE  <<x>> \in Seq(T) /\ NoneDoes(<<x>>)
    BY <2>1 DEF NoneDoes
  <2>2. <<>> \in Seq(T) /\ NoneDoes(<<>>)
    BY DEF NoneDoes
  <2>. QED  BY <1>3, <1>4, <2>1, <2>2
<1>6. b \in Seq(T) /\ OnlyDoes(b, eb)
  BY <1>3 DEF OnlyDoes
<1>. HIDE DEF a, b, c, d
<1>. DEFINE ab == a \o b
            abc == ab \o c
            abcd == abc \o d
<1>7. ab \in Seq(T) /\ OnlyDoes(ab, eb)
  BY <1>5, <1>6, DoesConcat
<1>. HIDE DEF ab
<1>8. abc \in Seq(T) /\ OnlyDoes(abc, eb)
  BY <1>5, <1>7, DoesConcat
<1>. HIDE DEF abc
<1>9. OnlyDoes(abcd, eb)
  BY <1>5, <1>8, DoesConcat
<1>. QED  BY <1>2, <1>9 DEF ab, abc, abcd, eb

\* An event as the server stamps it: a change of time with its own clock, t.
StampedRow(e, t) == IF ChangesIn(e) \/ ChangesOut(e) THEN [e EXCEPT !.at = t] ELSE e

StampedRows(events, t) == [i \in DOMAIN events |-> StampedRow(events[i], t)]

\* A stamp changes nothing but the time of a change of time.
LEMMA RowStamped ==
    ASSUME NEW P, NEW e \in EventRow(P), NEW t \in Nat
    PROVE  /\ StampedRow(e, t) \in EventRow(P)
           /\ StampedRow(e, t).type = e.type
           /\ StampedRow(e, t).person = e.person
           /\ StampedRow(e, t).time = e.time
           /\ ChangesNothing(StampedRow(e, t)) <=> ChangesNothing(e)
           /\ ChangesIn(e) \/ ChangesOut(e) => StampedRow(e, t).at = t
           /\ ~ChangesIn(e) /\ ~ChangesOut(e) => StampedRow(e, t) = e
<1>. DEFINE f == StampedRow(e, t)
<1>1. CASE ChangesIn(e) \/ ChangesOut(e)
  <2>1. f = [e EXCEPT !.at = t]
    BY <1>1 DEF StampedRow
  <2>2. f \in EventRow(P) /\ f.type = e.type /\ f.person = e.person /\ f.time = e.time /\ f.at = t
    BY <2>1 DEF EventRow
  <2>. HIDE DEF f
  <2>3. ChangesNothing(f) <=> ChangesNothing(e)
    BY <2>2 DEF ChangesNothing, AddsIn, AddsOut, RemovesIn, RemovesOut, ChangesIn, ChangesOut
  <2>. QED  BY <1>1, <2>2, <2>3 DEF f
<1>2. CASE ~(ChangesIn(e) \/ ChangesOut(e))
  <2>1. f = e
    BY <1>2 DEF StampedRow
  <2>. QED  BY <1>2, <2>1
<1>. QED  BY <1>1, <1>2

\* What storing an operation's events comes to.
StoresTo(new, rows, events, t) ==
    /\ NoneDoes(events) => new = rows
    /\ \A e : OnlyDoes(events, e) /\ ~ChangesNothing(e) => new = Stored(rows, StampedRow(e, t))
    /\ Len(events) = 2 /\ ~ChangesNothing(events[1]) /\ ~ChangesNothing(events[2]) =>
          new = Stored(Stored(rows, StampedRow(events[1], t)), StampedRow(events[2], t))

\* Storing stamped events is storing those that do something.
LEMMA StampedStored ==
    ASSUME NEW P, NEW rows \in SortedRows(P), NEW events \in Seq(EventRow(P)), NEW t \in Nat
    PROVE  /\ StampedRows(events, t) \in Seq(EventRow(P))
           /\ StoresTo(AllStored(rows, StampedRows(events, t)), rows, events, t)
<1>. DEFINE N == Len(events)
            stamped == StampedRows(events, t)
<1>1. N \in Nat /\ \A n \in 1 .. N : events[n] \in EventRow(P)
  OBVIOUS
<1>. DEFINE Same(n) == ChangesNothing(StampedRow(events[n], t)) <=> ChangesNothing(events[n])
<1>2. /\ \A n \in 1 .. N : StampedRow(events[n], t) \in EventRow(P)
      /\ \A n \in 1 .. N : Same(n)
  BY <1>1, RowStamped
<1>. HIDE DEF Same
<1>3. /\ stamped \in Seq(EventRow(P)) /\ Len(stamped) = N
      /\ \A n \in 1 .. N : stamped[n] = StampedRow(events[n], t)
  BY <1>1, <1>2 DEF StampedRows
<1>. HIDE DEF stamped
<1>4. PICK stored : StoredAfter(stored, P, rows, stamped)
  BY <1>3, AllStoredRecursion
<1>5. /\ stored[0] = rows
      /\ \A n \in 1 .. N :
            stored[n] = IF ChangesNothing(events[n]) THEN stored[n - 1]
                        ELSE Stored(stored[n - 1], StampedRow(events[n], t))
      /\ AllStored(rows, stamped) = stored[N]
  <2>1. /\ stored[0] = rows
        /\ \A n \in 1 .. N :
            stored[n] = IF ChangesNothing(stamped[n]) THEN stored[n - 1]
                        ELSE Stored(stored[n - 1], stamped[n])
        /\ AllStored(rows, stamped) = stored[N]
    BY <1>3, <1>4 DEF StoredAfter
  <2>2. \A n \in 1 .. N : ChangesNothing(stamped[n]) <=> ChangesNothing(events[n])
    BY <1>2, <1>3 DEF Same
  <2>. QED  BY <1>3, <2>1, <2>2
<1>. HIDE DEF N
<1>6. ASSUME NEW k \in 0 .. N, NEW m \in k .. N,
             \A n \in k + 1 .. m : ChangesNothing(events[n])
      PROVE  stored[m] = stored[k]
  <2>. DEFINE W == {n \in 0 .. m : n >= k => stored[n] = stored[k]}
  <2>1. m \in Nat /\ k \in Nat /\ k <= m /\ m <= N
    BY <1>1
  <2>2. 0 \in W
    BY <2>1
  <2>3. ASSUME NEW i \in 0 .. m, i \in W, i < m PROVE i + 1 \in W
    <3>1. i + 1 \in 1 .. N /\ (i + 1) - 1 = i /\ i + 1 \in 0 .. m
      BY <1>1, <2>1, <2>3
    <3>2. CASE i >= k
      <4>1. i + 1 \in k + 1 .. m
        BY <2>1, <3>1, <3>2
      <4>2. ChangesNothing(events[i + 1])
        BY <1>6, <4>1
      <4>3. stored[i + 1] = stored[i] /\ stored[i] = stored[k]
        BY <1>5, <2>3, <3>1, <3>2, <4>2
      <4>. QED  BY <3>1, <4>3
    <3>3. CASE ~(i >= k)
      <4>1. i + 1 >= k => i + 1 = k
        BY <2>1, <3>1, <3>3
      <4>. QED  BY <3>1, <4>1
    <3>. QED  BY <3>2, <3>3
  <2>. HIDE DEF W
  <2>4. \A i \in 0 .. m : i \in W
    BY <2>1, <2>2, <2>3, UpTo
  <2>5. m \in W
    BY <2>1, <2>4
  <2>. QED  BY <2>1, <2>5 DEF W
<1>7. ASSUME NoneDoes(events) PROVE stored[N] = rows
  <2>1. 0 \in 0 .. N /\ N \in 0 .. N /\ \A n \in 0 + 1 .. N : ChangesNothing(events[n])
    BY <1>1, <1>7 DEF NoneDoes, N
  <2>. QED  BY <1>5, <1>6, <2>1
<1>8. ASSUME NEW e, OnlyDoes(events, e), ~ChangesNothing(e)
      PROVE  stored[N] = Stored(rows, StampedRow(e, t))
  <2>1. PICK m \in 1 .. N : events[m] = e /\ \A n \in 1 .. N : n # m => ChangesNothing(events[n])
    BY <1>8 DEF OnlyDoes, N
  <2>. DEFINE l == m - 1
  <2>2. /\ 0 \in 0 .. N /\ l \in 0 .. N /\ N \in m .. N /\ m \in 0 .. N
        /\ \A n \in 0 + 1 .. l : n \in 1 .. N /\ n # m
        /\ \A n \in m + 1 .. N : n \in 1 .. N /\ n # m
    BY <1>1, <2>1
  <2>3. stored[m] = Stored(stored[l], StampedRow(e, t))
    BY <1>5, <1>8, <2>1
  <2>. HIDE DEF l
  <2>4. stored[l] = stored[0]
    BY <1>6, <2>1, <2>2
  <2>5. stored[N] = stored[m]
    BY <1>6, <2>1, <2>2
  <2>. QED  BY <1>5, <2>3, <2>4, <2>5
<1>9. ASSUME N = 2, ~ChangesNothing(events[1]), ~ChangesNothing(events[2])
      PROVE  stored[N] = Stored(Stored(rows, StampedRow(events[1], t)), StampedRow(events[2], t))
  <2>1. /\ 1 \in 1 .. N /\ 2 \in 1 .. N /\ 1 - 1 = 0 /\ 2 - 1 = 1
    BY <1>9
  <2>2. stored[1] = Stored(rows, StampedRow(events[1], t))
    BY <1>5, <1>9, <2>1
  <2>3. stored[2] = Stored(stored[1], StampedRow(events[2], t))
    BY <1>5, <1>9, <2>1
  <2>. QED  BY <1>9, <2>2, <2>3
<1>10. StoresTo(stored[N], rows, events, t)
  BY <1>7, <1>8, <1>9 DEF StoresTo, N
<1>. QED  BY <1>3, <1>5, <1>10 DEF stamped

\* When an operation does something: it stores an event of the type k.
Done(k, type, S, c) ==
    LET p == c.person
        in == IsRead(S.in, p)
        out == IsRead(S.out, p)
    IN  \/ k = "AttendeePassthroughScan" /\ type = "Passthrough" /\ ~in
        \/ k = "AttendeeScanOut" /\ type = "Start" /\ ~in
        \/ k = "AttendeeScanIn" /\ type \notin {"Passthrough", "Start"} /\ ~in
        \/ k = "AttendeeScanOut" /\ in /\ ~out /\ FirstReading(S.in, p).at <= c.at
        \/ k = "AttendeeScanOutRemoved" /\ out /\ ~(type = "Passthrough" /\ in)
        \/ k = "AttendeeScanInRemoved" /\ in /\ ~out
        \/ /\ k = "AttendeeScanInTimeChanged" /\ in
           /\ out => c.time <= FirstReading(S.out, p).at
        \/ /\ k = "AttendeeScanOutTimeChanged" /\ out
           /\ in => FirstReading(S.in, p).at <= c.time
        \/ k = "AttendeePassthroughScanTimeChanged" /\ type = "Passthrough" /\ in

\* What the events of an operation are: nothing that a replay sees, one row, or
\* the two of a passthrough's removal.
Does(events, P, type, S, c) ==
    /\ events \in Seq(EventRow(P))
    /\ \/ NoneDoes(events)
       \/ \E k \in EventType :
             /\ Done(k, type, S, c) /\ OnlyDoes(events, Event(k, c))
             /\ ~ChangesNothing(Event(k, c))
       \/ /\ type = "Passthrough" /\ IsRead(S.in, c.person) /\ IsRead(S.out, c.person)
          /\ Len(events) = 2
          /\ events[1] = Event("AttendeeScanInRemoved", c)
          /\ events[2] = Event("AttendeeScanOutRemoved", c)

\* The time of a reading.
LEMMA FirstReadingAt ==
    ASSUME NEW P, NEW list \in Seq(Reading(P)), NEW q, IsRead(list, q)
    PROVE  FirstReading(list, q).at \in Nat
<1>1. FirstIndex(list, q) \in 1 .. Len(list)
  BY FirstIndexIn
<1>2. FirstReading(list, q) \in Reading(P)
  BY <1>1 DEF FirstReading
<1>. QED  BY <1>2 DEF Reading

\* A scan does nothing, or adds a reading that is not there.
LEMMA AddScanDone ==
    ASSUME NEW P, NEW type, NEW S \in State(P), NEW c, IsInfo(c, P)
    PROVE  Does(AddScan(type, S, c), P, type, S, c)
<1>. DEFINE k == ScanEvent(type, S, c)
            in == IsRead(S.in, c.person)
            out == IsRead(S.out, c.person)
            events == AddScan(type, S, c)
<1>1. k \in EventType /\ events \in Seq(EventRow(P)) /\ OnlyDoes(events, Event(k, c))
  BY AddScanRows, AddScanDoes
<1>2. \/ k = "AttendeeDoubleScan"
      \/ k = "AttendeeScanOutPreceedsScanIn"
      \/ k = "AttendeeScanOut" /\ in /\ ~IsDouble(S, c)
      \/ k = "AttendeePassthroughScan" /\ type = "Passthrough" /\ ~in
      \/ k = "AttendeeScanOut" /\ type = "Start" /\ ~in
      \/ k = "AttendeeScanIn" /\ type \notin {"Passthrough", "Start"} /\ ~in
  <2>. HIDE DEF k
  <2>. QED  BY ScanEventIs DEF k
<1>3. Event(k, c).type = k
  BY DEF Event
<1>. HIDE DEF k, events
<1>4. k \in {"AttendeeDoubleScan", "AttendeeScanOutPreceedsScanIn"} => NoneDoes(events)
  <2>1. k \in {"AttendeeDoubleScan", "AttendeeScanOutPreceedsScanIn"} => ChangesNothing(Event(k, c))
    BY <1>3 DEF ChangesNothing, AddsIn, AddsOut, RemovesIn, RemovesOut, ChangesIn, ChangesOut
  <2>. QED  BY <1>1, <2>1 DEF NoneDoes, OnlyDoes
<1>5. k \in {"AttendeeScanOut", "AttendeePassthroughScan", "AttendeeScanIn"} =>
         ~ChangesNothing(Event(k, c))
  BY <1>3 DEF ChangesNothing, AddsIn, AddsOut
<1>6. in /\ ~IsDouble(S, c) => ~out /\ FirstReading(S.in, c.person).at <= c.at
  <2>. SUFFICES ASSUME in, ~IsDouble(S, c) PROVE ~out /\ FirstReading(S.in, c.person).at <= c.at
    OBVIOUS
  <2>1. FirstReading(S.in, c.person).at \in Nat
    <3>1. S.in \in Seq(Reading(P))
      BY DEF State
    <3>. QED  BY <3>1, FirstReadingAt
  <2>2. ~out /\ ~(c.at < FirstReading(S.in, c.person).at + DoubleReadingThreshold)
    BY DEF IsDouble
  <2>3. c.at \in Nat
    BY DEF IsInfo
  <2>. DEFINE f == FirstReading(S.in, c.person).at
  <2>. HIDE DEF f
  <2>4. f <= c.at
    BY <2>1, <2>2, <2>3, DoubleReadingThresholdAssumption DEF f
  <2>. QED  BY <2>2, <2>4 DEF f
<1>7. \/ k \in {"AttendeeDoubleScan", "AttendeeScanOutPreceedsScanIn"}
      \/ Done(k, type, S, c) /\ ~ChangesNothing(Event(k, c))
  BY <1>2, <1>5, <1>6 DEF Done
<1>. QED  BY <1>1, <1>4, <1>7 DEF Does, events

\* One event is the only one.
LEMMA OneDoes ==
    ASSUME NEW P, NEW c, IsInfo(c, P), NEW k \in EventType
    PROVE  <<Event(k, c)>> \in Seq(EventRow(P)) /\ OnlyDoes(<<Event(k, c)>>, Event(k, c))
<1>1. Event(k, c) \in EventRow(P)
  BY EventIsRow
<1>. DEFINE e == Event(k, c)
<1>. HIDE DEF e
<1>2. <<e>> \in Seq(EventRow(P)) /\ OnlyDoes(<<e>>, e)
  BY <1>1 DEF OnlyDoes, e
<1>. QED  BY <1>2 DEF e

\* A removal takes away a reading that is there, or does nothing.
LEMMA RemoveScanDone ==
    ASSUME NEW P, NEW type, NEW S \in State(P), NEW c, IsInfo(c, P)
    PROVE  Does(RemoveScan(type, S, c), P, type, S, c)
<1>. DEFINE in == IsRead(S.in, c.person)
            out == IsRead(S.out, c.person)
            ki == "AttendeeScanInRemoved"
            ko == "AttendeeScanOutRemoved"
            events == RemoveScan(type, S, c)
<1>1. events \in Seq(EventRow(P))
  BY RemoveScanRows
<1>2. /\ ki \in EventType /\ ko \in EventType
      /\ ~ChangesNothing(Event(ki, c)) /\ ~ChangesNothing(Event(ko, c))
  BY DEF EventType, Event, ChangesNothing, RemovesIn, RemovesOut
<1>3. /\ in /\ ~out => Done(ki, type, S, c)
      /\ out /\ ~(type = "Passthrough" /\ in) => Done(ko, type, S, c)
  BY DEF Done
<1>4. \/ type = "Passthrough" /\ in /\ out /\ events = <<Event(ki, c), Event(ko, c)>>
      \/ out /\ ~(type = "Passthrough" /\ in) /\ events = <<Event(ko, c)>>
      \/ in /\ ~out /\ events = <<Event(ki, c)>>
      \/ events = <<>>
  BY DEF RemoveScan
<1>. HIDE DEF events
<1>5. CASE type = "Passthrough" /\ in /\ out /\ events = <<Event(ki, c), Event(ko, c)>>
  <2>1. Len(events) = 2 /\ events[1] = Event(ki, c) /\ events[2] = Event(ko, c)
    BY <1>5
  <2>. QED  BY <1>1, <1>5, <2>1 DEF Does, events
<1>6. CASE out /\ ~(type = "Passthrough" /\ in) /\ events = <<Event(ko, c)>>
  <2>1. OnlyDoes(events, Event(ko, c))
    BY <1>2, <1>6, OneDoes
  <2>. QED  BY <1>1, <1>2, <1>3, <1>6, <2>1 DEF Does, events
<1>7. CASE in /\ ~out /\ events = <<Event(ki, c)>>
  <2>1. OnlyDoes(events, Event(ki, c))
    BY <1>2, <1>7, OneDoes
  <2>. QED  BY <1>1, <1>2, <1>3, <1>7, <2>1 DEF Does, events
<1>8. CASE events = <<>>
  <2>1. NoneDoes(events)
    BY <1>8 DEF NoneDoes
  <2>. QED  BY <1>1, <2>1 DEF Does, events
<1>. QED  BY <1>4, <1>5, <1>6, <1>7, <1>8

\* A change of time finds a reading and keeps the order of both, or is refused.
LEMMA ChangeScanTimeDone ==
    ASSUME NEW P, NEW type, NEW S \in State(P), NEW c, IsInfo(c, P), NEW kind
    PROVE  Does(ChangeScanTime(type, S, c, kind), P, type, S, c)
<1>. DEFINE p == c.person
            in == IsRead(S.in, p)
            out == IsRead(S.out, p)
            before == out /\ FirstReading(S.out, p).at < c.time
            after == in /\ FirstReading(S.in, p).at > c.time
            ki == "AttendeeScanInTimeChanged"
            ko == "AttendeeScanOutTimeChanged"
            kp == "AttendeePassthroughScanTimeChanged"
            kr == "AttendeeScanOutPreceedsScanIn"
            events == ChangeScanTime(type, S, c, kind)
<1>1. /\ ki \in EventType /\ ko \in EventType /\ kp \in EventType /\ kr \in EventType
      /\ ~ChangesNothing(Event(ki, c)) /\ ~ChangesNothing(Event(ko, c)) /\ ~ChangesNothing(Event(kp, c))
  BY DEF EventType, Event, ChangesNothing, ChangesIn, ChangesOut
<1>2. ChangesNothing(Event(kr, c))
  BY DEF Event, ChangesNothing, AddsIn, AddsOut, RemovesIn, RemovesOut, ChangesIn, ChangesOut
<1>3. /\ in /\ ~before => Done(ki, type, S, c)
      /\ out /\ ~after => Done(ko, type, S, c)
      /\ type = "Passthrough" /\ in => Done(kp, type, S, c)
  <2>1. /\ S.in \in Seq(Reading(P)) /\ S.out \in Seq(Reading(P)) /\ c.time \in Nat
    BY DEF State, IsInfo
  <2>2. /\ in => FirstReading(S.in, p).at \in Nat
        /\ out => FirstReading(S.out, p).at \in Nat
    BY <2>1, FirstReadingAt
  <2>3. /\ out /\ ~before => c.time <= FirstReading(S.out, p).at
        /\ in /\ ~after => FirstReading(S.in, p).at <= c.time
    BY <2>1, <2>2
  <2>. QED  BY <2>3 DEF Done
<1>4. \/ in /\ ~before /\ events = <<Event(ki, c)>>
      \/ out /\ ~after /\ events = <<Event(ko, c)>>
      \/ type = "Passthrough" /\ in /\ events = <<Event(kp, c)>>
      \/ events = <<Event(kr, c)>>
      \/ events = <<>>
  BY DEF ChangeScanTime
<1>. HIDE DEF events, before, after
<1>5. ASSUME NEW k \in EventType, Done(k, type, S, c), ~ChangesNothing(Event(k, c)),
             events = <<Event(k, c)>>
      PROVE  Does(events, P, type, S, c)
  <2>1. events \in Seq(EventRow(P)) /\ OnlyDoes(events, Event(k, c))
    BY <1>5, OneDoes
  <2>. QED  BY <1>5, <2>1 DEF Does
<1>6. ASSUME events = <<Event(kr, c)>>
      PROVE  Does(events, P, type, S, c)
  <2>1. events \in Seq(EventRow(P)) /\ OnlyDoes(events, Event(kr, c))
    BY <1>1, <1>6, OneDoes
  <2>2. NoneDoes(events)
    BY <1>2, <2>1 DEF NoneDoes, OnlyDoes
  <2>. QED  BY <2>1, <2>2 DEF Does
<1>7. ASSUME events = <<>>
      PROVE  Does(events, P, type, S, c)
  <2>1. events \in Seq(EventRow(P)) /\ NoneDoes(events)
    BY <1>7 DEF NoneDoes
  <2>. QED  BY <2>1 DEF Does
<1>. QED  BY <1>1, <1>3, <1>4, <1>5, <1>6, <1>7 DEF events

-----------------------------------------------------------------------------
(* Passthroughs: the readings of both lists come and go together.          *)

\* Two rows that remove both readings, with no reading added between them.
RemovalPair(i, j, rows) ==
    /\ i < j /\ rows[i].type \in InRem /\ rows[j].type \in OutRem
    /\ rows[i].person = rows[j].person /\ rows[i].at = rows[j].at
    /\ \A k \in 1 .. Len(rows) : i < k /\ k < j => rows[k].type \notin InAdd

Paired(rows) ==
    /\ \A i \in 1 .. Len(rows) : rows[i].type \notin {"AttendeeScanIn", "AttendeeScanOut"}
    /\ \A i \in 1 .. Len(rows) : rows[i].type \in InRem =>
          \E j \in 1 .. Len(rows) : RemovalPair(i, j, rows)
    /\ \A j \in 1 .. Len(rows) : rows[j].type \in OutRem =>
          \E i \in 1 .. Len(rows) : RemovalPair(i, j, rows)

\* The readings in are those out.
LEMMA PairedReads ==
    ASSUME NEW T, NEW rows \in Seq(T), Paired(rows), NEW q
    PROVE  Reads(rows, InAdd, InRem, q) = Reads(rows, OutAdd, OutRem, q)
<1>. DEFINE N == Len(rows)
<1>1. N \in Nat /\ 1 .. (N + 1) - 1 = 1 .. N
  OBVIOUS
<1>2. \A add, rem, i : i \in Reads(rows, add, rem, q) <=>
         /\ i \in 1 .. N /\ rows[i].type \in add /\ rows[i].person = q
         /\ \A j \in 1 .. N : i < j /\ rows[j].type \in rem => rows[j].person # q
  BY <1>1 DEF Reads, Live
<1>3. \A i \in 1 .. N : /\ rows[i].type \in InAdd <=> rows[i].type \in OutAdd
                        /\ rows[i].type \in InAdd => rows[i].type \notin OutRem
  BY DEF Paired, InAdd, OutAdd, OutRem
<1>4. ASSUME NEW i \in Reads(rows, InAdd, InRem, q)
      PROVE  i \in Reads(rows, OutAdd, OutRem, q)
  <2>1. /\ i \in 1 .. N /\ rows[i].type \in InAdd /\ rows[i].person = q
        /\ \A j \in 1 .. N : i < j /\ rows[j].type \in InRem => rows[j].person # q
    BY <1>2
  <2>2. ASSUME NEW j \in 1 .. N, i < j, rows[j].type \in OutRem PROVE rows[j].person # q
    <3>1. PICK k \in 1 .. N : RemovalPair(k, j, rows)
      BY <2>2 DEF Paired
    <3>2. /\ k < j /\ rows[k].type \in InRem /\ rows[k].person = rows[j].person
          /\ ~(k < i /\ i < j)
      BY <2>1, <3>1 DEF RemovalPair
    <3>3. k # i
      BY <2>1, <3>2 DEF InAdd, InRem
    <3>4. i < k
      BY <1>1, <2>1, <2>2, <3>2, <3>3
    <3>. QED  BY <2>1, <3>2, <3>4
  <2>. QED  BY <1>2, <1>3, <2>1, <2>2
<1>5. ASSUME NEW i \in Reads(rows, OutAdd, OutRem, q)
      PROVE  i \in Reads(rows, InAdd, InRem, q)
  <2>1. /\ i \in 1 .. N /\ rows[i].type \in OutAdd /\ rows[i].person = q
        /\ \A j \in 1 .. N : i < j /\ rows[j].type \in OutRem => rows[j].person # q
    BY <1>2
  <2>2. ASSUME NEW k \in 1 .. N, i < k, rows[k].type \in InRem PROVE rows[k].person # q
    <3>1. PICK j \in 1 .. N : RemovalPair(k, j, rows)
      BY <2>2 DEF Paired
    <3>2. k < j /\ rows[j].type \in OutRem /\ rows[k].person = rows[j].person
      BY <3>1 DEF RemovalPair
    <3>3. i < j
      BY <1>1, <2>1, <2>2, <3>2
    <3>. QED  BY <2>1, <3>2, <3>3
  <2>. QED  BY <1>2, <1>3, <2>1, <2>2
<1>. QED  BY <1>4, <1>5

\* No row comes between two that are a pair.
LEMMA PairStored ==
    ASSUME NEW T, NEW rows \in Seq(T), NEW e, NEW new, NEW phi, NEW h, Shifts(phi, h, new, rows, e),
           NEW i \in 1 .. Len(rows), NEW j \in 1 .. Len(rows), RemovalPair(i, j, rows)
    PROVE  /\ phi[i] \in 1 .. Len(new) /\ phi[j] \in 1 .. Len(new)
           /\ RemovalPair(phi[i], phi[j], new)
<1>. DEFINE n == Len(rows) + 1
            U == 1 .. n - 1
            V == 1 .. phi[n] - 1
<1>1. /\ n \in 1 .. Len(rows) + 1 /\ n - 1 = Len(rows) /\ phi[n] - 1 = Len(new)
      /\ \A k \in 1 .. Len(rows) : phi[k] < h <=> rows[k].at <= e.at
  BY DEF Shifts
<1>2. Embeds(phi, h, U, V, new, rows, e)
  BY <1>1, ShiftsEmbed
<1>3. /\ \A k \in U : /\ phi[k] \in V /\ phi[k] # h /\ new[phi[k]] = rows[k]
                      /\ phi[k] < h \/ h < phi[k]
                      /\ ~(phi[k] < h /\ h < phi[k])
      /\ \A k, l \in U : k < l <=> phi[k] < phi[l]
      /\ \A k \in V : k = h \/ \E l \in U : phi[l] = k
  BY <1>2 DEF Embeds
<1>4. U = 1 .. Len(rows) /\ V = 1 .. Len(new)
  BY <1>1
<1>. HIDE DEF n, U, V
<1>5. /\ i < j /\ rows[i].type \in InRem /\ rows[j].type \in OutRem
      /\ rows[i].person = rows[j].person /\ rows[i].at = rows[j].at
      /\ \A k \in U : i < k /\ k < j => rows[k].type \notin InAdd
  BY <1>4 DEF RemovalPair
<1>6. i \in U /\ j \in U
  BY <1>4
<1>7. ~(phi[i] < h /\ h < phi[j])
  BY <1>1, <1>3, <1>5, <1>6
<1>8. ASSUME NEW k \in V, phi[i] < k, k < phi[j] PROVE new[k].type \notin InAdd
  <2>1. PICK l \in U : phi[l] = k
    BY <1>3, <1>7, <1>8
  <2>. QED  BY <1>3, <1>5, <1>6, <1>8, <2>1
<1>. QED  BY <1>3, <1>4, <1>5, <1>6, <1>8 DEF RemovalPair

\* A row that is no removal, and no reading of one list only.
LEMMA PairedStored ==
    ASSUME NEW T, NEW rows \in Seq(T), NEW e, NEW new, NEW phi, NEW h, Shifts(phi, h, new, rows, e),
           Paired(rows),
           e.type \notin {"AttendeeScanIn", "AttendeeScanOut"} \cup InRem \cup OutRem
    PROVE  Paired(new)
<1>. DEFINE N == Len(rows)
<1>1. /\ Len(new) = N + 1 /\ new[h] = e
      /\ \A i \in 1 .. N : new[phi[i]] = rows[i]
      /\ \A j \in 1 .. N + 1 : j = h \/ \E i \in 1 .. N : phi[i] = j
  BY DEF Shifts
<1>2. /\ \A i \in 1 .. N : rows[i].type \notin {"AttendeeScanIn", "AttendeeScanOut"}
      /\ \A i \in 1 .. N : rows[i].type \in InRem => \E j \in 1 .. N : RemovalPair(i, j, rows)
      /\ \A j \in 1 .. N : rows[j].type \in OutRem => \E i \in 1 .. N : RemovalPair(i, j, rows)
  BY DEF Paired
<1>3. \A i, j \in 1 .. N : RemovalPair(i, j, rows) =>
         /\ phi[i] \in 1 .. N + 1 /\ phi[j] \in 1 .. N + 1
         /\ RemovalPair(phi[i], phi[j], new)
  BY <1>1, PairStored
<1>. HIDE DEF N
<1>4. ASSUME NEW m \in 1 .. N + 1
      PROVE  /\ new[m].type \notin {"AttendeeScanIn", "AttendeeScanOut"}
             /\ new[m].type \in InRem => \E j \in 1 .. N + 1 : RemovalPair(m, j, new)
             /\ new[m].type \in OutRem => \E i \in 1 .. N + 1 : RemovalPair(i, m, new)
  <2>1. CASE m = h
    BY <1>1, <2>1
  <2>2. CASE m # h
    <3>1. PICK l \in 1 .. N : phi[l] = m
      BY <1>1, <2>2
    <3>2. new[m] = rows[l]
      BY <1>1, <3>1
    <3>. QED  BY <1>2, <1>3, <3>1, <3>2
  <2>. QED  BY <2>1, <2>2
<1>. QED  BY <1>1, <1>4 DEF Paired

\* The two rows that remove both readings.
LEMMA PairedRemoved ==
    ASSUME NEW T, NEW rows \in Seq(T), NEW e, NEW new \in Seq(T), NEW phi, NEW h,
           Shifts(phi, h, new, rows, e),
           NEW f, NEW newer, NEW psi, NEW g, Shifts(psi, g, newer, new, f),
           Paired(rows), e.type \in InRem, f.type \in OutRem, e.person = f.person, e.at = f.at,
           e.at \in Nat
    PROVE  Paired(newer)
<1>. DEFINE N == Len(rows)
            M == Len(new)
<1>1. /\ M = N + 1 /\ new[h] = e /\ h \in 1 .. M
      /\ \A i \in 1 .. N : new[phi[i]] = rows[i] /\ (phi[i] < h <=> rows[i].at <= e.at)
      /\ \A j \in 1 .. M : j = h \/ \E i \in 1 .. N : phi[i] = j
      /\ \A i \in 1 .. N : phi[i] \in Int
  BY DEF Shifts
<1>2. /\ Len(newer) = M + 1 /\ newer[g] = f /\ g \in 1 .. M + 1
      /\ \A i \in 1 .. M : newer[psi[i]] = new[i] /\ (psi[i] < g <=> new[i].at <= f.at)
      /\ \A j \in 1 .. M + 1 : j = g \/ \E i \in 1 .. M : psi[i] = j
      /\ \A i, j \in 1 .. M : i < j => psi[i] < psi[j]
      /\ \A i \in 1 .. M : psi[i] \in Int /\ psi[i] # g
      /\ M \in Nat
  <2>1. M \in Nat /\ Shifts(psi, g, newer, new, f)
    OBVIOUS
  <2>2. /\ psi \in [1 .. M + 1 -> 1 .. M + 2]
        /\ Len(newer) = M + 1 /\ newer[g] = f /\ g \in 1 .. M + 1
        /\ \A i \in 1 .. M + 1 : psi[i] # g
        /\ \A i, j \in 1 .. M + 1 : i < j => psi[i] < psi[j]
        /\ \A i \in 1 .. M : newer[psi[i]] = new[i] /\ (psi[i] < g <=> new[i].at <= f.at)
        /\ \A j \in 1 .. M + 1 : j = g \/ \E i \in 1 .. M : psi[i] = j
    BY ONLY <2>1 DEF Shifts
  <2>. HIDE DEF M
  <2>3. \A i \in 1 .. M : i \in 1 .. M + 1
    BY <2>1
  <2>4. \A i \in 1 .. M : psi[i] \in Int
    BY <2>1, <2>2, <2>3
  <2>. QED  BY <2>1, <2>2, <2>3, <2>4
<1>3. /\ \A i \in 1 .. N : rows[i].type \notin {"AttendeeScanIn", "AttendeeScanOut"}
      /\ \A i \in 1 .. N : rows[i].type \in InRem => \E j \in 1 .. N : RemovalPair(i, j, rows)
      /\ \A j \in 1 .. N : rows[j].type \in OutRem => \E i \in 1 .. N : RemovalPair(i, j, rows)
  BY DEF Paired
<1>4. \A i, j \in 1 .. N : RemovalPair(i, j, rows) =>
         /\ phi[i] \in 1 .. M /\ phi[j] \in 1 .. M
         /\ RemovalPair(phi[i], phi[j], new)
  BY PairStored
<1>5. \A i, j \in 1 .. M : RemovalPair(i, j, new) =>
         /\ psi[i] \in 1 .. M + 1 /\ psi[j] \in 1 .. M + 1
         /\ RemovalPair(psi[i], psi[j], newer)
  BY <1>2, PairStored
<1>6. psi[h] \in 1 .. M + 1 /\ RemovalPair(psi[h], g, newer)
  <2>1. psi[h] < g /\ newer[psi[h]] = e
    BY <1>1, <1>2
  <2>2. psi[h] \in 1 .. M + 1
    <3>1. psi \in [1 .. M + 1 -> 1 .. M + 2] /\ psi[M + 1] = M + 2 /\ h \in 1 .. M
          /\ \A i, j \in 1 .. M + 1 : i < j => psi[i] < psi[j]
      BY <1>1 DEF Shifts
    <3>2. h \in 1 .. M + 1 /\ M + 1 \in 1 .. M + 1 /\ h < M + 1
      BY <1>2, <3>1
    <3>. QED  BY <1>2, <3>1, <3>2
  <2>3. ASSUME NEW k \in 1 .. M + 1, psi[h] < k, k < g PROVE FALSE
    <3>1. PICK l \in 1 .. M : psi[l] = k
      BY <1>2, <2>3
    <3>2. new[l].at <= f.at
      BY <1>2, <2>3, <3>1
    <3>3. l # h /\ ~(l < h)
      BY <1>1, <1>2, <2>3, <3>1
    <3>4. PICK i \in 1 .. N : phi[i] = l
      BY <1>1, <3>3
    <3>5. ~(phi[i] < h)
      BY <3>3, <3>4
    <3>. QED  BY <1>1, <3>2, <3>4, <3>5
  <2>4. \A k \in 1 .. Len(newer) : psi[h] < k /\ k < g => newer[k].type \notin InAdd
    BY <1>2, <2>3
  <2>. QED  BY <1>2, <2>1, <2>2, <2>4 DEF RemovalPair
<1>. HIDE DEF N, M
<1>7. ASSUME NEW m \in 1 .. M + 1
      PROVE  /\ newer[m].type \notin {"AttendeeScanIn", "AttendeeScanOut"}
             /\ newer[m].type \in InRem => \E j \in 1 .. M + 1 : RemovalPair(m, j, newer)
             /\ newer[m].type \in OutRem => \E i \in 1 .. M + 1 : RemovalPair(i, m, newer)
  <2>1. CASE m = g
    BY <1>2, <1>6, <2>1 DEF InRem, OutRem
  <2>2. CASE m # g
    <3>1. PICK l \in 1 .. M : psi[l] = m
      BY <1>2, <2>2
    <3>2. newer[m] = new[l]
      BY <1>2, <3>1
    <3>3. CASE l = h
      BY <1>1, <1>2, <1>6, <3>1, <3>2, <3>3 DEF InRem, OutRem
    <3>4. CASE l # h
      <4>1. PICK i \in 1 .. N : phi[i] = l
        BY <1>1, <3>4
      <4>2. newer[m] = rows[i]
        BY <1>1, <3>2, <4>1
      <4>. QED  BY <1>3, <1>4, <1>5, <3>1, <4>1, <4>2
    <3>. QED  BY <3>3, <3>4
  <2>. QED  BY <2>1, <2>2
<1>. QED  BY <1>2, <1>7 DEF Paired

-----------------------------------------------------------------------------
(* All this of a row that is stored, for one of the two lists.             *)

SideStored(new, rows, e, add, rem, chg) ==
    /\ \A q : /\ ~(e.type \in rem /\ e.person = q) /\ Reads(rows, add, rem, q) # {} =>
                    Reads(new, add, rem, q) # {}
              /\ ~(e.type \in add /\ e.person = q) /\ Reads(new, add, rem, q) # {} =>
                    Reads(rows, add, rem, q) # {}
    /\ Replayable(rows, add, rem, chg)
       /\ \/ e.type \notin rem \cup chg
          \/ /\ \A i \in 1 .. Len(rows) : rows[i].at <= e.at
             /\ e.type \in chg => Reads(rows, add, rem, e.person) # {}
       => Replayable(new, add, rem, chg)
    /\ One(rows, add, rem) /\ (e.type \in add => Reads(rows, add, rem, e.person) = {}) =>
          One(new, add, rem)
    /\ One(rows, add, rem) =>
          \A q, t : ReadAt(t, q, new, add, rem, chg) =>
             /\ ~(e.type \in add \cup chg /\ e.person = q) => ReadAt(t, q, rows, add, rem, chg)
             /\ e.type \in add /\ e.person = q /\ Reads(rows, add, rem, q) = {}
                /\ Replayable(rows, add, rem, chg) => t = e.at
             /\ e.type \in chg /\ e.person = q /\ (\A i \in 1 .. Len(rows) : rows[i].at <= e.at) =>
                   t = e.time

\* A row that Stored puts in its place does all this to either list.
LEMMA StoredSide ==
    ASSUME NEW P, NEW rows \in SortedRows(P), NEW e \in EventRow(P),
           NEW add, NEW rem, NEW chg, IsSide(add, rem, chg)
    PROVE  SideStored(Stored(rows, e), rows, e, add, rem, chg)
<1>. DEFINE T == EventRow(P)
            new == Stored(rows, e)
<1>1. PICK phi : \E h : Shifts(phi, h, new, rows, e)
  BY StoredShifts
<1>2. PICK h : Shifts(phi, h, new, rows, e)
  BY <1>1
<1>3. rows \in Seq(T)
  BY DEF SortedRows
<1>. HIDE DEF new, T
<1>4. ASSUME NEW q
      PROVE  /\ ~(e.type \in rem /\ e.person = q) /\ Reads(rows, add, rem, q) # {} =>
                   Reads(new, add, rem, q) # {}
             /\ ~(e.type \in add /\ e.person = q) /\ Reads(new, add, rem, q) # {} =>
                   Reads(rows, add, rem, q) # {}
  BY <1>2, <1>3, ReadsStored
<1>5. ASSUME Replayable(rows, add, rem, chg),
             \/ e.type \notin rem \cup chg
             \/ /\ \A i \in 1 .. Len(rows) : rows[i].at <= e.at
                /\ e.type \in chg => Reads(rows, add, rem, e.person) # {}
      PROVE  Replayable(new, add, rem, chg)
  BY <1>2, <1>3, <1>5, ReplayableStored
<1>6. ASSUME One(rows, add, rem), e.type \in add => Reads(rows, add, rem, e.person) = {}
      PROVE  One(new, add, rem)
  BY <1>2, <1>3, <1>6, OneStored
<1>7. ASSUME One(rows, add, rem), NEW q, NEW t, ReadAt(t, q, new, add, rem, chg)
      PROVE  /\ ~(e.type \in add \cup chg /\ e.person = q) => ReadAt(t, q, rows, add, rem, chg)
             /\ e.type \in add /\ e.person = q /\ Reads(rows, add, rem, q) = {}
                /\ Replayable(rows, add, rem, chg) => t = e.at
             /\ e.type \in chg /\ e.person = q /\ (\A i \in 1 .. Len(rows) : rows[i].at <= e.at) =>
                   t = e.time
  BY <1>2, <1>3, <1>7, ReadAtStored
<1>. QED  BY <1>4, <1>5, <1>6, <1>7 DEF SideStored, new

\* A passthrough's rows, when one of them is stored or its two removals are.
LEMMA PairedStores ==
    ASSUME NEW P, NEW rows \in SortedRows(P), NEW e \in EventRow(P), Paired(rows)
    PROVE  /\ e.type \notin {"AttendeeScanIn", "AttendeeScanOut"} \cup InRem \cup OutRem =>
                 Paired(Stored(rows, e))
           /\ \A f \in EventRow(P) :
                 /\ e.type \in InRem /\ f.type \in OutRem /\ e.person = f.person /\ e.at = f.at
                 => Paired(Stored(Stored(rows, e), f))
<1>. DEFINE T == EventRow(P)
            new == Stored(rows, e)
<1>1. PICK phi : \E h : Shifts(phi, h, new, rows, e)
  BY StoredShifts
<1>2. PICK h : Shifts(phi, h, new, rows, e)
  BY <1>1
<1>3. rows \in Seq(T) /\ new \in Seq(T) /\ new \in SortedRows(P)
  BY StoredRows DEF SortedRows
<1>. HIDE DEF new
<1>4. ASSUME e.type \notin {"AttendeeScanIn", "AttendeeScanOut"} \cup InRem \cup OutRem
      PROVE  Paired(new)
  <2>. HIDE DEF T
  <2>. QED  BY <1>2, <1>3, <1>4, PairedStored
<1>5. ASSUME NEW f \in EventRow(P), e.type \in InRem, f.type \in OutRem,
             e.person = f.person, e.at = f.at
      PROVE  Paired(Stored(new, f))
  <2>. DEFINE newer == Stored(new, f)
  <2>1. PICK psi : \E g : Shifts(psi, g, newer, new, f)
    BY <1>3, StoredShifts
  <2>2. PICK g : Shifts(psi, g, newer, new, f)
    BY <2>1
  <2>3. e.at \in Nat
    BY DEF EventRow
  <2>. HIDE DEF newer, T
  <2>4. Paired(newer)
    BY <1>2, <1>3, <1>5, <2>2, <2>3, PairedRemoved
  <2>. QED  BY <2>4 DEF newer
<1>. QED  BY <1>4, <1>5 DEF new

\* What an operation's events make of the rows.
Appends(new, rows, events, type, S, c, t) ==
    \/ new = rows
    \/ \E k \in EventType :
          /\ Done(k, type, S, c) /\ HasRow(events, Event(k, c))
          /\ new = Stored(rows, StampedRow(Event(k, c), t))
    \/ /\ type = "Passthrough" /\ IsRead(S.in, c.person) /\ IsRead(S.out, c.person)
       /\ HasRow(events, Event("AttendeeScanInRemoved", c))
       /\ HasRow(events, Event("AttendeeScanOutRemoved", c))
       /\ new = Stored(Stored(rows, Event("AttendeeScanInRemoved", c)),
                       Event("AttendeeScanOutRemoved", c))

\* Whatever an operation does is appended so.
LEMMA DoesAppend ==
    ASSUME NEW P, NEW rows \in SortedRows(P), NEW events, NEW type, NEW S, NEW c, IsInfo(c, P),
           Does(events, P, type, S, c), NEW t \in Nat
    PROVE  Appends(AllStored(rows, StampedRows(events, t)), rows, events, type, S, c, t)
<1>. DEFINE new == AllStored(rows, StampedRows(events, t))
            ei == Event("AttendeeScanInRemoved", c)
            eo == Event("AttendeeScanOutRemoved", c)
<1>1. events \in Seq(EventRow(P))
  BY DEF Does
<1>2. /\ NoneDoes(events) => new = rows
      /\ \A e : OnlyDoes(events, e) /\ ~ChangesNothing(e) => new = Stored(rows, StampedRow(e, t))
      /\ Len(events) = 2 /\ ~ChangesNothing(events[1]) /\ ~ChangesNothing(events[2]) =>
            new = Stored(Stored(rows, StampedRow(events[1], t)), StampedRow(events[2], t))
  <2>1. StoresTo(new, rows, events, t)
    BY <1>1, StampedStored
  <2>. HIDE DEF new
  <2>. QED  BY <2>1 DEF StoresTo
<1>. HIDE DEF new
<1>3. CASE NoneDoes(events)
  BY <1>2, <1>3 DEF Appends, new
<1>4. ASSUME NEW k \in EventType, Done(k, type, S, c), OnlyDoes(events, Event(k, c)),
             ~ChangesNothing(Event(k, c))
      PROVE  Appends(new, rows, events, type, S, c, t)
  <2>1. HasRow(events, Event(k, c))
    BY <1>4 DEF OnlyDoes, HasRow
  <2>2. new = Stored(rows, StampedRow(Event(k, c), t))
    BY <1>2, <1>4
  <2>. QED  BY <1>4, <2>1, <2>2 DEF Appends
<1>5. ASSUME type = "Passthrough", IsRead(S.in, c.person), IsRead(S.out, c.person),
             Len(events) = 2, events[1] = ei, events[2] = eo
      PROVE  Appends(new, rows, events, type, S, c, t)
  <2>1. ~ChangesNothing(ei) /\ ~ChangesNothing(eo)
    BY DEF Event, ChangesNothing, RemovesIn, RemovesOut
  <2>2. StampedRow(ei, t) = ei /\ StampedRow(eo, t) = eo
    BY DEF Event, StampedRow, ChangesIn, ChangesOut
  <2>. HIDE DEF ei, eo
  <2>3. new = Stored(Stored(rows, ei), eo)
    BY <1>2, <1>5, <2>1, <2>2
  <2>4. HasRow(events, ei) /\ HasRow(events, eo)
    BY <1>1, <1>5 DEF HasRow
  <2>. QED  BY <1>5, <2>3, <2>4 DEF Appends, ei, eo
<1>. QED  BY <1>3, <1>4, <1>5 DEF Does, new

=============================================================================
