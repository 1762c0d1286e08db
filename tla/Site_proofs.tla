------------------------------ MODULE Site_proofs ------------------------------
(***************************************************************************)
(* Theorems about the pages: the list of happenings, for any keys and      *)
(* bounds; the views and the menu, for any addresses and walkers.          *)
(***************************************************************************)
EXTENDS Site, WellFoundedInduction, SequenceTheorems, TLAPS

-----------------------------------------------------------------------------
(* The list of happenings: what there is.                                  *)

Kinds == {"CreateHappening", "ChangeDefaultHappening", "DeleteHappening", "AddCoordinatePath"}

\* A sequence, of whatever.
IsList(s) == Len(s) \in Nat /\ s = [i \in 1 .. Len(s) |-> s[i]]

\* Happenings have keys of their own and at most a row each; whatever has a row has been
\* created, and the row of the default is marked.
ListTypes ==
    /\ happenings \in Seq(Key)
    /\ \A i, j \in DOMAIN happenings : happenings[i] = happenings[j] => i = j
    /\ IsList(model) /\ DOMAIN model = 1 .. Len(model)
    /\ \A i \in DOMAIN model : model[i].key \in everCreated
    /\ \A i, j \in DOMAIN model : model[i].key = model[j].key => i = j
    /\ ToSet(happenings) \subseteq everCreated /\ everCreated \subseteq Key
    /\ default \in ToSet(happenings) \cup {NoKey}
    /\ default # NoKey => marked = Mark(default)

Ask(kind, k) == \E c \in commands : c.kind = kind /\ c.key = k

\* What has been created or is about to be.
Known == everCreated \cup {c.key : c \in {d \in commands : d.kind = "CreateHappening"}}

\* The commands are numbered as they are given.
CommandTypes ==
    /\ given \in Nat
    /\ \A c \in commands : c.number \in 1 .. given /\ c.kind \in Kinds /\ c.key \in Key
    /\ \A c, d \in commands : c.number = d.number => c = d
    /\ \A c \in commands : c.kind = "DeleteHappening" => c.key \in Known

EditorTypes ==
    /\ DOMAIN editor = DOMAIN Unopened
    /\ editor.loaded \in BOOLEAN /\ editor.bound \in BOOLEAN /\ editor.asked \in Nat
    /\ IsList(editor.rows) /\ DOMAIN editor.rows = 1 .. Len(editor.rows)
    /\ \A i \in DOMAIN editor.rows : editor.rows[i].key \in Key /\ editor.rows[i].key \in Known
    /\ editor.dead \subseteq everCreated

\* A creation that will be refused.
Hopeless ==
    \/ \E k \in everCreated : Ask("CreateHappening", k)
    \/ \E c, d \in commands :
          c # d /\ c.kind = "CreateHappening" /\ d.kind = "CreateHappening" /\ c.key = d.key

\* A happening is there or will be.
Coming(k) ==
    (k \in ToSet(happenings) \/ Ask("CreateHappening", k)) /\ ~Ask("DeleteHappening", k)

\* The rows are the happenings to come, once each.
RowsPromise ==
    \A k \in Key \ editor.dead :
        /\ k \in KeysOf(editor.rows) <=> Coming(k)
        /\ \A i, j \in DOMAIN editor.rows :
              editor.rows[i].key = k /\ editor.rows[j].key = k => i = j

\* The commands that change the default, before number n.
Changes(C, n) == {c \in C : c.kind = "ChangeDefaultHappening" /\ c.number < n}

\* k will be the default when the commands in C before number n have been handled.
WillBe(C, now, n, k) ==
    \/ Changes(C, n) = {} /\ k = now
    \/ \E c \in Changes(C, n) : c.key = k /\ \A d \in Changes(C, n) : d.number <= c.number

\* The default is what was chosen, if there is one, unless it was missed and is not among
\* the rows; and none that is deleted.
DefaultPromise ==
    /\ \E k \in {editor.chosen, NoKey} \cup (editor.dead \ KeysOf(editor.rows)) :
          WillBe(commands, default, given + 1, k)
    /\ \A c \in commands :
          c.kind = "DeleteHappening" => ~WillBe(commands, default, c.number, c.key)

Trusted == editor.loaded /\ editor.bound /\ mishaps = {}

ListInv ==
    /\ ListTypes /\ CommandTypes /\ EditorTypes
    /\ Trusted => Hopeless \/ (RowsPromise /\ DefaultPromise)

-----------------------------------------------------------------------------
(* Sequences.                                                              *)

\* A sequence is such a list.
LEMMA SeqIsList == ASSUME NEW S, NEW s \in Seq(S) PROVE IsList(s) /\ DOMAIN s = 1 .. Len(s)
BY DEF IsList

\* Such a list is a sequence of its own elements.
LEMMA ListIsSeq == ASSUME NEW s, IsList(s) PROVE s \in Seq({s[i] : i \in 1 .. Len(s)})
<1>. DEFINE S == {s[i] : i \in 1 .. Len(s)}
<1>1. s = [i \in 1 .. Len(s) |-> s[i]] /\ Len(s) \in Nat
  BY DEF IsList
<1>2. [i \in 1 .. Len(s) |-> s[i]] \in [1 .. Len(s) -> S]
  OBVIOUS
<1>. HIDE DEF S
<1>3. s \in Seq(S)
  BY <1>1, <1>2, SeqDef
<1>. QED  BY <1>3 DEF S

\* A row more at its end.
LEMMA ListWithRow ==
    ASSUME NEW s, IsList(s), NEW e
    PROVE  /\ IsList(Append(s, e)) /\ DOMAIN Append(s, e) = 1 .. Len(s) + 1
           /\ Len(Append(s, e)) = Len(s) + 1 /\ Append(s, e)[Len(s) + 1] = e
           /\ \A i \in 1 .. Len(s) : Append(s, e)[i] = s[i]
<1>1. PICK S : s \in Seq(S) /\ e \in S
  <2>1. {s[i] : i \in 1 .. Len(s)} \subseteq {s[i] : i \in 1 .. Len(s)} \cup {e}
    OBVIOUS
  <2>2. s \in Seq({s[i] : i \in 1 .. Len(s)} \cup {e})
    BY <2>1, ListIsSeq, SeqDef DEF IsList
  <2>. QED  BY <2>2
<1>2. /\ Append(s, e) \in Seq(S) /\ Len(Append(s, e)) = Len(s) + 1
      /\ Append(s, e)[Len(s) + 1] = e /\ \A i \in 1 .. Len(s) : Append(s, e)[i] = s[i]
  BY <1>1
<1>3. IsList(Append(s, e)) /\ DOMAIN Append(s, e) = 1 .. Len(Append(s, e))
  BY <1>2, SeqIsList
<1>. QED  BY <1>2, <1>3

\* A row changed.
LEMMA ListChanged ==
    ASSUME NEW s, IsList(s), NEW i, NEW t, t = [s EXCEPT ![i] = t[i]]
    PROVE  IsList(t) /\ DOMAIN t = 1 .. Len(s) /\ Len(t) = Len(s)
<1>1. s = [j \in 1 .. Len(s) |-> s[j]] /\ Len(s) \in Nat
  BY DEF IsList
<1>2. t = [j \in 1 .. Len(s) |-> t[j]]
  BY <1>1
<1>3. t \in Seq({t[j] : j \in 1 .. Len(s)}) /\ Len(t) = Len(s)
  <2>. DEFINE T == {t[j] : j \in 1 .. Len(s)}
  <2>1. [j \in 1 .. Len(s) |-> t[j]] \in [1 .. Len(s) -> T]
    OBVIOUS
  <2>. HIDE DEF T
  <2>2. t \in [1 .. Len(s) -> T]
    BY <1>2, <2>1
  <2>3. t \in Seq(T) /\ Len(t) = Len(s)
    BY <1>1, <2>2, SeqDef
  <2>. QED  BY <2>3 DEF T
<1>. QED  BY <1>3, SeqIsList

\* What is left of a list when a row is taken out.
LEMMA RowTaken ==
    ASSUME NEW S, NEW s \in Seq(S), NEW i \in DOMAIN s
    PROVE  /\ RemoveAt(s, i) \in Seq(S) /\ Len(RemoveAt(s, i)) = Len(s) - 1
           /\ \A j \in 1 .. Len(s) - 1 : RemoveAt(s, i)[j] = s[IF j < i THEN j ELSE j + 1]
<1>1. i \in 1 .. Len(s) /\ Len(s) \in Nat
  OBVIOUS
<1>2. /\ SubSeq(s, 1, i - 1) \in Seq(S) /\ Len(SubSeq(s, 1, i - 1)) = i - 1
      /\ \A j \in 1 .. i - 1 : SubSeq(s, 1, i - 1)[j] = s[j]
  BY <1>1
<1>3. /\ SubSeq(s, i + 1, Len(s)) \in Seq(S) /\ Len(SubSeq(s, i + 1, Len(s))) = Len(s) - i
      /\ \A j \in 1 .. Len(s) - i : SubSeq(s, i + 1, Len(s))[j] = s[i + j]
  BY <1>1
<1>. DEFINE a == SubSeq(s, 1, i - 1)
            b == SubSeq(s, i + 1, Len(s))
<1>4. RemoveAt(s, i) = a \o b
  BY DEF RemoveAt
<1>. HIDE DEF a, b
<1>5. /\ a \in Seq(S) /\ b \in Seq(S) /\ Len(a) = i - 1 /\ Len(b) = Len(s) - i
      /\ \A j \in 1 .. i - 1 : a[j] = s[j]
      /\ \A j \in 1 .. Len(s) - i : b[j] = s[i + j]
  BY <1>2, <1>3 DEF a, b
<1>6. a \o b \in Seq(S) /\ Len(a \o b) = Len(s) - 1
  BY <1>1, <1>5
<1>7. ASSUME NEW j \in 1 .. Len(s) - 1 PROVE (a \o b)[j] = s[IF j < i THEN j ELSE j + 1]
  <2>1. CASE j < i
    BY <1>1, <1>5, <1>7, <2>1
  <2>2. CASE ~(j < i)
    <3>1. (a \o b)[j] = b[j - Len(a)]
      BY <1>1, <1>5, <1>7, <2>2
    <3>2. j - Len(a) \in 1 .. Len(s) - i /\ i + (j - Len(a)) = j + 1
      BY <1>1, <1>5, <1>7, <2>2
    <3>. QED  BY <1>5, <2>2, <3>1, <3>2
  <2>. QED  BY <2>1, <2>2
<1>. QED  BY <1>4, <1>6, <1>7

-----------------------------------------------------------------------------
(* Steps of the view.                                                      *)

\* Commands on their way, and what the server has, are as they were.
ServerStays == UNCHANGED <<serverVars, commands, given>>

\* Then what is to come is as it was, too.
LEMMA StaysToCome ==
    ASSUME ServerStays
    PROVE  /\ ListTypes => ListTypes'
           /\ Known' = Known
           /\ CommandTypes => CommandTypes'
           /\ Hopeless' = Hopeless
           /\ \A k : Coming(k)' = Coming(k)
BY DEF ServerStays, serverVars, ListTypes, CommandTypes, Known, Hopeless, Coming, Ask, ToSet, KeysOf,
       Mark

\* A step of the view that gives no command and leaves the keys of the rows alone.
LEMMA RowsStay ==
    ASSUME ListInv, ServerStays, EditorTypes', mishaps \subseteq mishaps',
           editor'.loaded = editor.loaded, editor'.bound => editor.bound,
           editor'.chosen = editor.chosen, editor'.dead = editor.dead,
           DOMAIN editor'.rows = DOMAIN editor.rows,
           \A i \in DOMAIN editor.rows : editor'.rows[i].key = editor.rows[i].key
    PROVE  ListInv'
<1>1. Trusted' => Trusted
  BY DEF Trusted
<1>2. KeysOf(editor'.rows) = KeysOf(editor.rows)
  BY DEF KeysOf
<1>3. RowsPromise => RowsPromise'
  BY <1>2, StaysToCome DEF RowsPromise
<1>4. DefaultPromise => DefaultPromise'
  BY <1>2 DEF DefaultPromise, ServerStays, serverVars
<1>. QED  BY <1>1, <1>3, <1>4, StaysToCome DEF ListInv

\* A new page shows nothing yet.
LEMMA NewView ==
    ASSUME ListInv, ServerStays, EditorTypes', ~editor'.loaded
    PROVE  ListInv'
BY StaysToCome DEF ListInv, Trusted

\* The view before its data are there.
LEMMA UnopenedTypes ==
    ASSUME editor' = Unopened \/ editor' = [Unopened EXCEPT !.asked = 1]
    PROVE  EditorTypes' /\ ~editor'.loaded
<1>1. IsList(<<>>) /\ DOMAIN <<>> = 1 .. Len(<<>>)
  <2>1. <<>> \in Seq({})
    OBVIOUS
  <2>. QED  BY <2>1, SeqIsList
<1>2. /\ editor'.rows = <<>> /\ DOMAIN editor' = DOMAIN Unopened /\ editor'.asked \in Nat
      /\ editor'.loaded = FALSE /\ editor'.bound = TRUE /\ editor'.dead = {}
  BY DEF Unopened
<1>3. DOMAIN editor'.rows = {}
  BY <1>2
<1>4. IsList(editor'.rows) /\ DOMAIN editor'.rows = 1 .. Len(editor'.rows)
  BY <1>1, <1>2
<1>. QED  BY <1>2, <1>3, <1>4 DEF EditorTypes

\* The view is opened.
LEMMA OnloadKeeps == ASSUME ListInv, OnloadHappenings PROVE ListInv'
<1>1. ServerStays /\ mishaps' = mishaps
  BY DEF OnloadHappenings, ServerStays
<1>2. EditorTypes
  BY DEF ListInv
<1>3. EditorTypes'
  BY <1>1, <1>2, StaysToCome DEF OnloadHappenings, EditorTypes, ServerStays, serverVars
<1>. QED  BY <1>1, <1>2, <1>3, RowsStay DEF OnloadHappenings, EditorTypes

\* The list as it was loaded is right about all that is there once.
LEMMA LoadKeeps == ASSUME ListInv, LoadHappenings PROVE ListInv'
<1>1. ServerStays /\ EditorTypes /\ ListTypes /\ CommandTypes
  BY DEF LoadHappenings, ServerStays, ListInv
<1>2. CASE editor.loaded
  <2>1. EditorTypes'
    <3>1. editor' = [editor EXCEPT !.asked = editor.asked - 1, !.bound = FALSE] /\ editor.asked > 0
      BY <1>2 DEF LoadHappenings
    <3>2. everCreated' = everCreated /\ Known' = Known
      BY <1>1, StaysToCome DEF ServerStays, serverVars
    <3>3. /\ DOMAIN editor' = DOMAIN editor /\ editor'.loaded = editor.loaded /\ editor'.bound = FALSE
          /\ editor'.asked = editor.asked - 1 /\ editor'.rows = editor.rows
          /\ editor'.chosen = editor.chosen /\ editor'.dead = editor.dead
      BY <1>1, <3>1 DEF EditorTypes, Unopened
    <3>. QED  BY <1>1, <3>1, <3>2, <3>3 DEF EditorTypes
  <2>2. ~Trusted'
    BY <1>1, <1>2 DEF LoadHappenings, Trusted, EditorTypes
  <2>. QED  BY <1>1, <2>1, <2>2, StaysToCome DEF ListInv
<1>3. CASE ~editor.loaded
  <2>1. /\ editor'.loaded /\ editor'.rows = model /\ editor'.chosen = marked
        /\ editor'.dead = Strays
        /\ DOMAIN editor' = DOMAIN editor /\ editor'.bound = editor.bound
        /\ editor'.asked = editor.asked - 1 /\ editor.asked > 0
        /\ mishaps' = IF commands = {} THEN mishaps \ {"else"} ELSE mishaps \cup {"else"}
    BY <1>1, <1>3 DEF LoadHappenings, EditorTypes, Unopened
  <2>2. EditorTypes'
    <3>1. editor'.dead \subseteq everCreated
      BY <1>1, <2>1 DEF Strays, ListTypes, KeysOf
    <3>. QED  BY <1>1, <2>1, <3>1 DEF EditorTypes, ListTypes, Known, ServerStays, serverVars
  <2>3. ASSUME Trusted' PROVE RowsPromise' /\ DefaultPromise'
    <3>1. commands = {}
      BY <2>1, <2>3 DEF Trusted
    <3>2. ASSUME NEW k \in Key \ editor'.dead
          PROVE  /\ k \in KeysOf(editor'.rows) <=> k \in ToSet(happenings)
                 /\ \A i, j \in DOMAIN editor'.rows :
                       editor'.rows[i].key = k /\ editor'.rows[j].key = k => i = j
      <4>1. k \in KeysOf(model) <=> k \in ToSet(happenings)
        BY <2>1, <3>2 DEF Strays
      <4>. QED  BY <1>1, <2>1, <4>1 DEF ListTypes
    <3>3. \A k : Coming(k)' <=> k \in ToSet(happenings)
      BY <1>1, <3>1 DEF Coming, Ask, ServerStays, serverVars, ToSet
    <3>4. RowsPromise'
      BY <3>2, <3>3 DEF RowsPromise
    <3>5. DefaultPromise'
      <4>1. commands' = {} /\ default' = default
        BY <1>1, <3>1 DEF ServerStays, serverVars
      <4>2. \A n, k : WillBe(commands', default', n, k) <=> k = default
        BY <4>1 DEF WillBe, Changes
      <4>3. default # NoKey => default = editor'.chosen
                               \/ default \in editor'.dead \ KeysOf(editor'.rows)
        <5>1. CASE default \in KeysOf(model)
          BY <1>1, <2>1, <5>1 DEF ListTypes, Mark
        <5>2. CASE default \notin KeysOf(model) /\ default \in ToSet(happenings)
          BY <2>1, <5>2 DEF Strays
        <5>. QED  BY <1>1, <5>1, <5>2 DEF ListTypes
      <4>. QED  BY <4>1, <4>2, <4>3 DEF DefaultPromise
    <3>. QED  BY <3>4, <3>5
  <2>. QED  BY <1>1, <2>2, <2>3, StaysToCome DEF ListInv
<1>. QED  BY <1>2, <1>3

-----------------------------------------------------------------------------
(* Commands that are given.                                                *)

\* A command is given: its number is the highest.
Gives(c) ==
    /\ commands' = commands \cup {c} /\ given' = given + 1
    /\ c.number = given + 1 /\ c.kind \in Kinds /\ c.key \in Key
    /\ c.kind = "DeleteHappening" => c.key \in Known
    /\ UNCHANGED serverVars

\* A command given: it may be about a happening, and create one, and nothing else is lost.
LEMMA GivesTypes ==
    ASSUME ListInv, NEW c, Gives(c)
    PROVE  /\ ListTypes' /\ CommandTypes'
           /\ Known \subseteq Known'
           /\ Hopeless => Hopeless'
           /\ \A kind, k : Ask(kind, k)' <=> Ask(kind, k) \/ (c.kind = kind /\ c.key = k)
           /\ \A n \in Nat : n <= given + 1 => Changes(commands', n) = Changes(commands, n)
<1>1. ListTypes /\ CommandTypes
  BY DEF ListInv
<1>2. ListTypes'
  <2>1. UNCHANGED serverVars
    BY DEF Gives
  <2>. QED  BY <1>1, <2>1 DEF ListTypes, serverVars, ToSet, KeysOf, Mark
<1>4. \A kind, k : Ask(kind, k)' <=> Ask(kind, k) \/ (c.kind = kind /\ c.key = k)
  BY DEF Ask, Gives
<1>7. Known \subseteq Known'
  BY <1>4 DEF Known, Gives, serverVars
<1>3. CommandTypes'
  BY <1>1, <1>7 DEF CommandTypes, Gives
<1>5. Hopeless => Hopeless'
  BY <1>4 DEF Hopeless, Gives, serverVars
<1>6. ASSUME NEW n \in Nat, n <= given + 1 PROVE Changes(commands', n) = Changes(commands, n)
  BY <1>1, <1>6 DEF Changes, Gives, CommandTypes
<1>. QED  BY <1>2, <1>3, <1>4, <1>5, <1>6, <1>7

\* A command that says nothing about the default, and deletes none that is chosen.
LEMMA GivesDefault ==
    ASSUME ListInv, NEW c, Gives(c), DefaultPromise, c.kind # "ChangeDefaultHappening",
           editor'.chosen = editor.chosen, editor'.dead = editor.dead,
           \A k \in editor.dead \ KeysOf(editor.rows) : k \notin KeysOf(editor'.rows),
           c.kind = "DeleteHappening" => c.key # editor.chosen /\ c.key \in KeysOf(editor.rows)
    PROVE  DefaultPromise'
<1>1. CommandTypes /\ CommandTypes' /\ given \in Nat /\ given' = given + 1 /\ default' = default
  BY GivesTypes DEF ListInv, CommandTypes, Gives, serverVars
<1>2. Changes(commands', given' + 1) = Changes(commands, given + 1)
  BY <1>1 DEF Changes, Gives, CommandTypes
<1>3. ASSUME NEW d \in commands', d.kind = "DeleteHappening"
      PROVE  ~WillBe(commands', default', d.number, d.key)
  <2>1. CASE d \in commands
    <3>1. d.number \in Nat /\ d.number <= given + 1
      BY <1>1, <2>1 DEF CommandTypes
    <3>2. Changes(commands', d.number) = Changes(commands, d.number)
      BY <3>1, GivesTypes
    <3>. QED  BY <1>1, <1>3, <2>1, <3>2 DEF DefaultPromise, WillBe
  <2>2. CASE d = c
    <3>1. d.key \notin {editor.chosen, NoKey} \cup (editor.dead \ KeysOf(editor.rows))
          /\ d.number = given + 1
      BY <1>3, <2>2, HappeningAssumption DEF Gives
    <3>2. PICK k \in {editor.chosen, NoKey} \cup (editor.dead \ KeysOf(editor.rows)) :
              WillBe(commands, default, given + 1, k)
      BY DEF DefaultPromise
    <3>3. Changes(commands', given + 1) = Changes(commands, given + 1)
      BY <1>1, GivesTypes
    <3>4. WillBe(commands', default', given + 1, d.key) => d.key = k
      <4>1. \A a, b \in Changes(commands, given + 1) :
               a.number <= b.number /\ b.number <= a.number => a = b
        BY <1>1 DEF Changes, CommandTypes
      <4>. QED  BY <1>1, <3>2, <3>3, <4>1 DEF WillBe
    <3>. QED  BY <3>1, <3>2, <3>4
  <2>. QED  BY <2>1, <2>2 DEF Gives
<1>. QED  BY <1>1, <1>2, <1>3 DEF DefaultPromise, WillBe

\* A happening is created: it has a row from now on, and will have one.
LEMMA SaveNewKeeps == ASSUME ListInv, NEW k \in Key, SaveNewHappening(k) PROVE ListInv'
<1>. DEFINE c == Command("CreateHappening", k)
<1>1. Gives(c) /\ c.kind = "CreateHappening" /\ c.key = k /\ mishaps' = mishaps
  BY DEF SaveNewHappening, Send, Command, Gives, Kinds
<1>2. ListTypes /\ CommandTypes /\ EditorTypes
  BY DEF ListInv
<1>3. ListTypes' /\ CommandTypes' /\ (Hopeless => Hopeless')
      /\ \A kind, l : Ask(kind, l)' <=> Ask(kind, l) \/ (c.kind = kind /\ c.key = l)
  BY <1>1, GivesTypes
<1>4. /\ DOMAIN editor' = DOMAIN editor /\ editor'.loaded = editor.loaded
      /\ editor'.bound = editor.bound /\ editor'.asked = editor.asked
      /\ editor'.chosen = editor.chosen /\ editor'.dead = editor.dead
      /\ editor'.rows = IF editor.bound THEN Append(editor.rows, Row(k)) ELSE editor.rows
  BY <1>2 DEF SaveNewHappening, EditorTypes, Unopened
<1>5. /\ editor.bound =>
            /\ DOMAIN editor'.rows = 1 .. Len(editor.rows) + 1
            /\ Len(editor'.rows) = Len(editor.rows) + 1
            /\ editor'.rows[Len(editor.rows) + 1].key = k
            /\ \A i \in DOMAIN editor.rows : editor'.rows[i] = editor.rows[i]
      /\ IsList(editor'.rows) /\ DOMAIN editor'.rows = 1 .. Len(editor'.rows)
      /\ Len(editor.rows) \in Nat
  <2>1. /\ IsList(editor.rows) /\ DOMAIN editor.rows = 1 .. Len(editor.rows)
        /\ Len(editor.rows) \in Nat /\ Row(k).key = k
    BY <1>2 DEF EditorTypes, IsList, Row
  <2>2. CASE editor.bound
    <3>1. editor'.rows = Append(editor.rows, Row(k))
      BY <1>4, <2>2
    <3>. QED  BY <2>1, <3>1, ListWithRow
  <2>3. CASE ~editor.bound
    BY <1>4, <2>1, <2>3
  <2>. QED  BY <2>2, <2>3
<1>6. EditorTypes'
  <2>1. k \in Known' /\ Known \subseteq Known'
    <3>1. Known \subseteq Known' /\ c \in commands'
      BY <1>1, GivesTypes DEF Gives
    <3>. HIDE DEF c
    <3>2. k \in Known'
      BY <1>1, <3>1 DEF Known
    <3>. QED  BY <3>1, <3>2
  <2>2. everCreated' = everCreated
    BY <1>1 DEF Gives, serverVars
  <2>. HIDE DEF c
  <2>3. \A i \in DOMAIN editor'.rows : editor'.rows[i].key \in Key /\ editor'.rows[i].key \in Known'
    <3>1. ASSUME NEW i \in DOMAIN editor'.rows
          PROVE  editor'.rows[i].key = k \/ (i \in DOMAIN editor.rows /\ editor'.rows[i] = editor.rows[i])
      <4>1. CASE editor.bound
        <5>1. i \in 1 .. Len(editor.rows) + 1 /\ DOMAIN editor.rows = 1 .. Len(editor.rows)
          BY <1>2, <1>5, <3>1, <4>1 DEF EditorTypes
        <5>. QED  BY <1>5, <4>1, <5>1
      <4>2. CASE ~editor.bound
        BY <1>4, <3>1, <4>2
      <4>. QED  BY <4>1, <4>2
    <3>2. ASSUME NEW i \in DOMAIN editor'.rows, NEW l, l = editor'.rows[i].key
          PROVE  l \in Key /\ l \in Known'
      BY <1>2, <2>1, <3>1, <3>2 DEF EditorTypes
    <3>. QED  BY <3>2
  <2>. QED  BY <1>2, <1>4, <1>5, <2>2, <2>3 DEF EditorTypes
<1>7. ASSUME Trusted', ~Hopeless' PROVE RowsPromise' /\ DefaultPromise'
  <2>1. Trusted /\ RowsPromise /\ DefaultPromise
    <3>1. Trusted
      BY <1>1, <1>4, <1>7 DEF Trusted
    <3>. QED  BY <1>3, <1>7, <3>1 DEF ListInv
  <2>3. RowsPromise' /\ k \notin editor.dead
    <3>1. RowsPromise
      BY <2>1
    <3>2. k \notin everCreated /\ ~Ask("CreateHappening", k)
      <4>1. Ask("CreateHappening", k)' /\ everCreated' = everCreated
        BY <1>1, <1>3 DEF Gives, serverVars
      <4>2. c \notin commands
        BY <1>1, <1>2 DEF Gives, CommandTypes
      <4>3. \A d \in commands : d \in commands'
        BY <1>1 DEF Gives
      <4>4. c \in commands'
        BY <1>1 DEF Gives
      <4>. HIDE DEF c
      <4>5. ~Ask("CreateHappening", k)
        BY <1>1, <1>7, <4>2, <4>3, <4>4 DEF Hopeless, Ask
      <4>. QED  BY <1>7, <4>1, <4>5 DEF Hopeless
    <3>3. k \notin editor.dead /\ k \notin ToSet(happenings)
      BY <1>2, <3>2 DEF EditorTypes, ListTypes
    <3>4. k \notin KeysOf(editor.rows)
      BY <3>1, <3>2, <3>3 DEF RowsPromise, Coming
    <3>5. ~Ask("DeleteHappening", k)
      BY <1>2, <3>2 DEF CommandTypes, Known, Ask
    <3>6. Coming(k)' /\ \A l : l # k => (Coming(l)' <=> Coming(l))
      BY <1>1, <1>3, <3>5 DEF Coming, Gives, serverVars, ToSet
    <3>7. editor.bound
      BY <2>1 DEF Trusted
    <3>8. \A l : l \in KeysOf(editor'.rows) <=> l \in KeysOf(editor.rows) \/ l = k
      BY <1>2, <1>5, <3>7 DEF KeysOf, EditorTypes
    <3>9. ASSUME NEW l \in Key \ editor'.dead, NEW i \in DOMAIN editor'.rows, NEW j \in DOMAIN editor'.rows,
                 editor'.rows[i].key = l, editor'.rows[j].key = l
          PROVE  i = j
      <4>1. CASE l = k
        <5>1. \A n \in DOMAIN editor.rows : editor'.rows[n].key # k
          BY <1>5, <3>4, <3>7 DEF KeysOf
        <5>. QED  BY <1>2, <1>5, <3>7, <3>9, <4>1, <5>1 DEF EditorTypes
      <4>2. CASE l # k
        <5>1. i \in DOMAIN editor.rows /\ j \in DOMAIN editor.rows
          BY <1>2, <1>5, <3>7, <3>9, <4>2 DEF EditorTypes
        <5>. QED  BY <1>4, <1>5, <3>1, <3>7, <3>9, <5>1 DEF RowsPromise
      <4>. QED  BY <4>1, <4>2
    <3>10. RowsPromise'
      BY <1>4, <3>1, <3>6, <3>8, <3>9 DEF RowsPromise
    <3>. QED  BY <3>3, <3>10
  <2>2. DefaultPromise'
    <3>1. \A l \in editor.dead \ KeysOf(editor.rows) : l \notin KeysOf(editor'.rows)
      <4>1. editor.bound
        BY <2>1 DEF Trusted
      <4>2. \A l \in KeysOf(editor'.rows) : l \in KeysOf(editor.rows) \/ l = k
        BY <1>2, <1>5, <4>1 DEF KeysOf, EditorTypes
      <4>. QED  BY <2>3, <4>2
    <3>. HIDE DEF c
    <3>. QED  BY <1>1, <1>4, <2>1, <3>1, GivesDefault
  <2>. QED  BY <2>2, <2>3
<1>. QED  BY <1>3, <1>6, <1>7 DEF ListInv

\* Another default is chosen.
LEMMA SaveDefaultKeeps == ASSUME ListInv, NEW k \in Key, SaveDefault(k) PROVE ListInv'
<1>. DEFINE c == Command("ChangeDefaultHappening", k)
<1>1. Gives(c) /\ c.kind = "ChangeDefaultHappening" /\ c.key = k /\ mishaps' = mishaps
  BY DEF SaveDefault, Send, Command, Gives, Kinds
<1>2. ListTypes /\ CommandTypes /\ EditorTypes
  BY DEF ListInv
<1>3. ListTypes' /\ CommandTypes' /\ (Hopeless => Hopeless')
      /\ (\A kind, l : Ask(kind, l)' <=> Ask(kind, l) \/ (c.kind = kind /\ c.key = l))
      /\ Known \subseteq Known'
  BY <1>1, GivesTypes
<1>4. /\ DOMAIN editor' = DOMAIN editor /\ editor'.loaded = editor.loaded
      /\ editor'.bound = editor.bound /\ editor'.asked = editor.asked
      /\ editor'.chosen = k /\ editor'.dead = editor.dead /\ editor'.rows = editor.rows
  BY <1>2 DEF SaveDefault, EditorTypes, Unopened
<1>5. EditorTypes'
  BY <1>1, <1>2, <1>3, <1>4 DEF EditorTypes, Gives, serverVars
<1>6. ASSUME Trusted', ~Hopeless' PROVE RowsPromise' /\ DefaultPromise'
  <2>1. Trusted /\ RowsPromise /\ DefaultPromise
    <3>1. Trusted
      BY <1>1, <1>4, <1>6 DEF Trusted
    <3>. QED  BY <1>3, <1>6, <3>1 DEF ListInv
  <2>2. RowsPromise => RowsPromise'
    <3>1. \A l : Coming(l)' <=> Coming(l)
      BY <1>1, <1>3 DEF Coming, Gives, serverVars, ToSet
    <3>. QED  BY <1>4, <3>1 DEF RowsPromise
  <2>3. WillBe(commands', default', given' + 1, k)
    <3>1. c \in commands' /\ c.number = given + 1 /\ given' = given + 1
      BY <1>1 DEF Gives
    <3>2. \A d \in commands' : d.number <= given + 1
      BY <1>1, <1>2 DEF Gives, CommandTypes
    <3>3. c.number < given' + 1
      BY <1>2, <3>1 DEF CommandTypes
    <3>. HIDE DEF c
    <3>. QED  BY <1>1, <3>1, <3>2, <3>3 DEF WillBe, Changes
  <2>4. ASSUME NEW d \in commands', d.kind = "DeleteHappening"
        PROVE  ~WillBe(commands', default', d.number, d.key)
    <3>1. d \in commands
      BY <1>1, <2>4 DEF Gives
    <3>2. d.number \in Nat /\ d.number <= given + 1
      BY <1>2, <3>1 DEF CommandTypes
    <3>3. ~WillBe(commands, default, d.number, d.key)
      BY <2>1, <2>4, <3>1 DEF DefaultPromise
    <3>4. default' = default
      BY <1>1 DEF Gives, serverVars
    <3>. HIDE DEF c
    <3>5. Changes(commands', d.number) = Changes(commands, d.number)
      BY <1>1, <3>2, GivesTypes
    <3>. QED  BY <3>3, <3>4, <3>5 DEF WillBe
  <2>. QED  BY <1>4, <2>1, <2>2, <2>3, <2>4 DEF DefaultPromise
<1>. QED  BY <1>3, <1>5, <1>6 DEF ListInv

\* A path is added, which changes neither rows nor default.
LEMMA AddCoordinatesKeeps ==
    ASSUME ListInv, NEW i \in DOMAIN editor.rows, AddCoordinates(i) PROVE ListInv'
<1>1. PICK c : Gives(c) /\ c.kind = "AddCoordinatePath"
  <2>. DEFINE c == [Command("AddCoordinatePath", editor.rows[i].key) EXCEPT !.path = editor.rows[i].path]
  <2>1. editor.rows[i].key \in Key
    BY DEF ListInv, EditorTypes
  <2>2. Gives(c) /\ c.kind = "AddCoordinatePath"
    BY <2>1 DEF AddCoordinates, Send, Command, Gives, Kinds
  <2>. HIDE DEF c
  <2>. QED  BY <2>2
<1>2. editor' = editor /\ mishaps' = mishaps
  BY DEF AddCoordinates
<1>3. ListTypes' /\ CommandTypes' /\ (Hopeless => Hopeless')
      /\ (\A kind, l : Ask(kind, l)' <=> Ask(kind, l) \/ (c.kind = kind /\ c.key = l))
      /\ Known \subseteq Known'
  BY <1>1, GivesTypes
<1>4. EditorTypes'
  BY <1>1, <1>2, <1>3 DEF ListInv, EditorTypes, Gives, serverVars
<1>5. RowsPromise => RowsPromise'
  <2>1. \A l : Coming(l)' <=> Coming(l)
    BY <1>1, <1>3 DEF Coming, Gives, serverVars, ToSet
  <2>. QED  BY <1>2, <2>1 DEF RowsPromise
<1>6. DefaultPromise => DefaultPromise'
  BY <1>1, <1>2, GivesDefault
<1>. QED  BY <1>2, <1>3, <1>4, <1>5, <1>6 DEF ListInv, Trusted

\* Pasting and parsing leave the keys of the rows alone.
LEMMA PathKeeps ==
    ASSUME ListInv, NEW i \in DOMAIN editor.rows, Paste(i) \/ ParseCoordinates(i) PROVE ListInv'
<1>1. PICK path : editor' = [editor EXCEPT !.rows[i].path = path]
  BY DEF Paste, ParseCoordinates
<1>2. ServerStays /\ mishaps' = mishaps /\ EditorTypes
  BY DEF Paste, ParseCoordinates, ServerStays, ListInv
<1>3. /\ DOMAIN editor' = DOMAIN editor /\ editor'.loaded = editor.loaded
      /\ editor'.bound = editor.bound /\ editor'.asked = editor.asked
      /\ editor'.chosen = editor.chosen /\ editor'.dead = editor.dead
      /\ editor'.rows = [editor.rows EXCEPT ![i].path = path]
  BY <1>1, <1>2 DEF EditorTypes, Unopened
<1>4. /\ DOMAIN editor'.rows = DOMAIN editor.rows
      /\ \A j \in DOMAIN editor.rows : editor'.rows[j].key = editor.rows[j].key
  BY <1>3
<1>5. EditorTypes'
  <2>1. everCreated' = everCreated /\ Known' = Known
    BY <1>2, StaysToCome DEF ServerStays, serverVars
  <2>2. IsList(editor'.rows) /\ DOMAIN editor'.rows = 1 .. Len(editor'.rows)
    <3>1. IsList(editor.rows) /\ editor'.rows = [editor.rows EXCEPT ![i] = editor'.rows[i]]
      BY <1>2, <1>3 DEF EditorTypes
    <3>2. IsList(editor'.rows) /\ DOMAIN editor'.rows = 1 .. Len(editor.rows) /\ Len(editor'.rows) = Len(editor.rows)
      BY <3>1, ListChanged
    <3>. QED  BY <3>2
  <2>. QED  BY <1>2, <1>3, <1>4, <2>1, <2>2 DEF EditorTypes
<1>. QED  BY <1>2, <1>3, <1>4, <1>5, RowsStay

\* A happening is deleted, and has no row any more.
LEMMA DeleteKeeps ==
    ASSUME ListInv, NEW i \in DOMAIN editor.rows, DeleteHappening(i) PROVE ListInv'
<1>8. PICK k : k = editor.rows[i].key
  OBVIOUS
<1>9. PICK c : c = Command("DeleteHappening", k)
  OBVIOUS
<1>1. ListTypes /\ CommandTypes /\ EditorTypes
  BY DEF ListInv
<1>2. /\ Gives(c) /\ c.kind = "DeleteHappening" /\ c.key = k /\ k \in Key
      /\ mishaps' = IF k = editor.chosen THEN mishaps \cup {"left"} ELSE mishaps
  BY <1>1, <1>8, <1>9 DEF DeleteHappening, Send, Command, Gives, Kinds, EditorTypes
<1>3. /\ ListTypes' /\ CommandTypes' /\ (Hopeless => Hopeless')
      /\ (\A kind, l : Ask(kind, l)' <=> Ask(kind, l) \/ (c.kind = kind /\ c.key = l))
      /\ Known \subseteq Known'
  BY <1>2, GivesTypes
<1>4. /\ DOMAIN editor' = DOMAIN editor /\ editor'.loaded = editor.loaded
      /\ editor'.bound = editor.bound /\ editor'.asked = editor.asked
      /\ editor'.chosen = editor.chosen /\ editor'.dead = editor.dead
      /\ editor'.rows = IF editor.bound THEN RemoveAt(editor.rows, i) ELSE editor.rows
  BY <1>1 DEF DeleteHappening, EditorTypes, Unopened
<1>5. editor.bound =>
         /\ DOMAIN editor'.rows = 1 .. Len(editor.rows) - 1
         /\ Len(editor'.rows) = Len(editor.rows) - 1 /\ IsList(editor'.rows)
         /\ \A j \in 1 .. Len(editor.rows) - 1 :
               editor'.rows[j] = editor.rows[IF j < i THEN j ELSE j + 1]
  <2>1. PICK S : editor.rows \in Seq(S)
    BY <1>1, ListIsSeq DEF EditorTypes
  <2>2. /\ RemoveAt(editor.rows, i) \in Seq(S) /\ Len(RemoveAt(editor.rows, i)) = Len(editor.rows) - 1
        /\ \A j \in 1 .. Len(editor.rows) - 1 :
              RemoveAt(editor.rows, i)[j] = editor.rows[IF j < i THEN j ELSE j + 1]
    BY <2>1, RowTaken
  <2>. QED  BY <1>4, <2>2, SeqIsList
<1>6. EditorTypes'
  <2>1. Len(editor.rows) \in Nat \ {0} /\ i \in 1 .. Len(editor.rows)
    BY <1>1 DEF EditorTypes, IsList
  <2>2. everCreated' = everCreated
    BY <1>2 DEF Gives, serverVars
  <2>3. ASSUME NEW j \in DOMAIN editor'.rows
        PROVE  \E l \in DOMAIN editor.rows : editor'.rows[j] = editor.rows[l]
    <3>1. CASE editor.bound
      <4>1. j \in 1 .. Len(editor.rows) - 1 /\ editor'.rows[j] = editor.rows[IF j < i THEN j ELSE j + 1]
        BY <1>5, <2>3, <3>1
      <4>2. j \in DOMAIN editor.rows /\ j + 1 \in DOMAIN editor.rows
        BY <1>1, <2>1, <4>1 DEF EditorTypes
      <4>. QED  BY <4>1, <4>2
    <3>2. CASE ~editor.bound
      BY <1>4, <2>3, <3>2
    <3>. QED  BY <3>1, <3>2
  <2>4. DOMAIN editor'.rows = 1 .. Len(editor'.rows) /\ IsList(editor'.rows)
    <3>1. CASE editor.bound
      BY <1>5, <3>1
    <3>2. CASE ~editor.bound
      BY <1>1, <1>4, <3>2 DEF EditorTypes
    <3>. QED  BY <3>1, <3>2
  <2>. QED  BY <1>1, <1>3, <1>4, <2>2, <2>3, <2>4 DEF EditorTypes
<1>7. ASSUME Trusted', ~Hopeless' PROVE RowsPromise' /\ DefaultPromise'
  <2>1. k # editor.chosen /\ editor.bound /\ RowsPromise /\ DefaultPromise
    <3>1. Trusted /\ k # editor.chosen /\ editor.bound
      BY <1>2, <1>4, <1>7 DEF Trusted
    <3>. QED  BY <1>3, <1>7, <3>1 DEF ListInv
  <2>2. DefaultPromise'
    <3>1. k \in KeysOf(editor.rows)
      BY <1>8 DEF KeysOf
    <3>2. KeysOf(editor'.rows) \subseteq KeysOf(editor.rows)
      <4>1. ASSUME NEW j \in DOMAIN editor'.rows
            PROVE  \E l \in DOMAIN editor.rows : editor'.rows[j] = editor.rows[l]
        <5>1. Len(editor.rows) \in Nat /\ i \in 1 .. Len(editor.rows)
          BY <1>1 DEF EditorTypes, IsList
        <5>2. j \in 1 .. Len(editor.rows) - 1 /\ editor'.rows[j] = editor.rows[IF j < i THEN j ELSE j + 1]
          BY <1>5, <2>1, <4>1
        <5>3. j \in DOMAIN editor.rows /\ j + 1 \in DOMAIN editor.rows
          BY <1>1, <5>1, <5>2 DEF EditorTypes
        <5>. QED  BY <5>2, <5>3
      <4>. QED  BY <4>1 DEF KeysOf
    <3>. QED  BY <1>2, <1>4, <2>1, <3>1, <3>2, GivesDefault
  <2>3. RowsPromise'
    <3>1. \A l : l # k => (Coming(l)' <=> Coming(l))
      BY <1>2, <1>3 DEF Coming, Gives, serverVars, ToSet
    <3>2. ~Coming(k)'
      BY <1>2, <1>3 DEF Coming
    <3>3. i \in 1 .. Len(editor.rows) /\ Len(editor.rows) \in Nat
      BY <1>1 DEF EditorTypes, IsList
    <3>4. ASSUME NEW j \in DOMAIN editor.rows, j # i
          PROVE  \E n \in DOMAIN editor'.rows : editor'.rows[n] = editor.rows[j]
      <4>1. j \in 1 .. Len(editor.rows)
        BY <1>1 DEF EditorTypes, IsList
      <4>2. CASE j < i
        BY <1>5, <2>1, <3>3, <4>1, <4>2
      <4>3. CASE ~(j < i)
        <5>1. j - 1 \in 1 .. Len(editor.rows) - 1 /\ ~(j - 1 < i) /\ j - 1 + 1 = j
          BY <3>3, <3>4, <4>1, <4>3
        <5>. QED  BY <1>5, <2>1, <5>1
      <4>. QED  BY <4>2, <4>3
    <3>5. \A j \in DOMAIN editor'.rows : \E l \in DOMAIN editor.rows \ {i} :
             editor'.rows[j] = editor.rows[l] /\ l = IF j < i THEN j ELSE j + 1
      <4>1. ASSUME NEW j \in 1 .. Len(editor.rows) - 1
            PROVE  /\ (IF j < i THEN j ELSE j + 1) \in 1 .. Len(editor.rows)
                   /\ (IF j < i THEN j ELSE j + 1) # i
        BY <3>3, <4>1
      <4>. QED  BY <1>1, <1>5, <2>1, <4>1 DEF EditorTypes
    <3>6. ASSUME NEW l \in Key \ editor.dead
          PROVE  /\ l \in KeysOf(editor'.rows) <=> Coming(l)'
                 /\ \A m, n \in DOMAIN editor'.rows :
                       editor'.rows[m].key = l /\ editor'.rows[n].key = l => m = n
      <4>1. \A m, n \in DOMAIN editor.rows :
               editor.rows[m].key = l /\ editor.rows[n].key = l => m = n
        BY <2>1, <3>6 DEF RowsPromise
      <4>2. \A m, n \in DOMAIN editor'.rows :
               editor'.rows[m].key = l /\ editor'.rows[n].key = l => m = n
        BY <1>5, <2>1, <3>3, <3>5, <4>1
      <4>3. CASE l = k
        <5>1. l \notin KeysOf(editor'.rows)
          <6>1. \A j \in DOMAIN editor.rows \ {i} : editor.rows[j].key # l
            BY <1>8, <4>1, <4>3
          <6>. QED  BY <3>5, <6>1 DEF KeysOf
        <5>. QED  BY <3>2, <4>2, <4>3, <5>1
      <4>4. CASE l # k
        <5>1. l \in KeysOf(editor'.rows) <=> l \in KeysOf(editor.rows)
          BY <1>8, <3>4, <3>5, <4>4 DEF KeysOf
        <5>. QED  BY <2>1, <3>1, <3>6, <4>2, <4>4, <5>1 DEF RowsPromise
      <4>. QED  BY <4>3, <4>4
    <3>. QED  BY <1>4, <3>6 DEF RowsPromise
  <2>. QED  BY <2>2, <2>3
<1>. QED  BY <1>3, <1>6, <1>7 DEF ListInv

-----------------------------------------------------------------------------
(* Commands that are handled.                                              *)

\* Rows that keep their keys.
LEMMA ModelChanged ==
    ASSUME IsList(model), NEW i, model' = [model EXCEPT ![i] = model'[i]],
           DOMAIN model = 1 .. Len(model),
           i \in DOMAIN model => model'[i].key = model[i].key
    PROVE  /\ IsList(model') /\ DOMAIN model' = 1 .. Len(model')
           /\ KeysOf(model') = KeysOf(model)
           /\ \A j \in DOMAIN model' : j \in DOMAIN model /\ model'[j].key = model[j].key
<1>1. IsList(model') /\ DOMAIN model' = 1 .. Len(model) /\ Len(model') = Len(model)
  BY ListChanged
<1>2. \A j \in DOMAIN model' : j \in DOMAIN model /\ model'[j].key = model[j].key
  BY <1>1
<1>. QED  BY <1>1, <1>2 DEF KeysOf

\* Without a happening the others are left.
LEMMA WithoutIs ==
    ASSUME ListTypes, NEW k \in ToSet(happenings)
    PROVE  /\ Without(k) \in Seq(Key)
           /\ ToSet(Without(k)) = ToSet(happenings) \ {k}
           /\ \A i, j \in DOMAIN Without(k) : Without(k)[i] = Without(k)[j] => i = j
<1>. DEFINE n == CHOOSE i \in DOMAIN happenings : happenings[i] = k
            left == RemoveAt(happenings, n)
<1>1. n \in DOMAIN happenings /\ happenings[n] = k
  BY DEF ToSet
<1>2. Without(k) = left
  BY DEF Without
<1>. HIDE DEF n
<1>3. happenings \in Seq(Key) /\ \A i, j \in DOMAIN happenings : happenings[i] = happenings[j] => i = j
  BY DEF ListTypes
<1>4. /\ left \in Seq(Key) /\ Len(left) = Len(happenings) - 1
      /\ \A j \in 1 .. Len(happenings) - 1 : left[j] = happenings[IF j < n THEN j ELSE j + 1]
  BY <1>1, <1>3, RowTaken
<1>5. DOMAIN left = 1 .. Len(happenings) - 1 /\ DOMAIN happenings = 1 .. Len(happenings)
      /\ Len(happenings) \in Nat /\ n \in 1 .. Len(happenings)
  BY <1>1, <1>3, <1>4
<1>. HIDE DEF left
<1>6. ASSUME NEW j \in DOMAIN left
      PROVE  /\ (IF j < n THEN j ELSE j + 1) \in DOMAIN happenings \ {n}
             /\ left[j] = happenings[IF j < n THEN j ELSE j + 1]
  BY <1>4, <1>5, <1>6
<1>7. ASSUME NEW j \in DOMAIN happenings \ {n}
      PROVE  \E i \in DOMAIN left : left[i] = happenings[j]
  <2>1. CASE j < n
    BY <1>4, <1>5, <1>7, <2>1
  <2>2. CASE ~(j < n)
    <3>1. j - 1 \in DOMAIN left /\ ~(j - 1 < n) /\ j - 1 + 1 = j
      BY <1>5, <1>7, <2>2
    <3>. QED  BY <1>6, <3>1
  <2>. QED  BY <2>1, <2>2
<1>8. ToSet(left) = ToSet(happenings) \ {k}
  BY <1>1, <1>3, <1>6, <1>7 DEF ToSet
<1>9. \A i, j \in DOMAIN left : left[i] = left[j] => i = j
  BY <1>3, <1>5, <1>6
<1>. QED  BY <1>2, <1>4, <1>8, <1>9

\* The events of a happening, on the server: created,
LEMMA CreateTypes ==
    ASSUME ListTypes, NEW k \in Key \ everCreated, Create(k)
    PROVE  /\ ListTypes' /\ everCreated' = everCreated \cup {k}
           /\ ToSet(happenings') = ToSet(happenings) \cup {k}
           /\ default' = default
<1>1. /\ happenings' = Append(happenings, k) /\ everCreated' = everCreated \cup {k}
      /\ model' = Append(model, Row(k)) \/ model' = model
      /\ default' = default /\ marked' = marked
  BY DEF Create
<1>2. /\ happenings \in Seq(Key) /\ Len(happenings) \in Nat
      /\ DOMAIN happenings' = 1 .. Len(happenings) + 1 /\ DOMAIN happenings = 1 .. Len(happenings)
      /\ happenings'[Len(happenings) + 1] = k
      /\ \A i \in DOMAIN happenings : happenings'[i] = happenings[i]
  BY <1>1 DEF ListTypes
<1>3. ToSet(happenings') = ToSet(happenings) \cup {k}
  <2>1. \A i \in DOMAIN happenings' : i \in DOMAIN happenings \/ i = Len(happenings) + 1
    BY <1>2
  <2>2. DOMAIN happenings \subseteq DOMAIN happenings' /\ Len(happenings) + 1 \in DOMAIN happenings'
    BY <1>2
  <2>. QED  BY <1>2, <2>1, <2>2 DEF ToSet
<1>4. \A i, j \in DOMAIN happenings' : happenings'[i] = happenings'[j] => i = j
  <2>1. \A i \in DOMAIN happenings : happenings[i] # k
    BY DEF ToSet, ListTypes
  <2>. QED  BY <1>2, <2>1 DEF ListTypes
<1>5. CASE model' = model
  <2>1. Mark(default)' = Mark(default)
    BY <1>1, <1>5 DEF Mark
  <2>. QED  BY <1>1, <1>2, <1>3, <1>4, <1>5, <2>1 DEF ListTypes
<1>6. CASE model' = Append(model, Row(k))
  <2>1. /\ IsList(model') /\ DOMAIN model' = 1 .. Len(model) + 1 /\ Len(model') = Len(model) + 1
        /\ model'[Len(model) + 1].key = k /\ \A i \in 1 .. Len(model) : model'[i] = model[i]
        /\ Len(model) \in Nat
    <3>1. IsList(model) /\ Row(k).key = k
      BY DEF ListTypes, Row
    <3>. QED  BY <1>6, <3>1, ListWithRow DEF IsList
  <2>2. \A i \in DOMAIN model' :
           \/ i \in DOMAIN model /\ model'[i] = model[i] /\ model'[i].key # k
           \/ i = Len(model) + 1 /\ model'[i].key = k
    BY <2>1 DEF ListTypes
  <2>3. KeysOf(model') = KeysOf(model) \cup {k}
    <3>1. KeysOf(model') \subseteq KeysOf(model) \cup {k}
      BY <2>2 DEF KeysOf
    <3>2. KeysOf(model) \subseteq KeysOf(model') /\ k \in KeysOf(model')
      BY <2>1 DEF KeysOf, ListTypes
    <3>. QED  BY <3>1, <3>2
  <2>4. default # k /\ Mark(default)' = Mark(default)
    <3>1. default # k
      BY HappeningAssumption DEF ListTypes
    <3>. QED  BY <1>1, <2>3, <3>1 DEF Mark
  <2>5. /\ \A i \in DOMAIN model' : model'[i].key \in everCreated'
        /\ \A i, j \in DOMAIN model' : model'[i].key = model'[j].key => i = j
    BY <1>1, <2>2 DEF ListTypes
  <2>. QED  BY <1>1, <1>2, <1>3, <1>4, <2>1, <2>4, <2>5 DEF ListTypes
<1>. QED  BY <1>1, <1>3, <1>5, <1>6

\* deleted,
LEMMA DeleteTypes ==
    ASSUME ListTypes, NEW k \in ToSet(happenings), Delete(k)
    PROVE  /\ ListTypes' /\ everCreated' = everCreated
           /\ ToSet(happenings') = ToSet(happenings) \ {k}
           /\ default # k => default' = default
<1>. DEFINE left == Without(k)
<1>1. /\ left \in Seq(Key) /\ ToSet(left) = ToSet(happenings) \ {k}
      /\ \A i, j \in DOMAIN left : left[i] = left[j] => i = j
  BY WithoutIs
<1>2. /\ happenings' = left /\ everCreated' = everCreated /\ model' = model
      /\ default' = IF default # k THEN default ELSE IF left = <<>> THEN NoKey ELSE Last(left)
      /\ marked' = IF default' \in {default, NoKey} THEN marked ELSE Mark(default')
  BY DEF Delete
<1>. HIDE DEF left
<1>3. left # <<>> => Last(left) \in ToSet(left)
  <2>1. left # <<>> => Len(left) \in DOMAIN left
    BY <1>1
  <2>. QED  BY <2>1 DEF Last, ToSet
<1>4. default' \in ToSet(happenings') \cup {NoKey} /\ (default' # NoKey => marked' = Mark(default'))
  BY <1>1, <1>2, <1>3 DEF ListTypes
<1>5. Mark(default)' = Mark(default')
  BY <1>2 DEF Mark
<1>. QED  BY <1>1, <1>2, <1>4, <1>5 DEF ListTypes

\* made the default,
LEMMA ChangeTypes ==
    ASSUME ListTypes, NEW k \in ToSet(happenings), ChangeDefault(k)
    PROVE  ListTypes' /\ everCreated' = everCreated /\ happenings' = happenings
           /\ default' = k
<1>1. default' = k /\ marked' = Mark(k)
      /\ UNCHANGED <<happenings, everCreated, model>>
  BY DEF ListTypes, ChangeDefault
<1>2. Mark(default)' = Mark(k)
  BY <1>1 DEF Mark
<1>. QED  BY <1>1, <1>2 DEF ListTypes, ToSet

\* and given a path.
LEMMA PathTypes ==
    ASSUME ListTypes, NEW k, NEW path, AddCoordinatePath(k, path)
    PROVE  ListTypes' /\ everCreated' = everCreated /\ happenings' = happenings /\ default' = default
<1>1. UNCHANGED <<happenings, default, everCreated, guarded, marked>>
  BY DEF AddCoordinatePath
<1>2. /\ IsList(model') /\ DOMAIN model' = 1 .. Len(model')
      /\ KeysOf(model') = KeysOf(model)
      /\ \A j \in DOMAIN model' : j \in DOMAIN model /\ model'[j].key = model[j].key
  <2>1. CASE model' = model
    BY <2>1 DEF ListTypes
  <2>2. CASE \E i : model' = [model EXCEPT ![i].path = path]
    <3>1. PICK i : model' = [model EXCEPT ![i].path = path]
      BY <2>2
    <3>2. \A j \in DOMAIN model : model'[j].key = model[j].key
      BY <3>1
    <3>. QED  BY <3>1, <3>2, ModelChanged DEF ListTypes
  <2>. QED  BY <2>1, <2>2 DEF AddCoordinatePath
<1>3. Mark(default)' = Mark(default)
  BY <1>1, <1>2 DEF Mark
<1>. QED  BY <1>1, <1>2, <1>3 DEF ListTypes, ToSet

\* What a command does that has an effect.
LEMMA ExecuteTypes ==
    ASSUME ListTypes, NEW c, c.kind \in Kinds, c.key \in Key, ~NoEffect(c), Execute(c)
    PROVE  /\ ListTypes'
           /\ everCreated \subseteq everCreated'
           /\ c.kind = "CreateHappening" =>
                 /\ c.key \in everCreated' /\ default' = default
                 /\ ToSet(happenings') = ToSet(happenings) \cup {c.key}
           /\ c.kind = "ChangeDefaultHappening" =>
                 ToSet(happenings') = ToSet(happenings) /\ default' = c.key
           /\ c.kind = "DeleteHappening" =>
                 /\ ToSet(happenings') = ToSet(happenings) \ {c.key} /\ c.key \in ToSet(happenings)
                 /\ default # c.key => default' = default
           /\ c.kind = "AddCoordinatePath" =>
                 ToSet(happenings') = ToSet(happenings) /\ default' = default
<1>2. CASE c.kind = "CreateHappening"
  <2>1. Create(c.key) /\ c.key \in Key \ everCreated
    BY <1>2 DEF Execute, NoEffect, Fails, Refused
  <2>. QED  BY <1>2, <2>1, CreateTypes
<1>3. CASE c.kind = "ChangeDefaultHappening"
  <2>1. ChangeDefault(c.key) /\ c.key \in ToSet(happenings)
    BY <1>3 DEF Execute, NoEffect, Ignored
  <2>. QED  BY <1>3, <2>1, ChangeTypes
<1>4. CASE c.kind = "DeleteHappening"
  <2>1. Delete(c.key) /\ c.key \in ToSet(happenings)
    BY <1>4 DEF Execute, NoEffect, Ignored
  <2>. QED  BY <1>4, <2>1, DeleteTypes
<1>5. CASE c.kind = "AddCoordinatePath"
  <2>1. AddCoordinatePath(c.key, c.path)
    BY <1>5 DEF Execute
  <2>2. ListTypes' /\ everCreated' = everCreated /\ default' = default
        /\ ToSet(happenings') = ToSet(happenings)
    BY <2>1, PathTypes
  <2>. QED  BY <1>5, <2>2
<1>. QED  BY <1>2, <1>3, <1>4, <1>5 DEF Kinds

\* c is handled, in order and with success.
Succeeds(c) ==
    /\ c \in commands /\ commands' = commands \ {c} /\ given' = given
    /\ Execute(c) /\ ~NoEffect(c) /\ ~FailsLater(c)
    /\ \A d \in commands : ~(d.number < c.number)

\* Then what is to come stays the same: what happens of it is no longer asked for.
LEMMA SameToCome ==
    ASSUME ListTypes, CommandTypes, NEW c, Succeeds(c)
    PROVE  /\ Hopeless => Hopeless'
           /\ Hopeless \/ \A l : Coming(l)' <=> Coming(l)
<1>1. /\ c.kind \in Kinds /\ c.key \in Key /\ c \in commands /\ commands' = commands \ {c}
      /\ ~NoEffect(c) /\ Execute(c)
  BY DEF Succeeds, CommandTypes
<1>2. everCreated \subseteq everCreated' /\ (c.kind = "CreateHappening" => c.key \in everCreated')
  BY <1>1, ExecuteTypes
<1>3. Hopeless => Hopeless'
  <2>1. ASSUME NEW k \in everCreated, NEW d \in commands, d.kind = "CreateHappening", d.key = k
        PROVE  Hopeless'
    <3>1. d # c
      BY <2>1 DEF Succeeds, NoEffect, Fails, Refused
    <3>. QED  BY <1>1, <1>2, <2>1, <3>1 DEF Hopeless, Ask
  <2>2. ASSUME NEW a \in commands, NEW b \in commands, a # b, a.kind = "CreateHappening",
               b.kind = "CreateHappening", a.key = b.key
        PROVE  Hopeless'
    <3>1. CASE a = c
      <4>1. b \in commands' /\ a.key \in everCreated'
        BY <1>1, <1>2, <2>2, <3>1
      <4>. QED  BY <2>2, <4>1 DEF Hopeless, Ask
    <3>2. CASE b = c
      <4>1. a \in commands' /\ b.key \in everCreated'
        BY <1>1, <1>2, <2>2, <3>2
      <4>. QED  BY <2>2, <4>1 DEF Hopeless, Ask
    <3>3. CASE a # c /\ b # c
      <4>1. a \in commands' /\ b \in commands'
        BY <1>1, <3>3
      <4>. QED  BY <2>2, <4>1 DEF Hopeless
    <3>. QED  BY <3>1, <3>2, <3>3
  <2>. QED  BY <2>1, <2>2 DEF Hopeless, Ask
<1>4. ASSUME ~Hopeless, NEW l PROVE Coming(l)' <=> Coming(l)
  <2>1. \A kind, k : kind # c.kind \/ k # c.key => (Ask(kind, k)' <=> Ask(kind, k))
    BY <1>1 DEF Ask
  <2>2. Ask(c.kind, c.key)
    BY <1>1 DEF Ask
  <2>3. c.kind = "CreateHappening" => ToSet(happenings') = ToSet(happenings) \cup {c.key}
    BY <1>1, ExecuteTypes
  <2>4. c.kind = "DeleteHappening" =>
           ToSet(happenings') = ToSet(happenings) \ {c.key} /\ c.key \in ToSet(happenings)
    BY <1>1, ExecuteTypes
  <2>5. c.kind \notin {"CreateHappening", "DeleteHappening"} => ToSet(happenings') = ToSet(happenings)
    BY <1>1, ExecuteTypes DEF Kinds
  <2>6. c.key \in ToSet(happenings) => ~Ask("CreateHappening", c.key)
    BY <1>4 DEF Hopeless, ListTypes
  <2>7. ToSet(happenings)' = ToSet(happenings')
    OBVIOUS
  <2>8. CASE c.kind = "CreateHappening"
    BY <2>1, <2>2, <2>3, <2>7, <2>8 DEF Coming
  <2>9. CASE c.kind = "DeleteHappening"
    BY <2>1, <2>2, <2>4, <2>6, <2>7, <2>9 DEF Coming
  <2>10. CASE c.kind \notin {"CreateHappening", "DeleteHappening"}
    BY <2>1, <2>5, <2>7, <2>10 DEF Coming
  <2>. QED  BY <2>8, <2>9, <2>10
<1>. QED  BY <1>3, <1>4

\* And what will be the default.
LEMMA SameDefault ==
    ASSUME ListTypes, CommandTypes, NEW c, Succeeds(c),
           \A d \in commands : d.kind = "DeleteHappening" =>
                ~WillBe(commands, default, d.number, d.key),
           NEW n \in Nat, c.number < n, NEW k
    PROVE  WillBe(commands', default', n, k) <=> WillBe(commands, default, n, k)
<1>1. /\ c.kind \in Kinds /\ c.key \in Key /\ c \in commands /\ commands' = commands \ {c}
      /\ ~NoEffect(c) /\ Execute(c)
  BY DEF Succeeds, CommandTypes
<1>2. \A d \in commands : d.number \in Nat /\ c.number <= d.number /\ (d.number = c.number => d = c)
  BY <1>1 DEF Succeeds, CommandTypes
<1>3. CASE c.kind # "ChangeDefaultHappening"
  <2>1. Changes(commands', n) = Changes(commands, n)
    BY <1>1, <1>3 DEF Changes
  <2>2. c.kind = "DeleteHappening" => default # c.key
    <3>1. Changes(commands, c.number) = {}
      BY <1>1, <1>2 DEF Changes
    <3>. QED  BY <1>1, <3>1 DEF WillBe
  <2>3. default' = default
    BY <1>1, <1>3, <2>2, ExecuteTypes DEF Kinds
  <2>. QED  BY <2>1, <2>3 DEF WillBe
<1>4. CASE c.kind = "ChangeDefaultHappening"
  <2>1. default' = c.key
    BY <1>1, <1>4, ExecuteTypes
  <2>. DEFINE Later == Changes(commands', n)
              Now == Changes(commands, n)
  <2>2. Now = Later \cup {c} /\ c \notin Later
    BY <1>1, <1>4 DEF Changes
  <2>3. \A d \in Later : d.number \in Nat /\ c.number <= d.number /\ d.number # c.number
    BY <1>1, <1>2 DEF Changes
  <2>4. WillBe(commands', default', n, k) <=>
           (Later = {} /\ k = c.key) \/ \E m \in Later : m.key = k /\ \A d \in Later : d.number <= m.number
    BY <2>1 DEF WillBe
  <2>5. WillBe(commands, default, n, k) <=>
           (Now = {} /\ k = default) \/ \E m \in Now : m.key = k /\ \A d \in Now : d.number <= m.number
    BY DEF WillBe
  <2>. HIDE DEF Later, Now
  <2>6. c.number \in Nat
    BY <1>1, <1>2
  <2>7. (\E m \in Now : m.key = k /\ \A d \in Now : d.number <= m.number) <=>
           (Later = {} /\ k = c.key) \/ \E m \in Later : m.key = k /\ \A d \in Later : d.number <= m.number
    <3>1. ASSUME NEW m \in Now, m.key = k, \A d \in Now : d.number <= m.number, Later # {}
          PROVE  m \in Later
      BY <2>2, <2>3, <2>6, <3>1
    <3>2. ASSUME NEW m \in Later, \A d \in Later : d.number <= m.number
          PROVE  m \in Now /\ \A d \in Now : d.number <= m.number
      BY <2>2, <2>3, <3>2
    <3>3. Later = {} => Now = {c} /\ c.number <= c.number
      BY <2>2, <2>6
    <3>. QED  BY <2>2, <3>1, <3>2, <3>3
  <2>. QED  BY <2>2, <2>4, <2>5, <2>7
<1>. QED  BY <1>3, <1>4

\* The next command is handled, or refused.
LEMMA HandleKeeps == ASSUME ListInv, HandleCommand PROVE ListInv'
<1>1. PICK c \in commands :
          /\ IF NoEffect(c) THEN UNCHANGED serverVars ELSE Execute(c)
          /\ \/ commands' = commands \ {c} /\ ~Fails(c)
             \/ commands' = commands /\ (Fails(c) \/ Refused(c) \/ FailsLater(c))
          /\ mishaps' = mishaps
               \cup (IF \E d \in commands : d.number < c.number THEN {"overtaken"} ELSE {})
               \cup (IF NoEffect(c) \/ FailsLater(c) THEN {"refused"} ELSE {})
  BY DEF HandleCommand
<1>2. ListTypes /\ CommandTypes /\ EditorTypes /\ given' = given /\ editor' = editor
      /\ c.kind \in Kinds /\ c.key \in Key
  BY <1>1 DEF ListInv, HandleCommand, CommandTypes
<1>3. /\ ListTypes' /\ everCreated \subseteq everCreated'
      /\ commands' # commands /\ c.kind = "CreateHappening" => c.key \in everCreated'
  <2>1. CASE NoEffect(c)
    <3>1. UNCHANGED serverVars
      BY <1>1, <2>1
    <3>2. ListTypes' /\ everCreated' = everCreated
      BY <1>2, <3>1 DEF serverVars, ListTypes, ToSet, KeysOf, Mark
    <3>3. commands' # commands /\ c.kind = "CreateHappening" => c.key \in everCreated
      BY <1>1, <2>1 DEF NoEffect, Refused, Ignored
    <3>. QED  BY <3>2, <3>3
  <2>2. CASE ~NoEffect(c)
    BY <1>1, <1>2, <2>2, ExecuteTypes
  <2>. QED  BY <2>1, <2>2
<1>4. commands' \subseteq commands /\ commands \ {c} \subseteq commands'
  BY <1>1
<1>5. Known \subseteq Known'
  <2>1. ASSUME NEW d \in commands, d.kind = "CreateHappening", d.key \notin everCreated'
        PROVE  d \in commands'
    BY <1>1, <1>3, <2>1
  <2>. QED  BY <1>3, <2>1 DEF Known
<1>6. CommandTypes'
  BY <1>2, <1>4, <1>5 DEF CommandTypes
<1>7. EditorTypes'
  BY <1>2, <1>3, <1>5 DEF EditorTypes
<1>8. ASSUME Trusted', ~Hopeless' PROVE RowsPromise' /\ DefaultPromise'
  <2>1. Trusted /\ Succeeds(c)
    BY <1>1, <1>2, <1>8 DEF Trusted, Succeeds, NoEffect
  <2>2. (Hopeless => Hopeless') /\ (Hopeless \/ \A l : Coming(l)' <=> Coming(l))
    BY <1>2, <2>1, SameToCome
  <2>3. RowsPromise /\ DefaultPromise
    BY <1>8, <2>1, <2>2 DEF ListInv
  <2>4. RowsPromise'
    BY <1>2, <1>8, <2>2, <2>3 DEF RowsPromise
  <2>5. \A n \in Nat : c.number < n =>
           \A k : WillBe(commands', default', n, k) <=> WillBe(commands, default, n, k)
    BY <1>2, <2>1, <2>3, SameDefault DEF DefaultPromise
  <2>6. given + 1 \in Nat /\ c.number < given + 1
    BY <1>2 DEF CommandTypes
  <2>7. \A d \in commands' : d \in commands /\ d.number \in Nat /\ c.number < d.number
    BY <1>2, <2>1 DEF Succeeds, CommandTypes
  <2>8. DefaultPromise'
    BY <1>2, <2>3, <2>5, <2>6, <2>7 DEF DefaultPromise
  <2>. QED  BY <2>4, <2>8
<1>. QED  BY <1>3, <1>6, <1>7, <1>8 DEF ListInv

\* A checkpoint protects a happening from deletion, which makes a deletion on its way fail.
LEMMA AddCheckpointKeeps == ASSUME ListInv, AddCheckpoint PROVE ListInv'
<1>1. ListTypes /\ CommandTypes /\ EditorTypes
  BY DEF ListInv
<1>4. /\ IsList(model') /\ DOMAIN model' = 1 .. Len(model')
      /\ KeysOf(model') = KeysOf(model)
      /\ \A j \in DOMAIN model' : j \in DOMAIN model /\ model'[j].key = model[j].key
  <2>1. CASE model' = model
    BY <1>1, <2>1 DEF ListTypes
  <2>2. CASE \E i : model' = [model EXCEPT ![i].guarded = TRUE]
    <3>1. PICK i : model' = [model EXCEPT ![i].guarded = TRUE]
      BY <2>2
    <3>2. \A j \in DOMAIN model : model'[j].key = model[j].key
      BY <3>1
    <3>. QED  BY <1>1, <3>1, <3>2, ModelChanged DEF ListTypes
  <2>. QED  BY <2>1, <2>2 DEF AddCheckpoint
<1>5. UNCHANGED <<happenings, default, everCreated, marked, commands, given, editor>>
      /\ "shared" \in mishaps'
  BY DEF AddCheckpoint
<1>6. ListTypes'
  <2>1. Mark(default)' = Mark(default)
    BY <1>4, <1>5 DEF Mark
  <2>. QED  BY <1>1, <1>4, <1>5, <2>1 DEF ListTypes, ToSet
<1>7. Known' = Known
  BY <1>5 DEF Known
<1>8. CommandTypes' /\ EditorTypes'
  BY <1>1, <1>5, <1>7 DEF CommandTypes, EditorTypes
<1>. QED  BY <1>5, <1>6, <1>8 DEF ListInv, Trusted

-----------------------------------------------------------------------------
(* The page.                                                               *)

\* The first state.
LEMMA InitList == ASSUME Init PROVE ListInv
<1>1. /\ happenings = Old /\ default = Last(Old) /\ everCreated = ToSet(Old)
      /\ model = [i \in DOMAIN Old |-> Row(Old[i])] /\ marked = default /\ commands = {}
      /\ given = 0 /\ editor = Unopened
  BY DEF Init, HappeningsInit
<1>2. /\ Old \in Seq(Key) /\ Len(Old) \in Nat \ {0} /\ DOMAIN Old = 1 .. Len(Old) /\ Last(Old) \in Key
      /\ \A i, j \in DOMAIN Old : Old[i] = Old[j] => i = j
  BY HappeningAssumption DEF Last
<1>3. /\ IsList(model) /\ DOMAIN model = 1 .. Len(model) /\ DOMAIN model = DOMAIN Old
      /\ \A i \in DOMAIN model : model[i].key = Old[i]
  <2>. DEFINE R == {Row(k) : k \in Key}
  <2>1. model \in [1 .. Len(Old) -> R]
    BY <1>1, <1>2
  <2>. HIDE DEF R
  <2>2. model \in Seq(R)
    BY <1>2, <2>1, SeqDef
  <2>3. IsList(model) /\ DOMAIN model = 1 .. Len(model)
    BY <2>2, SeqIsList
  <2>. QED  BY <1>1, <2>3 DEF Row
<1>4. ToSet(happenings) = KeysOf(model) /\ ToSet(Old) \subseteq Key
  BY <1>1, <1>2, <1>3 DEF KeysOf, ToSet
<1>5. \A i \in DOMAIN model : model[i].key \in everCreated
  BY <1>1, <1>3 DEF ToSet
<1>9. default \in ToSet(Old) /\ marked = Mark(default)
  <2>1. default \in ToSet(Old)
    BY <1>1, <1>2 DEF Last, ToSet
  <2>. QED  BY <1>1, <1>4, <2>1 DEF Mark
<1>6. ListTypes
  <2>1. \A i, j \in DOMAIN model : model[i].key = model[j].key => i = j
    BY <1>2, <1>3
  <2>2. ToSet(happenings) \subseteq everCreated /\ everCreated \subseteq Key
        /\ default \in ToSet(happenings) \cup {NoKey}
    BY <1>1, <1>4, <1>9
  <2>3. \A i, j \in DOMAIN happenings : happenings[i] = happenings[j] => i = j
    BY <1>1, <1>2
  <2>. QED  BY <1>1, <1>2, <1>3, <1>5, <1>9, <2>1, <2>2, <2>3 DEF ListTypes
<1>7. CommandTypes
  BY <1>1 DEF CommandTypes
<1>8. EditorTypes /\ ~editor.loaded
  <2>1. IsList(<<>>) /\ DOMAIN <<>> = 1 .. Len(<<>>)
    <3>1. <<>> \in Seq({})
      OBVIOUS
    <3>. QED  BY <3>1, SeqIsList
  <2>. QED  BY <1>1, <2>1 DEF EditorTypes, Unopened
<1>. QED  BY <1>6, <1>7, <1>8 DEF ListInv, Trusted

\* Steps of other views.
LEMMA ListUnchanged == ASSUME ListInv, UNCHANGED happeningsVars PROVE ListInv'
<1>1. ServerStays /\ editor' = editor /\ mishaps' = mishaps
  BY DEF happeningsVars, ServerStays
<1>2. EditorTypes'
  BY <1>1, StaysToCome DEF ListInv, EditorTypes, ServerStays, serverVars
<1>. QED  BY <1>1, <1>2, RowsStay DEF ListInv, EditorTypes

\* Every step keeps the invariant.
LEMMA ListStep == ASSUME ListInv, [Next]_vars PROVE ListInv'
<1>1. ASSUME NEW a, NEW p, LoadPage(a, p) PROVE ListInv'
  <2>1. ServerStays
    BY <1>1 DEF LoadPage, ServerStays
  <2>2. editor' = Unopened \/ editor' = [Unopened EXCEPT !.asked = 1]
    BY <1>1 DEF LoadPage
  <2>. QED  BY <2>1, <2>2, UnopenedTypes, NewView
<1>2. ASSUME NEW a, OpenAddress(a) PROVE ListInv'
  BY <1>2, OnloadKeeps, ListUnchanged DEF OpenAddress
<1>3. ASSUME NEW w, SelectWalker(w) PROVE ListInv'
  BY <1>3, ListUnchanged DEF SelectWalker
<1>4. CASE LoadWalkers
  BY <1>4, ListUnchanged DEF LoadWalkers
<1>5. CASE Retry
  BY <1>5, ListUnchanged DEF Retry
<1>6. CASE HappeningsNext
  BY <1>6, LoadKeeps, SaveNewKeeps, SaveDefaultKeeps, DeleteKeeps, PathKeeps, AddCoordinatesKeeps,
     HandleKeeps, AddCheckpointKeeps DEF HappeningsNext
<1>7. CASE UNCHANGED vars
  BY <1>7, ListUnchanged DEF vars
<1>. QED  BY <1>1, <1>2, <1>3, <1>4, <1>5, <1>6, <1>7 DEF Next

\* What an administrator's page of happenings shows, and what is on its way (ListInv), hold of
\* every state: the strengthening that PageAgrees needs.
THEOREM ListInvariant == Spec => []ListInv
BY InitList, ListStep, PTL DEF Spec

\* When everything is handled, what is to come has come.
LEMMA ThenAgrees == ListInv => PageAgrees
<1>. SUFFICES ASSUME ListInv, editor.loaded, editor.bound, commands = {}, mishaps = {}
              PROVE  /\ KeysOf(editor.rows) \ editor.dead = ToSet(happenings) \ editor.dead
                     /\ default \notin editor.dead \cup {NoKey} => editor.chosen = default
  BY DEF PageAgrees
<1>1. ~Hopeless /\ RowsPromise /\ DefaultPromise
  BY DEF ListInv, Trusted, Hopeless, Ask
<1>2. \A k : Coming(k) <=> k \in ToSet(happenings)
  BY DEF Coming, Ask
<1>3. KeysOf(editor.rows) \subseteq Key /\ ToSet(happenings) \subseteq Key
  BY DEF ListInv, ListTypes, EditorTypes, KeysOf
<1>4. KeysOf(editor.rows) \ editor.dead = ToSet(happenings) \ editor.dead
  BY <1>1, <1>2, <1>3 DEF RowsPromise
<1>5. \A k : WillBe(commands, default, given + 1, k) => k = default
  BY DEF WillBe, Changes
<1>6. default \notin editor.dead \cup {NoKey} => editor.chosen = default
  BY <1>1, <1>5 DEF DefaultPromise
<1>. QED  BY <1>4, <1>6

\* An administrator's page is right when its commands have been handled, in order and
\* unrefused, about which happenings there are and which is the default, apart from
\* those about which the list was wrong when it was loaded.
THEOREM PageAgreesHolds == Spec => []PageAgrees
BY ListInvariant, ThenAgrees, PTL


-----------------------------------------------------------------------------
(* The routes.                                                             *)

\* How the url of a view for the menu ends, which no two of them have in common.
Ending(n) ==
    IF n = "report" THEN NoId
    ELSE IF n = "edithappenings" THEN "happenings"
    ELSE IF n = "scan" THEN "scanlog"
    ELSE IF n = "startscan" THEN "start" ELSE n

\* That url, before the happening is put in front.
MenuUrl(n) ==
    IF n \in {"edithappenings", "registrations", "people", "system"} THEN <<"edit", Ending(n)>>
    ELSE IF n = "startscan" THEN <<"readings", Ending(n)>> ELSE <<Ending(n)>>

Public == {"report", "attendees", "route", "about"}

Contributed ==
    {"edithappenings", "registrations", "people", "scan", "startscan", "scaninstructions", "system"}

WalkerUrl == <<"attendees", Parameter>>

UrlsOf(n) == IF n = "attendees" THEN {WalkerUrl, MenuUrl(n)} ELSE {MenuUrl(n)}

\* The routes as they are once their names are registered.
LEMMA PublicAre ==
    /\ DOMAIN PublicRoutes = Public
    /\ \A n \in Public : LET r == Named(PublicRoutes[n])
                         IN  /\ DOMAIN r = {"urlMap", "navigationUrl", "order", "showOnNavigation"}
                             /\ r.navigationUrl = MenuUrl(n) /\ r.order \in Nat
                             /\ r.urlMap = IF n = "attendees" THEN <<WalkerUrl, MenuUrl(n)>> ELSE <<MenuUrl(n)>>
<1>1. DOMAIN PublicRoutes = Public
  BY DEF PublicRoutes, Public
<1>. DEFINE Is(n) == LET r == Named(PublicRoutes[n])
                     IN  /\ DOMAIN r = {"urlMap", "navigationUrl", "order", "showOnNavigation"}
                         /\ r.navigationUrl = MenuUrl(n) /\ r.order \in Nat
                         /\ r.urlMap = IF n = "attendees" THEN <<WalkerUrl, MenuUrl(n)>> ELSE <<MenuUrl(n)>>
<1>2. Is("report")
  BY DEF PublicRoutes, ReportRoute, Route, Named, MenuUrl, NoUrl, Ending, Root, NoId
<1>3. Is("attendees")
  BY DEF PublicRoutes, AttendeesRoute, Route, Named, MenuUrl, NoUrl, WalkerUrl, Ending
<1>4. Is("route")
  BY DEF PublicRoutes, RouteRoute, Route, Named, MenuUrl, NoUrl, Ending, Root
<1>5. Is("about")
  BY DEF PublicRoutes, AboutRoute, Route, Named, MenuUrl, NoUrl, Ending, Root
<1>. HIDE DEF Is
<1>6. \A n \in Public : Is(n)
  BY <1>2, <1>3, <1>4, <1>5 DEF Public
<1>. QED  BY <1>1, <1>6 DEF Is

\* What the view models for contributors declare.
LEMMA ContributedAre ==
    /\ DOMAIN ContributorRoutes = Contributed
    /\ \A n \in Contributed :
          LET r == Named(ContributorRoutes[n])
          IN  /\ DOMAIN r = {"urlMap", "navigationUrl", "order", "showOnNavigation"}
              /\ r.navigationUrl = MenuUrl(n) /\ r.order \in Nat /\ r.urlMap = <<MenuUrl(n)>>
<1>1. DOMAIN ContributorRoutes = Contributed
  BY DEF ContributorRoutes, Contributed
<1>. DEFINE Is(n) == LET r == Named(ContributorRoutes[n])
                     IN  /\ DOMAIN r = {"urlMap", "navigationUrl", "order", "showOnNavigation"}
                         /\ r.navigationUrl = MenuUrl(n) /\ r.order \in Nat
                         /\ r.urlMap = <<MenuUrl(n)>>
<1>2. Is("edithappenings")
  BY DEF ContributorRoutes, EditHappeningsRoute, Route, Named, MenuUrl, NoUrl, Ending, Root, NoId
<1>3. Is("registrations")
  BY DEF ContributorRoutes, RegistrationsRoute, Route, Named, MenuUrl, NoUrl, Ending, Root
<1>4. Is("people")
  BY DEF ContributorRoutes, PeopleRoute, Route, Named, MenuUrl, NoUrl, Ending, Root
<1>5. Is("scan")
  BY DEF ContributorRoutes, ScanRoute, Route, Named, MenuUrl, NoUrl, Ending, Root
<1>6. Is("startscan")
  BY DEF ContributorRoutes, StartScanRoute, Route, Named, MenuUrl, NoUrl, Ending, Root
<1>7. Is("scaninstructions")
  BY DEF ContributorRoutes, ScanInstructionsRoute, Route, Named, MenuUrl, NoUrl, Ending, Root
<1>8. Is("system")
  BY DEF ContributorRoutes, SystemRoute, Route, Named, MenuUrl, NoUrl, Ending, Root
<1>. HIDE DEF Is
<1>9. \A n \in Contributed : Is(n)
  BY <1>2, <1>3, <1>4, <1>5, <1>6, <1>7, <1>8 DEF Contributed
<1>. QED  BY <1>1, <1>9 DEF Is

\* Lists of one and of two elements.
LEMMA ShortLists ==
    ASSUME NEW S, NEW x \in S, NEW y \in S
    PROVE  /\ <<x>> \in Seq(S) /\ Len(<<x>>) = 1 /\ <<x>>[1] = x
           /\ <<x, y>> \in Seq(S) /\ Len(<<x, y>>) = 2 /\ <<x, y>>[1] = x /\ <<x, y>>[2] = y
           /\ Append(<<x>>, y) = <<x, y>>
<1>1. PICK s : s = <<x>>
  OBVIOUS
<1>2. PICK t : t = <<x, y>>
  OBVIOUS
<1>3. /\ s \in Seq(S) /\ Len(s) = 1 /\ s[1] = x
      /\ t \in Seq(S) /\ Len(t) = 2 /\ t[1] = x /\ t[2] = y
  BY <1>1, <1>2
<1>4. Append(s, y) \in Seq(S) /\ Len(Append(s, y)) = 2 /\ Append(s, y)[1] = x /\ Append(s, y)[2] = y
  <2>1. s \in Seq(S)
    BY <1>3
  <2>2. Append(s, y) \in Seq(S)
    BY <2>1
  <2>3. IsList(s)
    BY <2>1, SeqIsList
  <2>4. /\ Len(Append(s, y)) = Len(s) + 1 /\ Append(s, y)[Len(s) + 1] = y
        /\ \A i \in 1 .. Len(s) : Append(s, y)[i] = s[i]
    BY <2>3, ListWithRow
  <2>5. Len(s) + 1 = 2 /\ 1 \in 1 .. Len(s)
    BY <1>3
  <2>. QED  BY <1>3, <2>2, <2>4, <2>5
<1>5. \A i \in 1 .. 2 : i = 1 \/ i = 2
  OBVIOUS
<1>6. Append(s, y) = t
  BY <1>3, <1>4, <1>5, SeqEqual
<1>. QED  BY <1>1, <1>2, <1>3, <1>6

\* The empty text differs from every other.
LEMMA NoIdIsOther ==
    NoId \notin {"attendees", "route", "about", "happenings", "registrations", "people", "scanlog",
                "start", "scaninstructions", "system", "edit", "readings", Parameter}
BY DEF NoId, Parameter

\* Urls are short lists, and end as told.
LEMMA MenuUrlIs ==
    ASSUME NEW n \in Public \cup Contributed
    PROVE  /\ \E S : MenuUrl(n) \in Seq(S)
           /\ Len(MenuUrl(n)) \in 1 .. 2
           /\ MenuUrl(n)[Len(MenuUrl(n))] = Ending(n)
<1>. DEFINE e == Ending(n)
            S == {e, "edit", "readings"}
<1>1. e \in S /\ "edit" \in S /\ "readings" \in S
  OBVIOUS
<1>2. MenuUrl(n) \in {<<e>>, <<"edit", e>>, <<"readings", e>>}
  BY DEF MenuUrl
<1>. HIDE DEF e, S
<1>3. /\ MenuUrl(n) \in Seq(S)
      /\ Len(MenuUrl(n)) \in 1 .. 2 /\ MenuUrl(n)[Len(MenuUrl(n))] = e
  <2>1. CASE MenuUrl(n) = <<e>>
    BY <1>1, <2>1, ShortLists
  <2>2. CASE MenuUrl(n) = <<"edit", e>>
    BY <1>1, <2>2, ShortLists
  <2>3. CASE MenuUrl(n) = <<"readings", e>>
    BY <1>1, <2>3, ShortLists
  <2>. QED  BY <1>2, <2>1, <2>2, <2>3
<1>. QED  BY <1>3 DEF e

\* The ending of a url tells the view.
LEMMA EndingTells ==
    ASSUME NEW n \in Public \cup Contributed, NEW m \in Public \cup Contributed, Ending(n) = Ending(m)
    PROVE  n = m
BY NoIdIsOther DEF Public, Contributed, Ending

\* The happening comes in front.
LEMMA BehindHappening ==
    ASSUME NEW S, NEW u \in Seq(S), Len(u) \in 1 .. 2, NEW d, ~(u = Root /\ d)
    PROVE  /\ \E T : AddHappeningToUrl(u, d) \in Seq(T)
           /\ Len(AddHappeningToUrl(u, d)) = Len(u) + 1
           /\ AddHappeningToUrl(u, d)[1] = Current
           /\ \A i \in 1 .. Len(u) : AddHappeningToUrl(u, d)[i + 1] = u[i]
<1>. DEFINE T == S \cup {Current}
<1>1. u \in Seq(T) /\ <<Current>> \in Seq(T) /\ Len(<<Current>>) = 1
  <2>1. \A i \in 1 .. Len(u) : u[i] \in T
    OBVIOUS
  <2>2. u \in Seq(T)
    BY <2>1, SeqDef
  <2>. QED  BY <2>2
<1>. HIDE DEF T
<1>2. PICK h : h = <<Current>>
  OBVIOUS
<1>3. h \in Seq(T) /\ Len(h) = 1 /\ h[1] = Current /\ AddHappeningToUrl(u, d) = h \o u
  BY <1>1, <1>2 DEF AddHappeningToUrl
<1>4. u \in Seq(T) /\ h \in Seq(T)
  BY <1>1, <1>3
<1>5. Len(u) \in 1 .. 2 /\ Len(h) = 1
  BY <1>3
<1>6. /\ Len(u) \in Nat /\ Len(h) + Len(u) = Len(u) + 1
      /\ \A i \in 1 .. Len(u) : /\ i + 1 \in 1 .. Len(h) + Len(u)
                               /\ ~(i + 1 <= Len(h)) /\ i + 1 - Len(h) = i
      /\ 1 \in 1 .. Len(h) + Len(u) /\ 1 <= Len(h)
  BY ONLY <1>5
<1>7. /\ h \o u \in Seq(T) /\ Len(h \o u) = Len(h) + Len(u)
      /\ \A i \in 1 .. Len(h) + Len(u) :
            (h \o u)[i] = IF i <= Len(h) THEN h[i] ELSE u[i - Len(h)]
  BY ONLY <1>4, ConcatProperties
<1>8. (h \o u)[1] = Current
  BY <1>3, <1>6, <1>7
<1>9. ASSUME NEW i \in 1 .. Len(u) PROVE (h \o u)[i + 1] = u[i]
  BY <1>6, <1>7, <1>9
<1>. QED  BY <1>3, <1>6, <1>7, <1>8, <1>9

\* With or without the happening in front, a url ends as it did.
LEMMA WithHappening ==
    ASSUME NEW S, NEW u \in Seq(S), Len(u) \in 1 .. 2, NEW d \in BOOLEAN
    PROVE  /\ \E T : AddHappeningToUrl(u, d) \in Seq(T)
           /\ Len(AddHappeningToUrl(u, d)) \in 1 .. 3
           /\ AddHappeningToUrl(u, d)[Len(AddHappeningToUrl(u, d))] = u[Len(u)]
<1>1. CASE u = Root /\ d
  <2>1. AddHappeningToUrl(u, d) = u
    BY <1>1 DEF AddHappeningToUrl
  <2>. QED  BY <2>1
<1>2. CASE ~(u = Root /\ d)
  <2>1. \A l \in 1 .. 2 : l \in 1 .. l /\ l + 1 \in 1 .. 3
    OBVIOUS
  <2>2. PICK v : v = AddHappeningToUrl(u, d)
    OBVIOUS
  <2>3. (\E T : v \in Seq(T)) /\ Len(v) = Len(u) + 1 /\ \A i \in 1 .. Len(u) : v[i + 1] = u[i]
    BY <1>2, <2>2, BehindHappening
  <2>. QED  BY <2>1, <2>2, <2>3
<1>. QED  BY <1>1, <1>2

\* The url of a walker.
LEMMA WalkerUrlIs ==
    /\ \E S : WalkerUrl \in Seq(S)
    /\ Len(WalkerUrl) = 2 /\ WalkerUrl[1] = "attendees" /\ WalkerUrl[2] = Parameter
<1>1. PICK S : S = {"attendees", Parameter}
  OBVIOUS
<1>2. WalkerUrl \in Seq(S) /\ Len(WalkerUrl) = 2 /\ WalkerUrl[1] = "attendees" /\ WalkerUrl[2] = Parameter
  BY <1>1, ShortLists DEF WalkerUrl
<1>. QED  BY <1>2

\* The routes as the page has them.
LEMMA RouteIs ==
    ASSUME NEW p \in Profile
    PROVE  /\ DOMAIN DeclaredFor(p) = Public \cup (IF p.contributor THEN Contributed ELSE {})
           /\ All(Registered(p)).intercepted = TRUE
           /\ DOMAIN All(Registered(p)).registered = DOMAIN DeclaredFor(p)
           /\ \A n \in DOMAIN DeclaredFor(p) :
                 LET r == All(Registered(p)).registered[n]
                 IN  /\ r.navigationUrl = AddHappeningToUrl(MenuUrl(n), p.isDefault)
                     /\ r.order \in Nat
                     /\ DOMAIN r.urlMap = IF n = "attendees" THEN 1 .. 2 ELSE 1 .. 1
                     /\ r.urlMap[1] = AddHappeningToUrl(IF n = "attendees" THEN WalkerUrl ELSE MenuUrl(n),
                                                        p.isDefault)
                     /\ n = "attendees" => r.urlMap[2] = r.navigationUrl
<1>1. DOMAIN DeclaredFor(p) = Public \cup (IF p.contributor THEN Contributed ELSE {})
  BY PublicAre, ContributedAre DEF DeclaredFor
<1>2. \A n \in DOMAIN DeclaredFor(p) :
         LET r == Named(DeclaredFor(p)[n])
         IN  /\ DOMAIN r = {"urlMap", "navigationUrl", "order", "showOnNavigation"}
             /\ r.navigationUrl = MenuUrl(n) /\ r.order \in Nat
             /\ r.urlMap = IF n = "attendees" THEN <<WalkerUrl, MenuUrl(n)>> ELSE <<MenuUrl(n)>>
  <2>. SUFFICES ASSUME NEW n \in DOMAIN DeclaredFor(p)
                PROVE  LET r == Named(DeclaredFor(p)[n])
                       IN  /\ DOMAIN r = {"urlMap", "navigationUrl", "order", "showOnNavigation"}
                           /\ r.navigationUrl = MenuUrl(n) /\ r.order \in Nat
                           /\ r.urlMap = IF n = "attendees" THEN <<WalkerUrl, MenuUrl(n)>> ELSE <<MenuUrl(n)>>
    OBVIOUS
  <2>1. CASE n \in Public
    <3>1. DeclaredFor(p)[n] = PublicRoutes[n]
      BY <2>1, PublicAre DEF DeclaredFor
    <3>. QED  BY <2>1, <3>1, PublicAre
  <2>2. CASE n \notin Public
    <3>1. n \in Contributed /\ DeclaredFor(p)[n] = ContributorRoutes[n]
      BY <1>1, <2>2, PublicAre, ContributedAre DEF DeclaredFor
    <3>2. n # "attendees"
      BY <2>2 DEF Public
    <3>. QED  BY <3>1, <3>2, ContributedAre
  <2>. QED  BY <2>1, <2>2
<1>3. /\ DOMAIN Registered(p) = {"registered", "intercepted", "isDefault"}
      /\ Registered(p).registered = [n \in DOMAIN DeclaredFor(p) |-> Named(DeclaredFor(p)[n])]
      /\ Registered(p).intercepted = FALSE /\ Registered(p).isDefault = p.isDefault
  BY DEF Registered, NoRoutes
<1>4. /\ All(Registered(p)).intercepted = TRUE
      /\ All(Registered(p)).registered =
            [n \in DOMAIN DeclaredFor(p) |-> InterceptRoute(Named(DeclaredFor(p)[n]), p.isDefault)]
  BY <1>3 DEF All, Intercepted
<1>5. ASSUME NEW n \in DOMAIN DeclaredFor(p), NEW r, r = InterceptRoute(Named(DeclaredFor(p)[n]), p.isDefault)
      PROVE  /\ r.navigationUrl = AddHappeningToUrl(MenuUrl(n), p.isDefault)
             /\ r.order \in Nat
             /\ DOMAIN r.urlMap = IF n = "attendees" THEN 1 .. 2 ELSE 1 .. 1
             /\ r.urlMap[1] = AddHappeningToUrl(IF n = "attendees" THEN WalkerUrl ELSE MenuUrl(n), p.isDefault)
             /\ n = "attendees" => r.urlMap[2] = r.navigationUrl
  <2>1. PICK o : o = Named(DeclaredFor(p)[n])
    OBVIOUS
  <2>2. /\ DOMAIN o = {"urlMap", "navigationUrl", "order", "showOnNavigation"}
        /\ o.navigationUrl = MenuUrl(n) /\ o.order \in Nat
        /\ o.urlMap = IF n = "attendees" THEN <<WalkerUrl, MenuUrl(n)>> ELSE <<MenuUrl(n)>>
    BY <1>2, <2>1
  <2>3. /\ r.navigationUrl = AddHappeningToUrl(o.navigationUrl, p.isDefault)
        /\ r.order = o.order
        /\ r.urlMap = [i \in DOMAIN o.urlMap |-> AddHappeningToUrl(o.urlMap[i], p.isDefault)]
    BY <1>5, <2>1, <2>2 DEF InterceptRoute
  <2>4. CASE n = "attendees"
    <3>1. DOMAIN o.urlMap = 1 .. 2 /\ o.urlMap[1] = WalkerUrl /\ o.urlMap[2] = MenuUrl(n)
      BY <2>2, <2>4
    <3>. QED  BY <2>2, <2>3, <2>4, <3>1
  <2>5. CASE n # "attendees"
    <3>1. DOMAIN o.urlMap = 1 .. 1 /\ o.urlMap[1] = MenuUrl(n)
      BY <2>2, <2>5
    <3>. QED  BY <2>2, <2>3, <2>5, <3>1
  <2>. QED  BY <2>4, <2>5
<1>. QED  BY <1>1, <1>4, <1>5

\* What the page knows.
LEMMA AfterIs ==
    ASSUME NEW p \in Profile
    PROVE  /\ After(p).routes = All(Registered(p))
           /\ After(p).mapped = MapRoutes(All(Registered(p)))
           /\ \A a \in Address : LeadsTo(p, a) = Lookup(MapRoutes(All(Registered(p))), a)
<1>. DEFINE Record(q) ==
        [profile |-> q, routes |-> All(Registered(q)), mapped |-> MapRoutes(All(Registered(q))),
         leads |-> {[address |-> a, to |-> Lookup(MapRoutes(All(Registered(q))), a)] : a \in Address}]
<1>1. Scripts = {Record(q) : q \in Profile}
  BY DEF Scripts
<1>2. \A q : Record(q).profile = q
  OBVIOUS
<1>. HIDE DEF Record
<1>3. After(p) = Record(p)
  <2>1. Record(p) \in Scripts /\ Record(p).profile = p
    BY <1>1, <1>2
  <2>2. \A s \in Scripts : s.profile = p => s = Record(p)
    BY <1>1, <1>2
  <2>. QED  BY <2>1, <2>2 DEF After
<1>4. \A a \in Address : LeadsTo(p, a) = Lookup(MapRoutes(All(Registered(p))), a)
  <2>. SUFFICES ASSUME NEW a \in Address
                PROVE  LeadsTo(p, a) = Lookup(MapRoutes(All(Registered(p))), a)
    OBVIOUS
  <2>. DEFINE To(b) == Lookup(MapRoutes(All(Registered(p))), b)
  <2>1. After(p).leads = {[address |-> b, to |-> To(b)] : b \in Address}
    BY <1>3 DEF Record
  <2>. HIDE DEF To
  <2>2. ASSUME NEW l \in After(p).leads, l.address = a PROVE l.to = To(a)
    <3>1. PICK b \in Address : l = [address |-> b, to |-> To(b)]
      BY <2>1, <2>2
    <3>2. b = a
      BY <2>2, <3>1
    <3>. QED  BY <3>1, <3>2
  <2>3. \E l \in After(p).leads : l.address = a
    <3>1. PICK l : l = [address |-> a, to |-> To(a)]
      OBVIOUS
    <3>2. l \in After(p).leads
      BY <2>1, <3>1
    <3>. QED  BY <3>1, <3>2
  <2>. QED  BY <2>2, <2>3 DEF LeadsTo, To
<1>. QED  BY <1>3, <1>4 DEF Record

\* The urls that Sammy is given.
LEMMA MappedIs ==
    ASSUME NEW p \in Profile, NEW m \in MapRoutes(All(Registered(p)))
    PROVE  /\ m.name \in DOMAIN DeclaredFor(p) /\ m.order \in Nat
           /\ \E u \in UrlsOf(m.name) : m.url = AddHappeningToUrl(u, p.isDefault)
<1>. DEFINE all == All(Registered(p))
<1>1. PICK n \in DOMAIN all.registered : \E i \in DOMAIN all.registered[n].urlMap :
         m = [name |-> n, url |-> all.registered[n].urlMap[i], order |-> all.registered[n].order]
  BY DEF MapRoutes
<1>2. PICK i \in DOMAIN all.registered[n].urlMap :
         m = [name |-> n, url |-> all.registered[n].urlMap[i], order |-> all.registered[n].order]
  BY <1>1
<1>3. PICK r : r = all.registered[n]
  OBVIOUS
<1>4. n \in DOMAIN DeclaredFor(p)
  BY RouteIs
<1>. HIDE DEF all
<1>5. m.name = n /\ m.url = r.urlMap[i] /\ m.order = r.order /\ i \in DOMAIN r.urlMap
  BY <1>2, <1>3
<1>6. /\ r.navigationUrl = AddHappeningToUrl(MenuUrl(n), p.isDefault)
      /\ r.order \in Nat
      /\ DOMAIN r.urlMap = IF n = "attendees" THEN 1 .. 2 ELSE 1 .. 1
      /\ r.urlMap[1] = AddHappeningToUrl(IF n = "attendees" THEN WalkerUrl ELSE MenuUrl(n), p.isDefault)
      /\ n = "attendees" => r.urlMap[2] = r.navigationUrl
  BY <1>3, <1>4, RouteIs DEF all
<1>7. i = 1 \/ (i = 2 /\ n = "attendees")
  BY <1>5, <1>6
<1>8. \/ m.url = AddHappeningToUrl(MenuUrl(n), p.isDefault)
      \/ n = "attendees" /\ m.url = AddHappeningToUrl(WalkerUrl, p.isDefault)
  BY <1>5, <1>6, <1>7
<1>. QED  BY <1>4, <1>5, <1>6, <1>8 DEF UrlsOf

\* Every view's url for the menu is one of them, and tells which view it is.
LEMMA MenuUrlMapped ==
    ASSUME NEW p \in Profile, NEW n \in DOMAIN DeclaredFor(p)
    PROVE  \E m \in MapRoutes(All(Registered(p))) :
              m.name = n /\ m.url = All(Registered(p)).registered[n].navigationUrl
<1>1. PICK r : r = All(Registered(p)).registered[n]
  OBVIOUS
<1>2. /\ r.navigationUrl = AddHappeningToUrl(MenuUrl(n), p.isDefault)
      /\ DOMAIN r.urlMap = IF n = "attendees" THEN 1 .. 2 ELSE 1 .. 1
      /\ r.urlMap[1] = AddHappeningToUrl(IF n = "attendees" THEN WalkerUrl ELSE MenuUrl(n), p.isDefault)
      /\ n = "attendees" => r.urlMap[2] = r.navigationUrl
  BY <1>1, RouteIs
<1>3. PICK i \in DOMAIN r.urlMap : r.urlMap[i] = r.navigationUrl
  BY <1>2
<1>4. PICK m : m = [name |-> n, url |-> r.urlMap[i], order |-> r.order]
  OBVIOUS
<1>5. n \in DOMAIN All(Registered(p)).registered
  BY RouteIs
<1>6. m \in MapRoutes(All(Registered(p)))
  BY <1>1, <1>3, <1>4, <1>5 DEF MapRoutes
<1>. QED  BY <1>1, <1>3, <1>4, <1>6

\* No two views share an item of the menu.
LEMMA MenuUrlTells ==
    ASSUME NEW p \in Profile, NEW n \in DOMAIN DeclaredFor(p), NEW m \in DOMAIN DeclaredFor(p),
           All(Registered(p)).registered[n].navigationUrl = All(Registered(p)).registered[m].navigationUrl
    PROVE  n = m
<1>1. /\ n \in Public \cup Contributed /\ m \in Public \cup Contributed
      /\ AddHappeningToUrl(MenuUrl(n), p.isDefault) = AddHappeningToUrl(MenuUrl(m), p.isDefault)
  <2>1. n \in Public \cup Contributed /\ m \in Public \cup Contributed
    BY RouteIs
  <2>2. /\ All(Registered(p)).registered[n].navigationUrl = AddHappeningToUrl(MenuUrl(n), p.isDefault)
        /\ All(Registered(p)).registered[m].navigationUrl = AddHappeningToUrl(MenuUrl(m), p.isDefault)
    BY RouteIs
  <2>. QED  BY <2>1, <2>2
<1>2. p.isDefault \in BOOLEAN
  BY DEF Profile
<1>3. ASSUME NEW o \in Public \cup Contributed, NEW u, u = AddHappeningToUrl(MenuUrl(o), p.isDefault)
      PROVE  u[Len(u)] = Ending(o)
  BY <1>2, <1>3, MenuUrlIs, WithHappening
<1>4. Ending(n) = Ending(m)
  BY <1>1, <1>3
<1>. QED  BY <1>1, <1>4, EndingTells

\* What Sammy is told: urls of up to three parts.
LEMMA MappedLength ==
    ASSUME NEW p \in Profile, NEW m \in MapRoutes(All(Registered(p)))
    PROVE  (\E S : m.url \in Seq(S)) /\ Len(m.url) \in 1 .. 3 /\ m.order \in Nat
<1>1. PICK u \in UrlsOf(m.name) : m.url = AddHappeningToUrl(u, p.isDefault)
  BY MappedIs
<1>2. m.name \in Public \cup Contributed /\ m.order \in Nat /\ p.isDefault \in BOOLEAN
  <2>1. m.name \in DOMAIN DeclaredFor(p) /\ m.order \in Nat
    BY MappedIs
  <2>2. DOMAIN DeclaredFor(p) \subseteq Public \cup Contributed
    BY RouteIs
  <2>. QED  BY <2>1, <2>2 DEF Profile
<1>3. (\E S : u \in Seq(S)) /\ Len(u) \in 1 .. 2
  BY <1>1, <1>2, MenuUrlIs, WalkerUrlIs DEF UrlsOf
<1>. QED  BY <1>1, <1>2, <1>3, WithHappening

\* A non-empty set of naturals has a least element.
LEMMA Least ==
    ASSUME NEW S \in SUBSET Nat, S # {}
    PROVE  \E m \in S : \A n \in S : m <= n
<1>. DEFINE R == OpToRel(<, Nat)
<1>1. IsWellFoundedOn(R, Nat)
  BY NatLessThanWellFounded
<1>2. \A x, y \in Nat : x < y <=> <<x, y>> \in R
  BY DEF OpToRel
<1>. HIDE DEF R
<1>3. PICK x \in S : \A y \in S : ~(<<y, x>> \in R)
  BY <1>1, WFMin
<1>4. \A y \in S : x <= y
  <2>. TAKE y \in S
  <2>1. ~(y < x)
    BY <1>2, <1>3
  <2>. QED  BY <2>1
<1>. QED  BY <1>4

\* Lookup takes one of those that fit.
LEMMA LookupIs ==
    ASSUME NEW p \in Profile, NEW known, known = MapRoutes(All(Registered(p))), NEW a,
           Leading(known, a) # {}
    PROVE  \E m \in Leading(known, a) :
              Lookup(known, a) = [name |-> m.name, id |-> IF Last(m.url) = Parameter THEN Last(a) ELSE NoId]
<1>. DEFINE Fit == Leading(known, a)
            First(m) == \A n \in Fit : m.order < n.order \/ (m.order = n.order /\ Len(m.url) >= Len(n.url))
            Rank(m) == 4 * m.order + 3 - Len(m.url)
            Ranks == {Rank(m) : m \in Fit}
<1>1. \A m \in Fit : m.order \in Nat /\ Len(m.url) \in 1 .. 3
  BY MappedLength DEF Leading
<1>. HIDE DEF Fit
<1>2. \A o \in Nat, l \in 1 .. 3, r \in Nat, k \in 1 .. 3 :
         /\ 4 * o + 3 - l \in Nat
         /\ 4 * o + 3 - l <= 4 * r + 3 - k => o < r \/ (o = r /\ l >= k)
  OBVIOUS
<1>3. \E m \in Fit : \A n \in Fit : Rank(m) <= Rank(n)
  <2>1. Fit # {}
    BY DEF Fit
  <2>2. \A m \in Fit : Rank(m) \in Nat
    BY <1>1, <1>2
  <2>. HIDE DEF Rank
  <2>3. Ranks \in SUBSET Nat /\ Ranks # {}
    BY <2>1, <2>2
  <2>4. PICK x \in Ranks : \A y \in Ranks : x <= y
    BY <2>3, Least
  <2>. QED  BY <2>4
<1>4. PICK m \in Fit : First(m)
  <2>1. PICK m \in Fit : \A n \in Fit : Rank(m) <= Rank(n)
    BY <1>3
  <2>2. ASSUME NEW n \in Fit
        PROVE  m.order < n.order \/ (m.order = n.order /\ Len(m.url) >= Len(n.url))
    BY <1>1, <1>2, <2>1
  <2>. QED  BY <2>2
<1>5. PICK m2 \in Fit : m2 = CHOOSE q \in Fit : First(q)
  BY <1>4
<1>6. Lookup(known, a) = [name |-> m2.name, id |-> IF Last(m2.url) = Parameter THEN Last(a) ELSE NoId]
  BY <1>5 DEF Lookup, Fit
<1>. QED  BY <1>6 DEF Fit

\* An address leads to a view that was declared, or to none.
LEMMA ViewIs ==
    ASSUME NEW p \in Profile, NEW a \in Address
    PROVE  LeadsTo(p, a).name \in DOMAIN DeclaredFor(p) \cup {"404"}
<1>1. PICK known : known = MapRoutes(All(Registered(p))) /\ LeadsTo(p, a) = Lookup(known, a)
  BY AfterIs
<1>2. CASE Leading(known, a) = {}
  BY <1>1, <1>2 DEF Lookup
<1>3. CASE Leading(known, a) # {}
  <2>1. PICK m \in Leading(known, a) : Lookup(known, a).name = m.name
    BY <1>1, <1>3, LookupIs
  <2>2. m \in MapRoutes(All(Registered(p)))
    BY <1>1 DEF Leading
  <2>. QED  BY <1>1, <2>1, <2>2, MappedIs
<1>. QED  BY <1>2, <1>3

-----------------------------------------------------------------------------
(* The menu.                                                               *)

Nav(p, n) == All(Registered(p)).registered[n].navigationUrl

\* An item has the url of its view.
Item(i, p) ==
    DOMAIN i = {"name", "url", "active"} /\ i.name \in DOMAIN DeclaredFor(p) /\ i.url = Nav(p, i.name)

\* The item is marked that has the url of the view.
Menu(items, p, v) ==
    \A i \in items :
        /\ Item(i, p)
        /\ v # "404" => v \in DOMAIN DeclaredFor(p) /\ (i.active <=> i.url = Nav(p, v))

\* A navigation marks the view that it leads to.
LEMMA NavigatedIs ==
    ASSUME NEW p \in Profile, NEW v \in DOMAIN DeclaredFor(p), NEW items, \A i \in items : Item(i, p)
    PROVE  Menu(Navigated(After(p).routes, items, v), p, v)
<1>. DEFINE all == After(p).routes
            filled == IF items # {} THEN items ELSE {KoRoute(all, n) : n \in NavigableRoutes(all)}
<1>1. all = All(Registered(p)) /\ All(all) = all
  BY AfterIs, RouteIs DEF All
<1>2. \A n \in NavigableRoutes(all) : Item(KoRoute(all, n), p)
  <2>1. ASSUME NEW n \in NavigableRoutes(all), NEW i, i = KoRoute(all, n) PROVE Item(i, p)
    <3>1. n \in DOMAIN DeclaredFor(p)
      BY <1>1, RouteIs DEF NavigableRoutes
    <3>. QED  BY <1>1, <2>1, <3>1 DEF Item, KoRoute, Nav
  <2>. QED  BY <2>1
<1>3. \A i \in filled : Item(i, p)
  BY <1>2
<1>. HIDE DEF filled
<1>4. Navigated(all, items, v) = {[i EXCEPT !.active = (i.url = Nav(p, v))] : i \in filled}
  BY <1>1 DEF Navigated, filled, Nav
<1>5. ASSUME NEW i \in filled, NEW j, j = [i EXCEPT !.active = (i.url = Nav(p, v))]
      PROVE  Item(j, p) /\ (j.active <=> j.url = Nav(p, v))
  <2>1. DOMAIN j = {"name", "url", "active"} /\ j.name = i.name /\ j.url = i.url
        /\ j.active = (i.url = Nav(p, v))
    BY <1>3, <1>5 DEF Item
  <2>. QED  BY <1>3, <2>1 DEF Item
<1>. QED  BY <1>4, <1>5 DEF Menu

\* An address without a view leaves the menu alone.
LEMMA AfterNavigationIs ==
    ASSUME NEW p \in Profile, NEW v \in DOMAIN DeclaredFor(p) \cup {"404"},
           NEW items, \A i \in items : Item(i, p)
    PROVE  Menu(AfterNavigation(After(p).routes, items, v), p, v)
<1>2. CASE v = "404"
  BY <1>2 DEF AfterNavigation, Menu
<1>3. CASE v # "404"
  <2>1. All(After(p).routes) = After(p).routes
    BY AfterIs, RouteIs DEF All
  <2>. QED  BY <1>3, <2>1, NavigatedIs DEF AfterNavigation
<1>. QED  BY <1>2, <1>3

\* The views of a page are the ones its scripts declare.
MenuInv == profile \in Profile /\ Menu(menu, profile, view)

\* Every step keeps the invariant of the menu.
LEMMA MenuStep == ASSUME MenuInv, [Next]_vars PROVE MenuInv'
<1>1. /\ profile \in Profile /\ \A i \in menu : Item(i, profile)
      /\ "attendees" \in DOMAIN DeclaredFor(profile)
  BY RouteIs DEF MenuInv, Menu, Public
<1>2. ASSUME profile' = profile,
             \/ menu' = menu /\ view' = view
             \/ menu' = Navigated(After(profile).routes, menu, "attendees") /\ view' = "attendees"
      PROVE  MenuInv'
  <2>1. PICK p : p = profile
    OBVIOUS
  <2>2. Menu(menu', p, view')
    BY <1>1, <1>2, <2>1, NavigatedIs DEF MenuInv
  <2>. QED  BY <1>1, <1>2, <2>1, <2>2 DEF MenuInv
<1>3. ASSUME NEW e \in Entry, LoadPage(e.address, e.profile) PROVE MenuInv'
  <2>1. PICK p : p = e.profile
    OBVIOUS
  <2>2. p \in Profile /\ e.address \in Address
    BY <2>1, SiteAssumption
  <2>3. profile' = p /\ view' \in DOMAIN DeclaredFor(p) \cup {"404"}
        /\ menu' = AfterNavigation(After(p).routes, {}, view')
    BY <1>3, <2>1, <2>2, ViewIs DEF LoadPage
  <2>4. Menu(menu', p, view')
    BY <2>2, <2>3, AfterNavigationIs
  <2>. QED  BY <2>2, <2>3, <2>4 DEF MenuInv
<1>4. ASSUME NEW a \in Address, OpenAddress(a) PROVE MenuInv'
  <2>1. PICK p : p = profile
    OBVIOUS
  <2>2. profile' = p /\ view' \in DOMAIN DeclaredFor(p) \cup {"404"}
        /\ menu' = AfterNavigation(After(p).routes, menu, view')
    BY <1>1, <1>4, <2>1, ViewIs DEF OpenAddress
  <2>3. Menu(menu', p, view')
    BY <1>1, <2>1, <2>2, AfterNavigationIs
  <2>. QED  BY <1>1, <2>1, <2>2, <2>3 DEF MenuInv
<1>5. ASSUME NEW w, SelectWalker(w) PROVE MenuInv'
  BY <1>2, <1>5 DEF SelectWalker
<1>6. CASE LoadWalkers
  BY <1>2, <1>6 DEF LoadWalkers
<1>7. CASE Retry
  BY <1>2, <1>7 DEF Retry
<1>8. CASE UNCHANGED siteVars
  BY <1>2, <1>8 DEF siteVars
<1>. QED  BY <1>3, <1>4, <1>5, <1>6, <1>7, <1>8 DEF Next, vars

\* The first state.
LEMMA InitMenu == ASSUME Init PROVE MenuInv
BY DEF Init, MenuInv, Profile, Menu

\* The invariant of the menu says what was to be shown.
LEMMA ThenLeads == MenuInv => MenuLeads
<1>. SUFFICES ASSUME MenuInv, NEW i \in menu
              PROVE  /\ \E m \in After(profile).mapped : m.name = i.name /\ m.url = i.url
                     /\ view # "404" => (i.active <=> i.name = view)
  BY DEF MenuLeads
<1>1. profile \in Profile /\ Item(i, profile)
      /\ (view # "404" => view \in DOMAIN DeclaredFor(profile) /\ (i.active <=> i.url = Nav(profile, view)))
  BY DEF MenuInv, Menu
<1>2. \E m \in After(profile).mapped : m.name = i.name /\ m.url = i.url
  BY <1>1, AfterIs, MenuUrlMapped DEF Item, Nav
<1>3. ASSUME view # "404" PROVE i.active <=> i.name = view
  <2>1. i.url = Nav(profile, view) => i.name = view
    BY <1>1, <1>3, MenuUrlTells DEF Item, Nav
  <2>. QED  BY <1>1, <1>3, <2>1 DEF Item
<1>. QED  BY <1>2, <1>3

\* Items of the menu lead to their own views, and the view shown is marked.
THEOREM MenuLeadsHolds == Spec => []MenuLeads
BY InitMenu, MenuStep, ThenLeads, PTL DEF Spec

-----------------------------------------------------------------------------
(* Addresses.                                                              *)

\* The texts of the urls differ.
LEMMA OtherTexts ==
    /\ \A n \in Public \cup Contributed : Ending(n) # Parameter
    /\ "edit" # "attendees" /\ "readings" # "attendees" /\ Parameter # "attendees"
    /\ "edit" # Parameter /\ "readings" # Parameter
BY NoIdIsOther DEF Public, Contributed, Ending, Parameter

\* What tells one url from another: how it begins behind the happening, and how it ends.
LEMMA UrlIs ==
    ASSUME NEW p \in Profile, NEW m \in MapRoutes(All(Registered(p))), NEW l, l = Len(m.url)
    PROVE  /\ l \in 1 .. 3 /\ DOMAIN m.url = 1 .. l
           /\ l = 1 => m.url = Root /\ p.isDefault
           /\ \/ m.name = "attendees" /\ l = 3 /\ m.url[2] = "attendees" /\ m.url[3] = Parameter
              \/ m.url[l] = Ending(m.name) /\ (l = 3 => m.url[2] \in {"edit", "readings"})
<1>1. PICK u \in UrlsOf(m.name) : m.url = AddHappeningToUrl(u, p.isDefault)
  BY MappedIs
<1>2. l \in 1 .. 3 /\ DOMAIN m.url = 1 .. l
  BY MappedLength
<1>3. m.name \in Public \cup Contributed /\ p.isDefault \in BOOLEAN
  BY MappedIs, RouteIs DEF Profile
<1>4. (\E S : u \in Seq(S)) /\ Len(u) \in 1 .. 2
  BY <1>1, <1>3, MenuUrlIs, WalkerUrlIs DEF UrlsOf
<1>5. CASE u = Root /\ p.isDefault
  <2>1. m.url = Root
    BY <1>1, <1>5 DEF AddHappeningToUrl
  <2>2. Len(Root) = 1 /\ Len(WalkerUrl) = 2
    BY WalkerUrlIs DEF Root
  <2>3. u = MenuUrl(m.name)
    BY <1>1, <1>5, <2>2 DEF UrlsOf
  <2>4. m.url[l] = Ending(m.name) /\ l = 1
    BY <1>3, <1>5, <2>1, <2>2, <2>3, MenuUrlIs
  <2>. QED  BY <1>2, <1>5, <2>1, <2>4
<1>6. CASE ~(u = Root /\ p.isDefault)
  <2>1. l = Len(u) + 1 /\ \A i \in 1 .. Len(u) : m.url[i + 1] = u[i]
    BY <1>1, <1>4, <1>6, BehindHappening
  <2>2. l # 1 /\ (l = 3 => m.url[2] = u[1]) /\ m.url[l] = u[Len(u)]
    BY <1>4, <2>1
  <2>3. CASE u = MenuUrl(m.name)
    <3>1. m.url[l] = Ending(m.name)
      BY <1>3, <2>2, <2>3, MenuUrlIs
    <3>2. l = 3 => u[1] \in {"edit", "readings"}
      BY <2>1, <2>3 DEF MenuUrl
    <3>. QED  BY <1>2, <2>2, <3>1, <3>2
  <2>4. CASE u # MenuUrl(m.name)
    <3>1. m.name = "attendees" /\ u = WalkerUrl
      BY <1>1, <2>4 DEF UrlsOf
    <3>. QED  BY <1>2, <2>1, <2>2, <3>1, WalkerUrlIs
  <2>. QED  BY <2>3, <2>4
<1>. QED  BY <1>5, <1>6

\* An address is the one of one view at most.
LEMMA OneView ==
    ASSUME NEW p \in Profile, NEW a, Len(a) \in Nat,
           NEW m \in MapRoutes(All(Registered(p))), Matches(m.url, a), Len(m.url) = Len(a),
           NEW n \in MapRoutes(All(Registered(p))), Matches(n.url, a), Len(n.url) = Len(a)
    PROVE  m.name = n.name
<1>1. PICK l : l = Len(a)
  OBVIOUS
<1>2. /\ l \in 1 .. 3 /\ DOMAIN m.url = 1 .. l /\ DOMAIN n.url = 1 .. l
      /\ \/ m.name = "attendees" /\ l = 3 /\ m.url[2] = "attendees" /\ m.url[3] = Parameter
         \/ m.url[l] = Ending(m.name) /\ (l = 3 => m.url[2] \in {"edit", "readings"})
      /\ \/ n.name = "attendees" /\ l = 3 /\ n.url[2] = "attendees" /\ n.url[3] = Parameter
         \/ n.url[l] = Ending(n.name) /\ (l = 3 => n.url[2] \in {"edit", "readings"})
  BY <1>1, UrlIs
<1>3. m.name \in Public \cup Contributed /\ n.name \in Public \cup Contributed
  BY MappedIs, RouteIs
<1>4. \A i \in 1 .. l : /\ a[i] = m.url[i] \/ m.url[i] = Parameter
                        /\ a[i] = n.url[i] \/ n.url[i] = Parameter
  <2>1. \A i \in 1 .. l : Len(a) - Len(m.url) + i = i /\ Len(a) - Len(n.url) + i = i
    BY <1>1, <1>2
  <2>. QED  BY <1>2, <2>1 DEF Matches
<1>5. l \in 1 .. l /\ (l = 3 => 2 \in 1 .. l)
  BY <1>2
<1>. QED  BY <1>2, <1>3, <1>4, <1>5, OtherTexts, EndingTells

\* Addresses are lists of texts.
LEMMA AddressIs ==
    ASSUME NEW a \in Address
    PROVE  a # NoUrl /\ Len(a) \in Nat \ {0} /\ Last(a) = a[Len(a)]
<1>1. PICK S : a \in Seq(S)
  BY SiteAssumption, Zenon
<1>2. a # NoUrl
  BY SiteAssumption, Zenon
<1>. QED  BY <1>1, <1>2 DEF NoUrl, Last

\* The urls of a view, as declared and as mapped.
LEMMA DeclaredUrls ==
    ASSUME NEW p \in Profile, NEW n \in DOMAIN DeclaredFor(p)
    PROVE  All(Registered(p)).registered[n].urlMap =
              [i \in DOMAIN DeclaredFor(p)[n].urlMap |->
                  AddHappeningToUrl(DeclaredFor(p)[n].urlMap[i], p.isDefault)]
<1>1. PICK r : r = DeclaredFor(p)[n]
  OBVIOUS
<1>2. DOMAIN Named(r) = {"urlMap", "navigationUrl", "order", "showOnNavigation"}
  <2>1. CASE n \in Public
    <3>1. r = PublicRoutes[n]
      BY <1>1, <2>1, PublicAre DEF DeclaredFor
    <3>. QED  BY <2>1, <3>1, PublicAre
  <2>2. CASE n \notin Public
    <3>1. n \in Contributed /\ r = ContributorRoutes[n]
      BY <1>1, <2>2, PublicAre, ContributedAre, RouteIs DEF DeclaredFor
    <3>. QED  BY <3>1, ContributedAre
  <2>. QED  BY <2>1, <2>2
<1>3. DOMAIN r = {"urlMap", "navigationUrl", "order", "showOnNavigation"} /\ Named(r).urlMap = r.urlMap
  BY <1>2 DEF Named
<1>4. All(Registered(p)).registered[n] = InterceptRoute(Named(r), p.isDefault)
  <2>1. /\ DOMAIN Registered(p) = {"registered", "intercepted", "isDefault"}
        /\ Registered(p).registered = [o \in DOMAIN DeclaredFor(p) |-> Named(DeclaredFor(p)[o])]
        /\ Registered(p).intercepted = FALSE /\ Registered(p).isDefault = p.isDefault
    BY DEF Registered, NoRoutes
  <2>. QED  BY <1>1, <2>1 DEF All, Intercepted
<1>5. PICK o : o = Named(r)
  OBVIOUS
<1>6. InterceptRoute(o, p.isDefault).urlMap =
         [i \in DOMAIN o.urlMap |-> AddHappeningToUrl(o.urlMap[i], p.isDefault)]
  BY <1>2, <1>5 DEF InterceptRoute
<1>. QED  BY <1>1, <1>3, <1>4, <1>5, <1>6

\* What is declared for an address is what it leads to, unless a pattern takes it for another.
LEMMA DeclaredIs ==
    ASSUME Unmistakable, NEW p \in Profile, NEW a \in Address
    PROVE  LeadsTo(p, a).name = Declared(p, a)
<1>. DEFINE names == {n \in DOMAIN DeclaredFor(p) : \E i \in DOMAIN DeclaredFor(p)[n].urlMap :
                        LET u == AddHappeningToUrl(DeclaredFor(p)[n].urlMap[i], p.isDefault)
                        IN  Len(u) = Len(a) /\ Matches(u, a)}
            none == IF p.isDefault /\ Last(a) = "" THEN "report" ELSE "404"
<1>1. PICK known : known = MapRoutes(All(Registered(p))) /\ LeadsTo(p, a) = Lookup(known, a)
  BY AfterIs
<1>2. \A n : n \in names <=> \E m \in Leading(known, a) : m.name = n /\ Len(m.url) = Len(a)
  <2>1. ASSUME NEW n \in names PROVE \E m \in Leading(known, a) : m.name = n /\ Len(m.url) = Len(a)
    <3>0. PICK i \in DOMAIN DeclaredFor(p)[n].urlMap :
             /\ Len(AddHappeningToUrl(DeclaredFor(p)[n].urlMap[i], p.isDefault)) = Len(a)
             /\ Matches(AddHappeningToUrl(DeclaredFor(p)[n].urlMap[i], p.isDefault), a)
      BY <2>1
    <3>1. PICK u : /\ u = AddHappeningToUrl(DeclaredFor(p)[n].urlMap[i], p.isDefault)
                   /\ Len(u) = Len(a) /\ Matches(u, a)
      BY <3>0
    <3>2. PICK r : r = All(Registered(p)).registered[n]
      OBVIOUS
    <3>3. n \in DOMAIN DeclaredFor(p) /\ i \in DOMAIN r.urlMap /\ r.urlMap[i] = u
      <4>1. n \in DOMAIN DeclaredFor(p)
        BY <2>1
      <4>2. r.urlMap = [j \in DOMAIN DeclaredFor(p)[n].urlMap |->
                          AddHappeningToUrl(DeclaredFor(p)[n].urlMap[j], p.isDefault)]
        BY <3>2, <4>1, DeclaredUrls
      <4>. QED  BY <3>1, <4>1, <4>2
    <3>4. PICK m : m = [name |-> n, url |-> r.urlMap[i], order |-> r.order]
      OBVIOUS
    <3>5. n \in DOMAIN All(Registered(p)).registered
      BY <3>3, RouteIs
    <3>6. m \in known
      BY <1>1, <3>2, <3>3, <3>4, <3>5 DEF MapRoutes
    <3>. QED  BY <3>1, <3>3, <3>4, <3>6 DEF Leading
  <2>2. ASSUME NEW m \in Leading(known, a), Len(m.url) = Len(a) PROVE m.name \in names
    <3>1. m \in known /\ Matches(m.url, a)
      BY DEF Leading
    <3>2. PICK n \in DOMAIN All(Registered(p)).registered :
             \E i \in DOMAIN All(Registered(p)).registered[n].urlMap :
                m = [name |-> n, url |-> All(Registered(p)).registered[n].urlMap[i],
                     order |-> All(Registered(p)).registered[n].order]
      BY <1>1, <3>1 DEF MapRoutes
    <3>3. PICK r : r = All(Registered(p)).registered[n]
      OBVIOUS
    <3>4. PICK i \in DOMAIN r.urlMap : m.name = n /\ m.url = r.urlMap[i]
      BY <3>2, <3>3
    <3>5. n \in DOMAIN DeclaredFor(p)
      BY RouteIs
    <3>6. i \in DOMAIN DeclaredFor(p)[n].urlMap
          /\ m.url = AddHappeningToUrl(DeclaredFor(p)[n].urlMap[i], p.isDefault)
      BY <3>3, <3>4, <3>5, DeclaredUrls
    <3>. QED  BY <2>2, <3>1, <3>4, <3>5, <3>6
  <2>. QED  BY <2>1, <2>2
<1>3. /\ names # {} => Declared(p, a) = CHOOSE n \in names : TRUE
      /\ names = {} => Declared(p, a) = none
  <2>1. ASSUME names # {} PROVE Declared(p, a) = CHOOSE n \in names : TRUE
    BY <2>1 DEF Declared
  <2>2. ASSUME names = {}, p.isDefault /\ Last(a) = "" PROVE Declared(p, a) = "report"
    BY <2>2 DEF Declared
  <2>3. ASSUME names = {}, ~(p.isDefault /\ Last(a) = "") PROVE Declared(p, a) = "404"
    BY <2>3 DEF Declared
  <2>. QED  BY <2>1, <2>2, <2>3
<1>. HIDE DEF names
<1>4. Len(a) \in Nat \ {0} /\ Last(a) = a[Len(a)]
  BY AddressIs
<1>5. Len(Root) = 1 /\ Root[1] = NoId /\ DOMAIN Root = 1 .. 1
  BY DEF Root, NoId
<1>6. \A m \in known : m.name \in Public \cup Contributed
  BY <1>1, MappedIs, RouteIs
<1>7. \A m \in known : m.url = Root => m.name = "report" /\ p.isDefault
  <2>1. Ending("report") = NoId /\ "report" \in Public \cup Contributed
    BY DEF Ending, Public
  <2>. SUFFICES ASSUME NEW m \in known, m.url = Root PROVE m.name = "report" /\ p.isDefault
    OBVIOUS
  <2>2. /\ p.isDefault
        /\ \/ m.name = "attendees" /\ 1 = 3 /\ m.url[2] = "attendees" /\ m.url[3] = Parameter
           \/ m.url[1] = Ending(m.name) /\ (1 = 3 => m.url[2] \in {"edit", "readings"})
    BY <1>1, <1>5, UrlIs
  <2>. QED  BY <1>5, <1>6, <2>1, <2>2, EndingTells
<1>8. Matches(Root, a) => Last(a) = NoId
  <2>1. Len(a) - Len(Root) + 1 = Len(a) /\ 1 \in DOMAIN Root
    BY <1>4, <1>5
  <2>2. Root[1] # Parameter
    BY <1>5, NoIdIsOther
  <2>. QED  BY <1>4, <1>5, <2>1, <2>2 DEF Matches
<1>9. \A m \in Leading(known, a) : Len(m.url) = Len(a) \/ m.url = Root
  BY <1>1, AfterIs DEF Unmistakable, Leading
<1>10. CASE names = {}
  <2>1. \A m \in Leading(known, a) : m.url = Root
    BY <1>2, <1>9, <1>10
  <2>2. CASE Leading(known, a) = {}
    <3>1. ~(p.isDefault /\ Last(a) = NoId)
      <4>. SUFFICES ASSUME p.isDefault, Last(a) = NoId PROVE FALSE
        OBVIOUS
      <4>1. "report" \in DOMAIN DeclaredFor(p)
        BY RouteIs DEF Public
      <4>2. PICK m \in known : m.url = All(Registered(p)).registered["report"].navigationUrl
        BY <1>1, <4>1, MenuUrlMapped
      <4>3. MenuUrl("report") = Root
        BY DEF MenuUrl, Ending, Root, NoId
      <4>4. m.url = AddHappeningToUrl(MenuUrl("report"), p.isDefault)
        BY <4>1, <4>2, RouteIs
      <4>5. m.url = Root
        BY <4>3, <4>4 DEF AddHappeningToUrl
      <4>6. Matches(Root, a)
        <5>1. Len(a) - Len(Root) + 1 = Len(a) /\ Len(Root) <= Len(a)
          BY <1>4, <1>5
        <5>2. \A i \in DOMAIN Root : i = 1
          BY <1>5
        <5>. QED  BY <1>4, <1>5, <5>1, <5>2 DEF Matches
      <4>. QED  BY <2>2, <4>5, <4>6 DEF Leading
    <3>2. none = "404"
      BY <3>1 DEF NoId
    <3>3. LeadsTo(p, a).name = "404"
      BY <1>1, <2>2 DEF Lookup
    <3>. QED  BY <1>3, <1>10, <3>2, <3>3
  <2>3. CASE Leading(known, a) # {}
    <3>1. PICK m \in Leading(known, a) : Lookup(known, a).name = m.name
      BY <1>1, <2>3, LookupIs
    <3>2. m \in known /\ m.url = Root /\ Matches(Root, a)
      BY <2>1, <3>1 DEF Leading
    <3>3. m.name = "report" /\ none = "report"
      BY <1>7, <1>8, <3>2 DEF NoId
    <3>. QED  BY <1>1, <1>3, <1>10, <3>1, <3>3
  <2>. QED  BY <2>2, <2>3
<1>11. CASE names # {}
  <2>1. Declared(p, a) \in names
    BY <1>3, <1>11
  <2>2. PICK n \in Leading(known, a) : n.name = Declared(p, a) /\ Len(n.url) = Len(a)
    BY <1>2, <2>1
  <2>3. PICK m \in Leading(known, a) : Lookup(known, a).name = m.name
    BY <1>1, <2>2, LookupIs
  <2>4. m \in known /\ Matches(m.url, a) /\ n \in known /\ Matches(n.url, a)
    BY DEF Leading
  <2>5. CASE Len(m.url) = Len(a)
    BY <1>1, <1>4, <2>2, <2>3, <2>4, <2>5, OneView
  <2>6. CASE m.url = Root
    <3>1. Last(a) = NoId /\ m.name = "report"
      BY <1>7, <1>8, <2>4, <2>6
    <3>2. PICK l : l = Len(n.url)
      OBVIOUS
    <3>3. /\ l \in 1 .. 3 /\ DOMAIN n.url = 1 .. l
          /\ \/ n.name = "attendees" /\ l = 3 /\ n.url[2] = "attendees" /\ n.url[3] = Parameter
             \/ n.url[l] = Ending(n.name)
      BY <1>1, <2>4, <3>2, UrlIs
    <3>4. a[Len(a)] = n.url[l] \/ (n.url[l] = Parameter /\ a[Len(a)] # NoId)
      <4>1. Len(a) - Len(n.url) + l = Len(a) /\ l \in DOMAIN n.url
        BY <1>4, <2>2, <3>2, <3>3
      <4>. QED  BY <2>4, <4>1 DEF Matches, NoId
    <3>5. n.url[l] = NoId
      BY <1>4, <3>1, <3>4
    <3>6. Ending(n.name) = NoId
      BY <3>3, <3>5, NoIdIsOther
    <3>7. Ending("report") = NoId /\ "report" \in Public \cup Contributed
      BY DEF Ending, Public
    <3>8. n.name = "report"
      BY <1>6, <2>4, <3>6, <3>7, EndingTells
    <3>. QED  BY <1>1, <2>2, <2>3, <3>1, <3>8
  <2>. QED  BY <1>9, <2>5, <2>6
<1>. QED  BY <1>10, <1>11

\* The shortest url.
LEMMA RootIs == Len(Root) = 1 /\ Root[1] = NoId /\ DOMAIN Root = 1 .. 1
BY DEF Root, NoId

\* A pattern as long as the address.
LEMMA MatchesWhole ==
    ASSUME NEW l \in Nat, NEW u, NEW a, Len(u) = l, Len(a) = l, DOMAIN u = 1 .. l
    PROVE  Matches(u, a) <=> \A i \in 1 .. l : a[i] = u[i] \/ (u[i] = Parameter /\ a[i] # NoId)
<1>1. Len(u) <= Len(a) /\ \A i \in 1 .. l : Len(a) - Len(u) + i = i
  OBVIOUS
<1>. QED  BY <1>1 DEF Matches, NoId

\* The address of a walker leads to that walker, the one without to none.
LEMMA WalkerAddress ==
    ASSUME Unmistakable, NEW p \in Profile, NEW w \in Walker \cup {NoId},
           NEW a, a = Url("attendees", w, p.isDefault)
    PROVE  a \in Address /\ LeadsTo(p, a).name = "attendees" /\ LeadsTo(p, a).id = w
<1>1. a \in Address /\ p.isDefault \in BOOLEAN
  <2>1. p.isDefault \in BOOLEAN
    BY DEF Profile
  <2>. QED  BY <2>1, SiteAssumption, Zenon
<1>2. PICK S : S = {"attendees", w}
  OBVIOUS
<1>3. PICK u : u = IF w = NoId THEN <<"attendees">> ELSE <<"attendees", w>>
  OBVIOUS
<1>4. /\ u \in Seq(S) /\ Len(u) = (IF w = NoId THEN 1 ELSE 2)
      /\ u[1] = "attendees" /\ (w # NoId => u[2] = w)
  BY <1>2, <1>3, ShortLists
<1>5. a = AddHappeningToUrl(u, p.isDefault)
  <2>1. AppendToUrl(NoUrl, "attendees") = <<"attendees">>
    <3>1. Append(<<>>, "attendees") = <<"attendees">>
      OBVIOUS
    <3>. QED  BY <3>1, NoIdIsOther DEF AppendToUrl, NoUrl
  <2>2. AppendToUrl(<<"attendees">>, w) = u
    <3>1. Append(<<"attendees">>, w) = <<"attendees", w>>
      BY <1>2, ShortLists
    <3>. QED  BY <1>3, <3>1 DEF AppendToUrl
  <2>. QED  BY <2>1, <2>2 DEF Url
<1>6. u # Root
  BY <1>4, RootIs, NoIdIsOther
<1>7. /\ Len(a) = (IF w = NoId THEN 2 ELSE 3)
      /\ a[1] = Current /\ a[2] = "attendees" /\ (w # NoId => a[3] = w)
  <2>1. PICK v : v = AddHappeningToUrl(u, p.isDefault)
    OBVIOUS
  <2>2. Len(v) = Len(u) + 1 /\ v[1] = Current /\ \A i \in 1 .. Len(u) : v[i + 1] = u[i]
    <3>1. Len(u) \in 1 .. 2
      BY <1>4
    <3>. QED  BY <1>4, <1>6, <2>1, <3>1, BehindHappening
  <2>3. v[2] = u[1]
    BY <1>4, <2>2
  <2>4. w # NoId => v[3] = u[2]
    BY <1>4, <2>2
  <2>. QED  BY <1>4, <1>5, <2>1, <2>2, <2>3, <2>4
<1>8. PICK known : known = MapRoutes(All(Registered(p))) /\ LeadsTo(p, a) = Lookup(known, a)
  BY <1>1, AfterIs
<1>9. PICK n \in known : n.name = "attendees" /\ Matches(n.url, a) /\ Len(n.url) = Len(a)
  <2>1. PICK r : r = All(Registered(p)).registered["attendees"]
    OBVIOUS
  <2>2. "attendees" \in DOMAIN DeclaredFor(p)
    BY RouteIs DEF Public
  <2>3. /\ r.navigationUrl = AddHappeningToUrl(MenuUrl("attendees"), p.isDefault)
        /\ DOMAIN r.urlMap = 1 .. 2
        /\ r.urlMap[1] = AddHappeningToUrl(WalkerUrl, p.isDefault)
        /\ r.urlMap[2] = r.navigationUrl
    BY <2>1, <2>2, RouteIs
  <2>4. \A i \in 1 .. 2 : [name |-> "attendees", url |-> r.urlMap[i], order |-> r.order] \in known
    <3>1. "attendees" \in DOMAIN All(Registered(p)).registered
      BY <2>2, RouteIs
    <3>. QED  BY <1>8, <2>1, <2>3, <3>1 DEF MapRoutes
  <2>5. CASE w = NoId
    <3>1. PICK n : n = [name |-> "attendees", url |-> r.urlMap[2], order |-> r.order]
      OBVIOUS
    <3>2. MenuUrl("attendees") = <<"attendees">>
      BY DEF MenuUrl, Ending
    <3>3. n \in known /\ n.name = "attendees" /\ n.url = a
      BY <1>3, <1>5, <2>3, <2>4, <2>5, <3>1, <3>2
    <3>4. Matches(a, a)
      <4>1. DOMAIN n.url = 1 .. Len(n.url) /\ Len(a) = 2
        BY <1>7, <1>8, <2>5, <3>3, UrlIs
      <4>. QED  BY <3>3, <4>1, MatchesWhole
    <3>. QED  BY <3>3, <3>4
  <2>6. CASE w # NoId
    <3>1. PICK n : n = [name |-> "attendees", url |-> r.urlMap[1], order |-> r.order]
      OBVIOUS
    <3>2. n \in known /\ n.name = "attendees" /\ n.url = AddHappeningToUrl(WalkerUrl, p.isDefault)
      BY <2>3, <2>4, <3>1
    <3>3. /\ Len(n.url) = 3 /\ n.url[1] = Current
          /\ \A i \in 1 .. 2 : n.url[i + 1] = WalkerUrl[i]
      <4>1. WalkerUrl # Root
        <5>1. Len(WalkerUrl) = 2 /\ Len(Root) = 1
          BY WalkerUrlIs, RootIs
        <5>. QED  BY <5>1
      <4>2. PICK T : WalkerUrl \in Seq(T)
        BY WalkerUrlIs
      <4>3. Len(WalkerUrl) \in 1 .. 2 /\ Len(WalkerUrl) = 2
        BY WalkerUrlIs
      <4>4. PICK v : v = AddHappeningToUrl(WalkerUrl, p.isDefault)
        OBVIOUS
      <4>5. /\ Len(v) = Len(WalkerUrl) + 1 /\ v[1] = Current
            /\ \A i \in 1 .. Len(WalkerUrl) : v[i + 1] = WalkerUrl[i]
        BY <4>1, <4>2, <4>3, <4>4, BehindHappening
      <4>. QED  BY <3>2, <4>3, <4>4, <4>5
    <3>4. n.url[2] = "attendees" /\ n.url[3] = Parameter
      <4>1. n.url[1 + 1] = WalkerUrl[1] /\ n.url[2 + 1] = WalkerUrl[2]
        BY <3>3
      <4>. QED  BY <4>1, WalkerUrlIs
    <3>5. Matches(n.url, a)
      <4>1. DOMAIN n.url = 1 .. 3 /\ Len(a) = 3
        <5>1. PICK l : l = Len(n.url)
          OBVIOUS
        <5>2. DOMAIN n.url = 1 .. l
          BY <1>8, <3>2, <5>1, UrlIs
        <5>. QED  BY <1>7, <2>6, <3>3, <5>1, <5>2
      <4>2. ASSUME NEW i \in 1 .. 3 PROVE a[i] = n.url[i] \/ (n.url[i] = Parameter /\ a[i] # NoId)
        <5>1. a[1] = n.url[1] /\ a[2] = n.url[2] /\ n.url[3] = Parameter /\ a[3] # NoId
          BY <1>7, <2>6, <3>3, <3>4
        <5>2. i = 1 \/ i = 2 \/ i = 3
          BY <4>2
        <5>. QED  BY <5>1, <5>2
      <4>. QED  BY <3>3, <4>1, <4>2, MatchesWhole
    <3>. QED  BY <1>7, <2>6, <3>2, <3>3, <3>5
  <2>. QED  BY <2>5, <2>6
<1>10. PICK m \in Leading(known, a) :
          LeadsTo(p, a) = [name |-> m.name, id |-> IF Last(m.url) = Parameter THEN Last(a) ELSE NoId]
  BY <1>8, <1>9, LookupIs DEF Leading
<1>11. m \in known /\ Matches(m.url, a)
  BY DEF Leading
<1>12. Len(m.url) = Len(a)
  <2>1. Len(m.url) = Len(a) \/ m.url = Root
    BY <1>1, <1>8, <1>11, AfterIs DEF Unmistakable
  <2>2. m.url # Root
    <3>. SUFFICES ASSUME m.url = Root PROVE FALSE
      OBVIOUS
    <3>1. Len(a) - Len(Root) + 1 = Len(a) /\ 1 \in DOMAIN Root
      BY <1>7, RootIs
    <3>3. a[Len(a)] = NoId
      BY <1>11, <3>1, RootIs, NoIdIsOther DEF Matches
    <3>. QED  BY <1>7, <3>3, NoIdIsOther
  <2>. QED  BY <2>1, <2>2
<1>13. m.name = "attendees"
  BY <1>1, <1>8, <1>9, <1>11, <1>12, OneView, AddressIs
<1>14. Last(a) = a[Len(a)] /\ Last(m.url) = m.url[Len(a)]
  BY <1>1, <1>12, AddressIs DEF Last
<1>15. /\ DOMAIN m.url = 1 .. Len(a)
       /\ \/ Len(a) = 3 /\ m.url[2] = "attendees" /\ m.url[3] = Parameter
          \/ m.url[Len(a)] = Ending("attendees") /\ (Len(a) = 3 => m.url[2] \in {"edit", "readings"})
  <2>1. PICK l : l = Len(m.url)
    OBVIOUS
  <2>2. /\ DOMAIN m.url = 1 .. l
        /\ \/ m.name = "attendees" /\ l = 3 /\ m.url[2] = "attendees" /\ m.url[3] = Parameter
           \/ m.url[l] = Ending(m.name) /\ (l = 3 => m.url[2] \in {"edit", "readings"})
    BY <1>8, <1>11, <2>1, UrlIs
  <2>. QED  BY <1>12, <1>13, <2>1, <2>2
<1>16. Ending("attendees") = "attendees"
  BY DEF Ending
<1>19. LeadsTo(p, a).name = m.name
       /\ LeadsTo(p, a).id = IF m.url[Len(a)] = Parameter THEN a[Len(a)] ELSE NoId
  BY <1>10, <1>14
<1>17. CASE w = NoId
  <2>1. Len(a) = 2 /\ Len(a) # 3
    BY <1>7, <1>17
  <2>2. m.url[Len(a)] # Parameter
    BY <1>15, <1>16, <2>1, OtherTexts
  <2>. QED  BY <1>1, <1>13, <1>17, <1>19, <2>2
<1>18. CASE w # NoId
  <2>1. Len(a) = 3 /\ a[2] = "attendees" /\ a[3] = w
    BY <1>7, <1>18
  <2>2. a[2] = m.url[2] \/ m.url[2] = Parameter
    <3>1. Len(m.url) = 3
      BY <1>12, <2>1
    <3>2. DOMAIN m.url = 1 .. 3
      BY <1>15, <2>1
    <3>3. PICK l : l = 3
      OBVIOUS
    <3>4. l \in Nat /\ Len(m.url) = l /\ Len(a) = l /\ DOMAIN m.url = 1 .. l /\ 2 \in 1 .. l
      BY <2>1, <3>1, <3>2, <3>3
    <3>. QED  BY <1>11, <3>4, MatchesWhole
  <2>3. m.url[3] = Parameter
    BY <1>15, <2>1, <2>2, OtherTexts
  <2>. QED  BY <1>1, <1>13, <1>19, <2>1, <2>3
<1>. QED  BY <1>17, <1>18

-----------------------------------------------------------------------------
(* The view of walkers.                                                    *)

\* The addresses of walkers, and the one without a walker.
Attending(p) == {a \in Address : LeadsTo(p, a).name = "attendees"}

SiteTypes ==
    /\ profile \in Profile
    /\ pages \in Nat /\ retries \in Nat
    /\ pages = 0 => view = "none" /\ timers = <<>>
    /\ pages > 0 => address \in Address
    /\ context \in Address \cup {NoUrl}
    /\ timers \in Seq(Attending(profile))
    /\ walkers \in {NotLoaded, Walker}

\* The address has its view. The view of walkers waits for a timer, or shows who it should.
ShownPromise ==
    /\ LeadsTo(profile, address).name = view
    /\ view = "attendees" => context # NoUrl
    /\ view = "attendees" /\ retries < MaxRetries /\ timers = <<>> =>
          walkers # NotLoaded /\ selected = Found(IdOf(address))

ShownInv == SiteTypes /\ (pages > 0 /\ ~late => ShownPromise)

\* Whoever is selected has their own address afterwards.
LEMMA SelectIs ==
    ASSUME Unmistakable, profile \in Profile, walkers = Walker,
           NEW w \in Walker \cup {NoId}, NEW c, NEW a, Select(w, c, a)
    PROVE  /\ selected' = w
           /\ \/ address' = a /\ context' = c /\ (w = selected \/ c = NoUrl)
              \/ /\ address' \in Attending(profile) /\ context' = address'
                 /\ w = Found(IdOf(address'))
<1>1. PICK b : b = AttendeeUrl(w)
  OBVIOUS
<1>2. b \in Address /\ LeadsTo(profile, b).name = "attendees" /\ LeadsTo(profile, b).id = w
  BY <1>1, WalkerAddress DEF AttendeeUrl
<1>3. w = Found(LeadsTo(profile, b).id)
  BY <1>2 DEF Found
<1>4. selected' = w /\ ((address' = a /\ context' = c /\ (w = selected \/ c = NoUrl))
                        \/ (address' = b /\ context' = b))
  BY <1>1 DEF Select
<1>. QED  BY <1>2, <1>3, <1>4 DEF Attending, IdOf

\* onload waits for the walkers with a timer, or selects whom its address names.
LEMMA OnloadIs ==
    ASSUME Unmistakable, SiteTypes, NEW c \in Attending(profile), NEW a \in Address,
           NEW waiting \in Seq(Attending(profile)), OnloadAttendees(c, a, waiting)
    PROVE  /\ context' \in Address /\ address' \in Address /\ retries' \in Nat
           /\ timers' \in Seq(Attending(profile)) /\ walkers' = walkers
           /\ walkers = NotLoaded /\ retries' < MaxRetries => timers' # <<>>
           /\ c = a => /\ address' \in Attending(profile)
                       /\ walkers # NotLoaded => selected' = Found(IdOf(address'))
<1>1. /\ profile \in Profile /\ retries \in Nat /\ MaxRetries \in Nat /\ c \in Address
      /\ walkers \in {NotLoaded, Walker}
  <2>1. MaxRetries \in Nat
    BY SiteAssumption, Zenon
  <2>. QED  BY <2>1 DEF SiteTypes, Attending
<1>2. CASE walkers = NotLoaded
  <2>1. /\ context' = c /\ address' = a /\ walkers' = walkers
        /\ retries' = IF retries < MaxRetries THEN retries + 1 ELSE retries
        /\ timers' = IF retries < MaxRetries THEN Append(waiting, c) ELSE waiting
    BY <1>2 DEF OnloadAttendees
  <2>2. Append(waiting, c) \in Seq(Attending(profile)) /\ Append(waiting, c) # <<>>
    <3>1. PICK S : S = Attending(profile)
      OBVIOUS
    <3>2. waiting \in Seq(S) /\ c \in S
      BY <3>1
    <3>3. Append(waiting, c) \in Seq(S) /\ Append(waiting, c) # <<>>
      BY ONLY <3>2, AppendProperties, Zenon
    <3>. QED  BY <3>1, <3>3
  <2>. QED  BY <1>1, <1>2, <2>1, <2>2
<1>3. CASE walkers # NotLoaded
  <2>1. PICK w : w = Found(IdOf(c))
    OBVIOUS
  <2>2. walkers = Walker /\ w \in Walker \cup {NoId}
    BY <1>1, <1>3, <2>1 DEF Found
  <2>3. Select(w, c, a) /\ timers' = waiting /\ retries' = retries /\ walkers' = walkers
    BY <1>3, <2>1 DEF OnloadAttendees
  <2>4. c # NoUrl
    BY <1>1, AddressIs
  <2>5. /\ selected' = w
        /\ \/ address' = a /\ context' = c
           \/ /\ address' \in Attending(profile) /\ context' = address'
              /\ w = Found(IdOf(address'))
    BY <1>1, <2>2, <2>3, SelectIs
  <2>. QED  BY <1>1, <1>3, <2>1, <2>3, <2>5 DEF Attending
<1>. QED  BY <1>2, <1>3

\* A page is loaded: the view is its address's, and waits.
LEMMA ShownByLoad ==
    ASSUME Unmistakable, ShownInv, NEW p \in Profile, NEW a \in Address, LoadPage(a, p)
    PROVE  ShownInv'
<1>1. PICK v : v = LeadsTo(p, a).name
  OBVIOUS
<1>2. pages \in Nat /\ MaxRetries \in Nat
  <2>1. MaxRetries \in Nat
    BY SiteAssumption, Zenon
  <2>. QED  BY <2>1 DEF ShownInv, SiteTypes
<1>3. /\ profile' = p /\ pages' = pages + 1 /\ view' = v /\ address' = a /\ walkers' = NotLoaded
      /\ retries' = (IF v = "attendees" /\ MaxRetries > 0 THEN 1 ELSE 0)
      /\ timers' = (IF v = "attendees" /\ MaxRetries > 0 THEN <<a>> ELSE <<>>)
      /\ context' = (IF v = "attendees" THEN a ELSE NoUrl)
  BY <1>1 DEF LoadPage
<1>4. timers' \in Seq(Attending(p))
  <2>1. v = "attendees" => a \in Attending(p)
    BY <1>1 DEF Attending
  <2>. QED  BY <1>3, <2>1
<1>5. SiteTypes'
  BY <1>2, <1>3, <1>4 DEF SiteTypes
<1>6. a # NoUrl
  BY AddressIs
<1>7. v = "attendees" /\ timers' = <<>> => ~(retries' < MaxRetries)
  BY <1>2, <1>3
<1>8. ShownPromise'
  BY <1>1, <1>3, <1>6, <1>7 DEF ShownPromise
<1>. QED  BY <1>5, <1>8 DEF ShownInv

\* An address is opened: its view is shown, and shows who is named in it.
LEMMA ShownByOpen ==
    ASSUME Unmistakable, ShownInv, NEW a \in Address, OpenAddress(a)
    PROVE  ShownInv'
<1>1. PICK p : p = profile
  OBVIOUS
<1>2. /\ p \in Profile /\ pages > 0 /\ profile' = p /\ pages' = pages /\ pages \in Nat
      /\ view' = LeadsTo(p, a).name
  BY <1>1 DEF OpenAddress, ShownInv, SiteTypes
<1>3. CASE LeadsTo(p, a).name = "attendees"
  <2>1. OnloadAttendees(a, a, timers) /\ a \in Attending(profile) /\ timers \in Seq(Attending(profile))
    BY <1>1, <1>3 DEF OpenAddress, Attending, ShownInv, SiteTypes
  <2>2. /\ context' \in Address /\ address' \in Address /\ retries' \in Nat
        /\ timers' \in Seq(Attending(profile)) /\ walkers' = walkers
        /\ walkers = NotLoaded /\ retries' < MaxRetries => timers' # <<>>
        /\ address' \in Attending(profile)
        /\ walkers # NotLoaded => selected' = Found(IdOf(address'))
    BY <2>1, OnloadIs DEF ShownInv
  <2>3. SiteTypes'
    BY <1>1, <1>2, <2>2 DEF ShownInv, SiteTypes
  <2>4. context' # NoUrl
    BY <2>2, AddressIs
  <2>5. LeadsTo(p, address').name = "attendees"
    BY <1>1, <2>2 DEF Attending
  <2>6. walkers' # NotLoaded => selected' = (IF LeadsTo(p, address').id \in walkers' THEN LeadsTo(p, address').id ELSE NoId)
    BY <1>1, <2>2 DEF Found, IdOf
  <2>7. ShownPromise'
    BY <1>2, <1>3, <2>2, <2>4, <2>5, <2>6 DEF ShownPromise, Found, IdOf
  <2>. QED  BY <2>3, <2>7 DEF ShownInv
<1>4. CASE LeadsTo(p, a).name # "attendees"
  <2>1. address' = a /\ UNCHANGED walkerVars
    BY <1>1, <1>4 DEF OpenAddress
  <2>2. SiteTypes'
    BY <1>1, <1>2, <2>1 DEF ShownInv, SiteTypes, walkerVars
  <2>3. ShownPromise'
    BY <1>1, <1>2, <1>4, <2>1 DEF ShownPromise
  <2>. QED  BY <2>2, <2>3 DEF ShownInv
<1>. QED  BY <1>3, <1>4

\* Another walker is selected, and the address follows.
LEMMA ShownBySelect ==
    ASSUME Unmistakable, ShownInv, NEW w \in Walker \cup {NoId}, SelectWalker(w)
    PROVE  ShownInv'
<1>1. SiteTypes
  BY DEF ShownInv
<1>2. /\ profile' = profile /\ pages' = pages /\ view' = view /\ walkers' = walkers
      /\ retries' = retries /\ timers' = timers /\ late' = late
      /\ view = "attendees" /\ walkers # NotLoaded /\ w # selected
      /\ Select(w, context, address)
  BY DEF SelectWalker
<1>3. walkers = Walker /\ profile \in Profile /\ pages > 0 /\ pages \in Nat
  BY <1>1, <1>2 DEF SiteTypes
<1>4. /\ selected' = w
      /\ \/ address' = address /\ context' = context /\ (w = selected \/ context = NoUrl)
         \/ /\ address' \in Attending(profile) /\ context' = address'
            /\ w = Found(IdOf(address'))
  BY <1>2, <1>3, SelectIs
<1>5. SiteTypes'
  <2>1. address' \in Address /\ context' \in Address \cup {NoUrl}
    BY <1>1, <1>3, <1>4 DEF SiteTypes, Attending
  <2>. QED  BY <1>1, <1>2, <1>3, <2>1 DEF SiteTypes
<1>6. ASSUME ~late' PROVE ShownPromise'
  <2>1. ShownPromise
    BY <1>2, <1>3, <1>6 DEF ShownInv
  <2>2. address' \in Attending(profile) /\ context' = address' /\ w = Found(IdOf(address'))
    BY <1>2, <1>4, <2>1 DEF ShownPromise
  <2>3. PICK a : a = address'
    OBVIOUS
  <2>4. a \in Address /\ LeadsTo(profile, a).name = "attendees"
    BY <2>2, <2>3 DEF Attending
  <2>5. a # NoUrl
    BY <2>4, AddressIs
  <2>6. Found(IdOf(address))' = w
    BY <1>2, <2>2 DEF Found, IdOf
  <2>. QED  BY <1>2, <1>4, <2>2, <2>3, <2>4, <2>5, <2>6 DEF ShownPromise
<1>. QED  BY <1>5, <1>6 DEF ShownInv

\* The walkers come: as long as retries are left, a timer waits for them.
LEMMA ShownByWalkers ==
    ASSUME ShownInv, LoadWalkers
    PROVE  ShownInv'
<1>1. /\ pages > 0 /\ walkers = NotLoaded /\ walkers' = Walker
      /\ profile' = profile /\ pages' = pages /\ view' = view /\ address' = address
      /\ context' = context /\ retries' = retries /\ timers' = timers /\ late' = late
  BY DEF LoadWalkers
<1>2. SiteTypes'
  BY <1>1 DEF ShownInv, SiteTypes
<1>3. ASSUME ~late' PROVE ShownPromise'
  <2>1. ShownPromise
    BY <1>1, <1>3 DEF ShownInv
  <2>. QED  BY <1>1, <2>1 DEF ShownPromise
<1>. QED  BY <1>2, <1>3 DEF ShownInv

\* A timer has waited, for the address that the page is still at.
LEMMA ShownByRetry ==
    ASSUME Unmistakable, ShownInv, Retry
    PROVE  ShownInv'
<1>1. SiteTypes
  BY DEF ShownInv
<1>2. PICK c : c = Head(timers)
  OBVIOUS
<1>3. PICK waiting : waiting = Tail(timers)
  OBVIOUS
<1>4. /\ timers # <<>> /\ OnloadAttendees(c, address, waiting)
      /\ view' \in {view, "attendees"} /\ late' = (late \/ c # address)
      /\ profile' = profile /\ pages' = pages
  BY <1>2, <1>3 DEF Retry
<1>5. c \in Attending(profile) /\ waiting \in Seq(Attending(profile))
  <2>1. PICK S : S = Attending(profile)
    OBVIOUS
  <2>2. timers \in Seq(S) /\ timers # <<>>
    BY <1>1, <1>4, <2>1 DEF SiteTypes
  <2>3. Head(timers) \in S /\ Tail(timers) \in Seq(S)
    BY <2>2
  <2>. QED  BY <1>2, <1>3, <2>1, <2>3
<1>6. pages > 0 /\ address \in Address
  BY <1>1, <1>4 DEF SiteTypes
<1>7. /\ context' \in Address /\ address' \in Address /\ retries' \in Nat
      /\ timers' \in Seq(Attending(profile)) /\ walkers' = walkers
      /\ walkers = NotLoaded /\ retries' < MaxRetries => timers' # <<>>
      /\ c = address => /\ address' \in Attending(profile)
                        /\ walkers # NotLoaded => selected' = Found(IdOf(address'))
  BY <1>1, <1>4, <1>5, <1>6, OnloadIs
<1>8. SiteTypes'
  BY <1>1, <1>4, <1>6, <1>7 DEF SiteTypes
<1>9. ASSUME ~late' PROVE ShownPromise'
  <2>1. ~late /\ c = address
    BY <1>4, <1>9
  <2>2. view' = "attendees"
    <3>1. LeadsTo(profile, address).name = view
      BY <1>6, <2>1 DEF ShownInv, ShownPromise
    <3>2. view = "attendees"
      BY <1>5, <2>1, <3>1 DEF Attending
    <3>. QED  BY <1>4, <3>2
  <2>3. PICK a : a = address'
    OBVIOUS
  <2>4. LeadsTo(profile, a).name = "attendees"
    BY <1>7, <2>1, <2>3 DEF Attending
  <2>5. context' # NoUrl
    <3>1. PICK b : b = context'
      OBVIOUS
    <3>. QED  BY <1>7, <3>1, AddressIs
  <2>6. walkers # NotLoaded => selected' = Found(IdOf(address))'
    BY <1>4, <1>7, <2>1 DEF Found, IdOf
  <2>. QED  BY <1>4, <1>7, <2>2, <2>3, <2>4, <2>5, <2>6 DEF ShownPromise
<1>. QED  BY <1>8, <1>9 DEF ShownInv

\* Every step keeps the invariant of addresses.
LEMMA ShownStep ==
    ASSUME Unmistakable, ShownInv, [Next]_vars
    PROVE  ShownInv'
<1>1. ASSUME UNCHANGED siteVars PROVE ShownInv'
  <2>1. /\ profile' = profile /\ pages' = pages /\ view' = view /\ address' = address
        /\ context' = context /\ retries' = retries /\ timers' = timers /\ late' = late
        /\ walkers' = walkers /\ selected' = selected
    BY <1>1 DEF siteVars, walkerVars
  <2>2. SiteTypes'
    BY <2>1 DEF ShownInv, SiteTypes
  <2>3. ShownPromise => ShownPromise'
    BY <2>1 DEF ShownPromise, Found, IdOf
  <2>. QED  BY <2>1, <2>2, <2>3 DEF ShownInv
<1>2. ASSUME NEW e \in Entry, LoadPage(e.address, e.profile) PROVE ShownInv'
  <2>1. e.address \in Address /\ e.profile \in Profile
    BY SiteAssumption, Zenon
  <2>. QED  BY <1>2, <2>1, ShownByLoad
<1>3. ASSUME NEW a \in Address, OpenAddress(a) PROVE ShownInv'
  BY <1>3, ShownByOpen
<1>4. ASSUME NEW w \in Walker \cup {NoId}, SelectWalker(w) PROVE ShownInv'
  BY <1>4, ShownBySelect
<1>5. UNCHANGED vars => UNCHANGED siteVars
  BY DEF vars
<1>. QED  BY <1>1, <1>2, <1>3, <1>4, <1>5, ShownByWalkers, ShownByRetry DEF Next

\* The first state.
LEMMA InitShown ==
    ASSUME Init
    PROVE  ShownInv
<1>1. [contributor |-> FALSE, isDefault |-> FALSE] \in Profile
  BY DEF Profile
<1>2. SiteTypes
  BY <1>1 DEF Init, SiteTypes
<1>3. pages = 0
  BY DEF Init
<1>. QED  BY <1>2, <1>3 DEF ShownInv

\* The invariant of addresses says what was to be shown.
LEMMA ThenShown ==
    ASSUME Unmistakable, ShownInv
    PROVE  AddressShown
<1>. SUFFICES ASSUME pages > 0, timers = <<>>, ~late
              PROVE  /\ <<profile, address, view>> \in Declarations
                     /\ view = "attendees" /\ walkers # NotLoaded /\ retries < MaxRetries =>
                          selected = IF IdOf(address) \in walkers THEN IdOf(address) ELSE NoId
  BY DEF AddressShown
<1>1. profile \in Profile /\ address \in Address
  BY DEF ShownInv, SiteTypes
<1>2. ShownPromise
  BY DEF ShownInv
<1>3. view = Declared(profile, address)
  BY <1>1, <1>2, DeclaredIs DEF ShownPromise
<1>. QED  BY <1>1, <1>2, <1>3 DEF Declarations, ShownPromise, Found

\* When nothing is under way, the page shows the view declared for its address and the walker
\* named in it, wherever no address can be mistaken for another's pattern (Unmistakable).
THEOREM AddressShownHolds ==
    ASSUME Unmistakable
    PROVE  Spec => []AddressShown
<1>1. Init => ShownInv
  BY InitShown
<1>2. ShownInv /\ [Next]_vars => ShownInv'
  BY ShownStep
<1>3. ShownInv => AddressShown
  BY ThenShown
<1>. QED  BY <1>1, <1>2, <1>3, PTL DEF Spec

-----------------------------------------------------------------------------
(* Lists joined from parts.                                                *)

\* What holds of 0 and of the next number holds up to n.
LEMMA UpTo ==
    ASSUME NEW n \in Nat, NEW S, 0 \in S,
           \A i \in 0 .. n : i \in S /\ i < n => i + 1 \in S
    PROVE  \A i \in 0 .. n : i \in S
<1>. DEFINE Missing == {i \in 0 .. n : i \notin S}
<1>. SUFFICES ASSUME Missing # {} PROVE FALSE
  OBVIOUS
<1>1. PICK m \in Missing : \A i \in Missing : m <= i
  <2>1. Missing \in SUBSET Nat
    OBVIOUS
  <2>. HIDE DEF Missing
  <2>. QED  BY <2>1, Least
<1>2. m \in 0 .. n /\ m # 0 /\ m - 1 \in 0 .. n /\ m - 1 < n
  BY <1>1
<1>3. m - 1 \in S
  BY <1>1, <1>2
<1>4. (m - 1) + 1 \in S
  BY <1>2, <1>3
<1>. QED  BY <1>1, <1>2, <1>4

\* f begins with nothing and goes on with the parts in s.
Joins(f, s, X) ==
    /\ f \in [0 .. Len(s) -> Seq(X)]
    /\ f[0] = <<>>
    /\ \A i \in 1 .. Len(s) : f[i] = f[i - 1] \o s[i]

\* What follows: one list behind another.
LEMMA Behind ==
    ASSUME NEW X, NEW s \in Seq(X), NEW t \in Seq(X)
    PROVE  /\ s \o t \in Seq(X) /\ Len(s \o t) = Len(s) + Len(t)
           /\ \A i \in 1 .. Len(s) : (s \o t)[i] = s[i]
           /\ \A i \in 1 .. Len(t) : (s \o t)[Len(s) + i] = t[i]
OBVIOUS

\* Three lists, and none.
LEMMA Associates ==
    ASSUME NEW X, NEW s \in Seq(X), NEW t \in Seq(X), NEW u \in Seq(X)
    PROVE  /\ (s \o t) \o u = s \o (t \o u)
           /\ s \o <<>> = s /\ <<>> \o s = s
BY ConcatAssociative, ConcatEmptySeq

\* It does not matter how lists are bracketed.
Associative(X) == \A a, b, c \in Seq(X) : (a \o b) \o c = a \o (b \o c)

\* Any three.
LEMMA Threes == ASSUME NEW X PROVE Associative(X)
BY ConcatAssociative DEF Associative

\* There is such a function.
LEMMA Joining ==
    ASSUME NEW X, NEW s \in Seq(Seq(X))
    PROVE  \E f : Joins(f, s, X)
<1>0. PICK n : n = Len(s)
  OBVIOUS
<1>9. n \in Nat /\ \A i \in 1 .. n : s[i] \in Seq(X)
  BY <1>0
<1>. DEFINE Upto(m, f) == /\ f \in [0 .. m -> Seq(X)] /\ f[0] = <<>>
                          /\ \A i \in 1 .. m : f[i] = f[i - 1] \o s[i]
            S == {m \in 0 .. n : \E f : Upto(m, f)}
<1>1. 0 \in S
  <2>1. Upto(0, [i \in 0 .. 0 |-> <<>>])
    OBVIOUS
  <2>. HIDE DEF Upto
  <2>. QED  BY <1>9, <2>1
<1>2. ASSUME NEW m \in 0 .. n, m \in S, m < n
      PROVE  m + 1 \in S
  <2>1. PICK f : Upto(m, f)
    BY <1>2
  <2>2. m + 1 \in 1 .. n /\ f[m] \in Seq(X) /\ s[m + 1] \in Seq(X)
    BY <1>9, <1>2, <2>1
  <2>3. PICK last : last = f[m] \o s[m + 1]
    OBVIOUS
  <2>4. last \in Seq(X)
    BY <2>2, <2>3
  <2>. DEFINE g == [i \in 0 .. m + 1 |-> IF i = m + 1 THEN last ELSE f[i]]
  <2>5. g \in [0 .. m + 1 -> Seq(X)] /\ g[m + 1] = last /\ \A i \in 0 .. m : g[i] = f[i]
    BY <2>1, <2>4
  <2>. HIDE DEF g
  <2>6. ASSUME NEW i \in 1 .. m + 1
        PROVE  g[i] = g[i - 1] \o s[i]
    <3>0. m \in Nat /\ i \in Nat /\ i - 1 \in 0 .. m /\ (i = m + 1 => i - 1 = m) /\ (i # m + 1 => i \in 1 .. m /\ i \in 0 .. m)
      BY <1>9
    <3>1. CASE i = m + 1
      BY <2>3, <2>5, <3>0, <3>1
    <3>2. CASE i # m + 1
      <4>1. f[i] = f[i - 1] \o s[i]
        BY <2>1, <3>0, <3>2
      <4>. QED  BY <2>5, <3>0, <3>2, <4>1
    <3>. QED  BY <3>1, <3>2
  <2>7. Upto(m + 1, g)
    <3>1. 0 \in 0 .. m
      BY <1>9
    <3>. QED  BY <2>1, <2>5, <2>6, <3>1
  <2>. HIDE DEF Upto
  <2>. QED  BY <1>9, <1>2, <2>7
<1>3. n \in S
  <2>. HIDE DEF S
  <2>1. \A i \in 0 .. n : i \in S /\ i < n => i + 1 \in S
    BY <1>2
  <2>2. \A i \in 0 .. n : i \in S
    BY <1>9, <1>1, <2>1, UpTo
  <2>. QED  BY <1>9, <2>2
<1>. QED  BY <1>0, <1>3 DEF Joins

\* Which is what the library flattens a list with.
LEMMA FlattenJoins ==
    ASSUME NEW X, NEW s \in Seq(Seq(X))
    PROVE  \E f : Joins(f, s, X) /\ FlattenSeq(s) = f[Len(s)]
<1>1. PICK n : n = Len(s)
  OBVIOUS
<1>2. n \in Nat /\ \A i \in 1 .. n : s[i] \in Seq(X)
  BY <1>1
<1>3. CASE n = 0
  <2>1. PICK f : Joins(f, s, X)
    BY Joining
  <2>2. s = <<>>
    BY <1>1, <1>3, EmptySeq
  <2>3. FlattenSeq(s) = s
    BY <1>1, <1>3 DEF FlattenSeq
  <2>. QED  BY <1>1, <1>3, <2>1, <2>2, <2>3 DEF Joins
<1>4. CASE n # 0
  <2>. DEFINE Flat(h) == h = [i \in 1 .. n |-> IF i = 1 THEN s[i] ELSE h[i - 1] \o s[i]]
              h == CHOOSE h : Flat(h)
  <2>1. FlattenSeq(s) = h[n]
    BY <1>1, <1>4 DEF FlattenSeq
  <2>2. Flat(h)
    <3>1. PICK f : Joins(f, s, X)
      BY Joining
    <3>. DEFINE g == [i \in 1 .. n |-> f[i]]
    <3>2. \A i \in 1 .. n : f[i] = IF i = 1 THEN s[i] ELSE g[i - 1] \o s[i]
      <4>1. TAKE i \in 1 .. n
      <4>2. f[i] = f[i - 1] \o s[i] /\ s[i] \in Seq(X)
        BY <1>1, <1>2, <3>1 DEF Joins
      <4>3. CASE i = 1
        <5>1. f[i - 1] = <<>>
          BY <3>1, <4>3 DEF Joins
        <5>2. <<>> \o s[i] = s[i]
          BY <4>2, Associates
        <5>. QED  BY <4>2, <4>3, <5>1, <5>2
      <4>4. CASE i # 1
        <5>1. i - 1 \in 1 .. n
          BY <1>2, <4>4
        <5>. QED  BY <4>2, <4>4, <5>1
      <4>. QED  BY <4>3, <4>4
    <3>3. Flat(g)
      BY <3>2
    <3>. HIDE DEF Flat, g
    <3>. QED  BY <3>3
  <2>. HIDE DEF h
  <2>3. \A i \in 1 .. n : h[i] = IF i = 1 THEN s[i] ELSE h[i - 1] \o s[i]
    BY <2>2
  <2>. HIDE DEF Flat
  <2>. DEFINE f == [i \in 0 .. n |-> IF i = 0 THEN <<>> ELSE h[i]]
              S == {i \in 0 .. n : f[i] \in Seq(X)}
  <2>10. f[0] = <<>> /\ \A i \in 1 .. n : f[i] = h[i]
    BY <1>2
  <2>4. ASSUME NEW i \in 1 .. n PROVE f[i] = f[i - 1] \o s[i]
    <3>0. s[i] \in Seq(X) /\ 0 \in 0 .. n /\ i - 1 \in 0 .. n
      BY <1>2
    <3>2. CASE i = 1
      <4>1. f[i] = s[i] /\ f[i - 1] = <<>>
        BY <1>2, <2>3, <2>10, <3>2
      <4>2. <<>> \o s[i] = s[i]
        BY <3>0, Associates
      <4>. QED  BY <4>1, <4>2
    <3>3. CASE i # 1
      <4>1. i - 1 \in 1 .. n
        BY <1>2, <3>3
      <4>. QED  BY <2>3, <2>10, <3>3, <4>1
    <3>. QED  BY <3>2, <3>3
  <2>5. f[n] = h[n]
    BY <1>2, <1>4
  <2>. HIDE DEF f
  <2>6. 0 \in S
    <3>1. 0 \in 0 .. n /\ f[0] \in Seq(X)
      BY <1>2, <2>10, EmptySeq
    <3>. QED  BY <3>1
  <2>7. ASSUME NEW i \in 0 .. n, i \in S, i < n PROVE i + 1 \in S
    <3>0. PICK k : k = i + 1
      OBVIOUS
    <3>1. k \in 1 .. n /\ k \in 0 .. n /\ k - 1 = i
      BY <1>2, <2>7, <3>0
    <3>2. f[k] = f[i] \o s[k] /\ s[k] \in Seq(X) /\ f[i] \in Seq(X)
      BY <1>2, <2>4, <2>7, <3>1
    <3>3. f[k] \in Seq(X)
      BY <3>2, Behind
    <3>. QED  BY <3>0, <3>1, <3>3
  <2>8. \A i \in 0 .. n : f[i] \in Seq(X)
    <3>. HIDE DEF S
    <3>1. \A i \in 0 .. n : i \in S
      BY <1>2, <2>6, <2>7, UpTo
    <3>. QED  BY <3>1 DEF S
  <2>9. f \in [0 .. n -> Seq(X)]
    BY <2>8 DEF f
  <2>. QED  BY <1>1, <2>1, <2>4, <2>5, <2>9, <2>10 DEF Joins
<1>. QED  BY <1>3, <1>4

\* The first n of t stand in s behind position p.
Common(s, p, t, n) ==
    /\ p + n <= Len(s) /\ n <= Len(t)
    /\ \A m \in 1 .. n : s[p + m] = t[m]

\* What s joins up to there is what t joins up to n, behind what s joins up to p.
Shift(f, p, g, n) == f[p + n] = f[p] \o g[n]

\* Two lists that have a piece in common.
LEMMA JoinShift ==
    ASSUME NEW X, NEW s \in Seq(Seq(X)), NEW t \in Seq(Seq(X)), NEW f, NEW g,
           Joins(f, s, X), Joins(g, t, X),
           NEW p \in Nat, NEW n \in Nat, Common(s, p, t, n)
    PROVE  Shift(f, p, g, n)
<1>. USE DEF Common
<1>. DEFINE S == {m \in 0 .. n : f[p + m] = f[p] \o g[m]}
<1>0. Len(s) \in Nat /\ Len(t) \in Nat /\ p \in 0 .. Len(s) /\ \A m \in 0 .. n : m \in 0 .. Len(t)
  <2>1. Len(s) \in Nat /\ Len(t) \in Nat
    BY LenProperties
  <2>. QED  BY <2>1
<1>1. f[p] \in Seq(X) /\ \A m \in 0 .. n : g[m] \in Seq(X)
  BY <1>0 DEF Joins
<1>6. \A a, b, c \in Seq(X) : (a \o b) \o c = a \o (b \o c)
  <2>1. Associative(X)
    BY Threes
  <2>. QED  BY <2>1, Zenon DEF Associative
<1>2. 0 \in S
  <2>1. g[0] = <<>> /\ f[p] \o <<>> = f[p] /\ p + 0 = p
    BY <1>1, Associates DEF Joins
  <2>2. 0 \in 0 .. n
    OBVIOUS
  <2>3. f[p + 0] = f[p] \o g[0]
    BY <2>1, Zenon
  <2>. QED  BY <2>2, <2>3
<1>3. ASSUME NEW m \in 0 .. n, m \in S, m < n PROVE m + 1 \in S
  <2>1. m + 1 \in 1 .. n /\ m + 1 \in 1 .. Len(t) /\ p + (m + 1) \in 1 .. Len(s)
    BY <1>3
  <2>2. g[m + 1] = g[m] \o t[m + 1]
    <3>1. PICK k : k = m + 1
      OBVIOUS
    <3>2. k \in 1 .. Len(t) /\ k - 1 = m
      BY <2>1, <3>1
    <3>3. g[k] = g[k - 1] \o t[k]
      BY <3>2 DEF Joins
    <3>. QED  BY <3>1, <3>2, <3>3
  <2>3. f[p + (m + 1)] = f[p + m] \o s[p + (m + 1)]
    <3>1. PICK k : k = p + (m + 1)
      OBVIOUS
    <3>2. k \in 1 .. Len(s) /\ k - 1 = p + m
      BY <2>1, <3>1
    <3>3. f[k] = f[k - 1] \o s[k]
      BY <3>2 DEF Joins
    <3>. QED  BY <3>1, <3>2, <3>3
  <2>4. s[p + (m + 1)] = t[m + 1] /\ t[m + 1] \in Seq(X)
    BY <2>1
  <2>5. f[p + m] = f[p] \o g[m]
    BY <1>3
  <2>6. (f[p] \o g[m]) \o t[m + 1] = f[p] \o (g[m] \o t[m + 1])
    BY <1>1, <1>6, <2>4, Zenon
  <2>7. m + 1 \in 0 .. n
    BY <2>1
  <2>. QED  BY <2>2, <2>3, <2>4, <2>5, <2>6, <2>7
<1>4. \A m \in 0 .. n : m \in S
  <2>1. \A m \in 0 .. n : m \in S /\ m < n => m + 1 \in S
    BY <1>3
  <2>. HIDE DEF S
  <2>. QED  BY <1>2, <2>1, UpTo, Zenon
<1>5. n \in S
  <2>. HIDE DEF S
  <2>1. n \in 0 .. n
    OBVIOUS
  <2>. QED  BY <1>4, <2>1, Zenon
<1>. QED  BY <1>5, Zenon DEF Shift

\* Empty parts add nothing.
LEMMA JoinNothing ==
    ASSUME NEW X, NEW s \in Seq(Seq(X)), NEW f, Joins(f, s, X),
           NEW p \in Nat, NEW q \in Nat, p <= q, q <= Len(s),
           \A m \in p + 1 .. q : s[m] = <<>>
    PROVE  f[q] = f[p]
<1>. DEFINE S == {m \in 0 .. q - p : f[p + m] = f[p]}
<1>1. 0 \in S
  OBVIOUS
<1>2. ASSUME NEW m \in 0 .. q - p, m \in S, m < q - p PROVE m + 1 \in S
  <2>1. PICK k : k = p + (m + 1)
    OBVIOUS
  <2>2. k \in 1 .. Len(s) /\ k \in p + 1 .. q /\ k - 1 = p + m /\ m + 1 \in 0 .. q - p /\ p \in 0 .. Len(s)
    BY <1>2, <2>1
  <2>3. f[k] = f[k - 1] \o s[k] /\ f[p] \in Seq(X)
    BY <2>2 DEF Joins
  <2>4. f[k] = f[p]
    BY <1>2, <2>2, <2>3, Associates
  <2>. QED  BY <2>1, <2>2, <2>4
<1>3. \A m \in 0 .. q - p : m \in S
  <2>. HIDE DEF S
  <2>0. PICK d : d = q - p
    OBVIOUS
  <2>1. d \in Nat
    BY <2>0
  <2>2. \A m \in 0 .. d : m \in S /\ m < d => m + 1 \in S
    BY <1>2, <2>0
  <2>3. \A m \in 0 .. d : m \in S
    <3>. HIDE DEF S
    <3>. QED  BY <1>1, <2>1, <2>2, UpTo, Zenon
  <2>. QED  BY <2>0, <2>3
<1>4. q - p \in S
  <2>. HIDE DEF S
  <2>1. q - p \in 0 .. q - p
    OBVIOUS
  <2>. QED  BY <1>3, <2>1, Zenon
<1>. QED
  <2>1. f[p + (q - p)] = f[p]
    BY <1>4, Zenon
  <2>2. p + (q - p) = q
    OBVIOUS
  <2>. QED  BY <2>1, <2>2, Zenon

\* It is one function only.
LEMMA FlattenIs ==
    ASSUME NEW X, NEW s \in Seq(Seq(X)), NEW f, Joins(f, s, X)
    PROVE  FlattenSeq(s) = f[Len(s)] /\ f[Len(s)] \in Seq(X)
<1>1. PICK n \in Nat : n = Len(s)
  BY LenProperties
<1>2. PICK g : Joins(g, s, X) /\ FlattenSeq(s) = g[n]
  BY <1>1, FlattenJoins
<1>3. Shift(f, 0, g, n)
  <2>1. Common(s, 0, s, n)
    BY <1>1 DEF Common
  <2>. QED  BY <1>2, <2>1, JoinShift
<1>4. 0 + n = n /\ n \in 0 .. Len(s)
  BY <1>1
<1>5. f[0] = <<>> /\ g[n] \in Seq(X) /\ f[n] \in Seq(X)
  BY <1>2, <1>4 DEF Joins
<1>6. <<>> \o g[n] = g[n]
  BY <1>5, Associates
<1>. QED  BY <1>1, <1>2, <1>3, <1>4, <1>5, <1>6 DEF Shift

-----------------------------------------------------------------------------
(* The points of a text.                                                   *)

PointsOf(s) == [i \in 1 .. Len(s) |-> IF IsPoint(s[i]) THEN <<<<s[i]>>>> ELSE <<>>]

\* What is typed of them.
LEMMA PointsTypes ==
    ASSUME NEW X, NEW s \in Seq(X)
    PROVE  PointsOf(s) \in Seq(Seq(Seq(X))) /\ Len(PointsOf(s)) = Len(s)
<1>1. PICK n \in Nat : n = Len(s)
  BY LenProperties
<1>2. \A i \in 1 .. n : s[i] \in X
  BY <1>1
<1>3. \A i \in 1 .. n : (IF IsPoint(s[i]) THEN <<<<s[i]>>>> ELSE <<>>) \in Seq(Seq(X))
  <2>1. TAKE i \in 1 .. n
  <2>2. <<s[i]>> \in Seq(X)
    BY <1>2
  <2>3. <<<<s[i]>>>> \in Seq(Seq(X)) /\ <<>> \in Seq(Seq(X))
    BY <2>2
  <2>. QED  BY <2>3
<1>4. PointsOf(s) \in [1 .. n -> Seq(Seq(X))]
  BY <1>1, <1>3 DEF PointsOf
<1>5. PICK P : P = PointsOf(s)
  OBVIOUS
<1>6. P \in [1 .. n -> Seq(Seq(X))]
  BY <1>4, <1>5
<1>7. P \in Seq(Seq(Seq(X))) /\ Len(P) = n
  BY <1>6
<1>. QED  BY <1>1, <1>5, <1>7

Points(s) == FlattenSeq(PointsOf(s))

\* They are the points of its parts.
LEMMA PointsBehind ==
    ASSUME NEW X, NEW s \in Seq(X), NEW t \in Seq(X)
    PROVE  Points(s \o t) = Points(s) \o Points(t)
<1>1. PICK u : u = s \o t
  OBVIOUS
<1>2. PICK n \in Nat : n = Len(s)
  BY LenProperties
<1>3. PICK m \in Nat : m = Len(t)
  BY LenProperties
<1>4. /\ u \in Seq(X) /\ Len(u) = n + m
      /\ \A i \in 1 .. n : u[i] = s[i]
      /\ \A i \in 1 .. m : u[n + i] = t[i]
  BY <1>1, <1>2, <1>3, Behind
<1>5. PICK P : P = PointsOf(u)
  OBVIOUS
<1>6. PICK Q : Q = PointsOf(s)
  OBVIOUS
<1>7. PICK R : R = PointsOf(t)
  OBVIOUS
<1>8. /\ P \in Seq(Seq(Seq(X))) /\ Len(P) = n + m
      /\ Q \in Seq(Seq(Seq(X))) /\ Len(Q) = n
      /\ R \in Seq(Seq(Seq(X))) /\ Len(R) = m
  BY <1>2, <1>3, <1>4, <1>5, <1>6, <1>7, PointsTypes
<1>9. \A i \in 1 .. n : P[0 + i] = Q[i]
  <2>1. TAKE i \in 1 .. n
  <2>2. 0 + i = i /\ i \in 1 .. n + m
    OBVIOUS
  <2>. QED  BY <1>2, <1>4, <1>5, <1>6, <2>2 DEF PointsOf
<1>10. \A i \in 1 .. m : P[n + i] = R[i]
  <2>1. TAKE i \in 1 .. m
  <2>2. n + i \in 1 .. n + m
    OBVIOUS
  <2>. QED  BY <1>3, <1>4, <1>5, <1>7, <2>2 DEF PointsOf
<1>11. PICK f : Joins(f, P, Seq(X))
  BY <1>8, Joining
<1>12. PICK g : Joins(g, Q, Seq(X))
  BY <1>8, Joining
<1>13. PICK h : Joins(h, R, Seq(X))
  BY <1>8, Joining
<1>14. Shift(f, 0, g, n)
  <2>1. Common(P, 0, Q, n)
    BY <1>8, <1>9 DEF Common
  <2>. QED  BY <1>8, <1>11, <1>12, <2>1, JoinShift
<1>15. Shift(f, n, h, m)
  <2>1. Common(P, n, R, m)
    BY <1>8, <1>10 DEF Common
  <2>. QED  BY <1>8, <1>11, <1>13, <2>1, JoinShift
<1>16. f[0] = <<>> /\ 0 + n = n
  BY <1>11 DEF Joins
<1>17. /\ Points(u) = f[n + m] /\ Points(s) = g[n] /\ Points(t) = h[m]
       /\ g[n] \in Seq(Seq(X))
  BY <1>5, <1>6, <1>7, <1>8, <1>11, <1>12, <1>13, FlattenIs DEF Points
<1>18. <<>> \o g[n] = g[n]
  BY <1>17, Associates
<1>. QED  BY <1>1, <1>14, <1>15, <1>16, <1>17, <1>18 DEF Shift
-----------------------------------------------------------------------------
(* What is split at the separators.                                        *)

\* Between two points, and next to each, there are separators.
Tidy(s) ==
    \A i \in 1 .. Len(s) - 1 :
        /\ IsPoint(s[i]) => s[i + 1] = ",0.0"
        /\ IsPoint(s[i + 1]) => s[i] = ",0.0"

\* Each number has one of a set that ends before it, the last, if 0 is in the set.
LEMMA LastBefore ==
    ASSUME NEW S \in SUBSET Nat, 0 \in S, NEW j \in Nat \ {0}
    PROVE  \E i \in S : i < j /\ \A k \in S : k <= i \/ k >= j
<1>. DEFINE D == {d \in 1 .. j : j - d \in S}
<1>1. D \in SUBSET Nat /\ j \in D
  OBVIOUS
<1>2. PICK d \in D : \A e \in D : d <= e
  <2>. HIDE DEF D
  <2>. QED  BY <1>1, Least
<1>3. PICK i : i = j - d
  OBVIOUS
<1>4. i \in S /\ i < j /\ i \in Nat
  BY <1>2, <1>3
<1>5. ASSUME NEW k \in S, k < j PROVE k <= i
  <2>1. k \in Nat /\ j - k \in 1 .. j /\ j - (j - k) = k
    BY <1>5
  <2>2. j - k \in D
    BY <1>5, <2>1
  <2>. QED  BY <1>2, <1>3, <2>1, <2>2
<1>. QED  BY <1>4, <1>5

\* The piece between two positions.
LEMMA Piece ==
    ASSUME NEW X, NEW s \in Seq(X), NEW a \in Nat, NEW b \in Nat, 0 < a, a <= b + 1, b <= Len(s)
    PROVE  /\ SubSeq(s, a, b) \in Seq(X) /\ Len(SubSeq(s, a, b)) = b + 1 - a
           /\ \A i \in 1 .. b + 1 - a : SubSeq(s, a, b)[i] = s[a - 1 + i]
<1>1. \A i \in a .. b : s[i] \in X
  OBVIOUS
<1>2. a \in Int /\ b \in Int /\ b - a + 1 = b + 1 - a /\ (a <= b \/ b + 1 - a = 0)
  OBVIOUS
<1>3. /\ SubSeq(s, a, b) \in Seq(X)
      /\ Len(SubSeq(s, a, b)) = IF a <= b THEN b - a + 1 ELSE 0
      /\ \A i \in 1 .. b - a + 1 : SubSeq(s, a, b)[i] = s[a + i - 1]
  BY <1>1, <1>2, SubSeqProperties
<1>4. \A i \in 1 .. b + 1 - a : a + i - 1 = a - 1 + i
  OBVIOUS
<1>. QED  BY <1>2, <1>3, <1>4

\* The piece of one.
LEMMA OnePiece ==
    ASSUME NEW X, NEW s \in Seq(X), NEW j \in 1 .. Len(s)
    PROVE  SubSeq(s, j, j) = <<s[j]>>
<1>1. PICK q : q = SubSeq(s, j, j)
  OBVIOUS
<1>2. j \in Nat /\ 0 < j /\ j <= j + 1 /\ j <= Len(s) /\ j + 1 - j = 1 /\ j - 1 + 1 = j
  OBVIOUS
<1>3. q \in Seq(X) /\ Len(q) = 1 /\ q[1] = s[j]
  <2>1. /\ q \in Seq(X) /\ Len(q) = j + 1 - j
        /\ \A i \in 1 .. j + 1 - j : q[i] = s[j - 1 + i]
    BY <1>1, <1>2, Piece
  <2>2. \A i \in 1 .. 1 : q[i] = s[j - 1 + i]
    BY <1>2, <2>1
  <2>3. PICK k : k = j - 1 + 1
    OBVIOUS
  <2>4. q[1] = s[k]
    BY <2>2, <2>3
  <2>5. k = j
    BY <1>2, <2>3
  <2>6. Len(q) = 1
    BY <1>2, <2>1
  <2>. QED  BY <2>1, <2>4, <2>5, <2>6, Zenon
<1>4. PICK x : x = s[j]
  OBVIOUS
<1>5. x \in X /\ <<x>> \in Seq(X) /\ Len(<<x>>) = 1 /\ <<x>>[1] = x
  BY <1>4
<1>6. \A i \in 1 .. Len(q) : q[i] = <<x>>[i]
  BY <1>3, <1>4, <1>5
<1>7. q = <<x>>
  BY <1>3, <1>5, <1>6, SeqEqual
<1>. QED  BY <1>1, <1>4, <1>7

\* Where a tidy text is split, and what comes of it.
LEMMA SplitIs ==
    ASSUME NEW X, NEW s \in Seq(X), Tidy(s)
    PROVE  Split(s) = Points(s)
<1>1. PICK n \in Nat : n = Len(s)
  BY LenProperties
<1>2. \A i \in 1 .. n : s[i] \in X
  BY <1>1
<1>. DEFINE Ends == {0, n + 1} \cup {i \in 1 .. n : s[i] = ",0.0"}
            From(j) == CHOOSE i \in Ends : i < j /\ \A k \in Ends : k <= i \/ k >= j
            Part(j) == IF j \in Ends /\ \E i \in From(j) + 1 .. j - 1 : IsPoint(s[i])
                         THEN <<SubSeq(s, From(j) + 1, j - 1)>> ELSE <<>>
            P == [j \in 1 .. n + 1 |-> Part(j)]
<1>3. Split(s) = FlattenSeq(P)
  <2>1. DOMAIN s = 1 .. n
    BY <1>1
  <2>. QED  BY <1>1, <2>1 DEF Split
<1>20. /\ Ends \in SUBSET Nat /\ 0 \in Ends /\ n + 1 \in Ends
       /\ \A k \in Ends : k \in 0 .. n + 1
       /\ \A k \in 1 .. n : k \in Ends <=> s[k] = ",0.0"
  <2>. HIDE DEF P, Part, From
  <2>1. n \in Nat
    BY <1>1
  <2>2. \A k \in 1 .. n : k \in Nat /\ k # 0 /\ k # n + 1 /\ k \in 0 .. n + 1
    BY <2>1
  <2>3. 0 \in Nat /\ n + 1 \in Nat /\ 0 \in 0 .. n + 1 /\ n + 1 \in 0 .. n + 1
    BY <2>1
  <2>. QED  BY <2>2, <2>3, Zenon
<1>21. \A i \in 1 .. n : IsPoint(s[i]) => i + 1 \in Ends
  <2>. HIDE DEF P, Part, From, Ends
  <2>1. TAKE i \in 1 .. n
  <2>2. HAVE IsPoint(s[i])
  <2>3. CASE i = n
    BY <1>20, <2>3
  <2>4. CASE i # n
    <3>1. i \in 1 .. Len(s) - 1 /\ i + 1 \in 1 .. n
      BY <1>1, <2>4
    <3>2. s[i + 1] = ",0.0"
      BY <2>2, <3>1 DEF Tidy
    <3>. QED  BY <1>20, <3>1, <3>2
  <2>. QED  BY <2>3, <2>4
<1>22. \A i \in 1 .. n : IsPoint(s[i]) => i - 1 \in Ends
  <2>. HIDE DEF P, Part, From, Ends
  <2>1. TAKE i \in 1 .. n
  <2>2. HAVE IsPoint(s[i])
  <2>3. CASE i = 1
    <3>1. i - 1 = 0
      BY <2>3
    <3>. QED  BY <1>20, <3>1
  <2>4. CASE i # 1
    <3>0. PICK k : k = i - 1
      OBVIOUS
    <3>1. k \in 1 .. Len(s) - 1 /\ k + 1 = i /\ k \in 1 .. n
      BY <1>1, <2>4, <3>0
    <3>2. s[k] = ",0.0"
      BY <2>2, <3>1 DEF Tidy
    <3>. QED  BY <1>20, <3>0, <3>1, <3>2
  <2>. QED  BY <2>3, <2>4
<1>23. \A i \in 1 .. n : IsPoint(s[i]) => i \notin Ends
  <2>. HIDE DEF P, Part, From, Ends
  <2>. QED  BY <1>20 DEF IsPoint
<1>. HIDE DEF Ends
<1>4. ASSUME NEW j \in 1 .. n + 1
      PROVE  /\ From(j) \in Ends /\ From(j) \in 0 .. n /\ From(j) < j
             /\ \A k \in Ends : k <= From(j) \/ k >= j
  <2>2. \E i \in Ends : i < j /\ \A k \in Ends : k <= i \/ k >= j
    <3>1. j \in Nat \ {0}
      BY <1>1
    <3>. QED  BY <1>20, <3>1, LastBefore
  <2>3. /\ From(j) \in Ends /\ From(j) < j
        /\ \A k \in Ends : k <= From(j) \/ k >= j
    <3>. HIDE DEF P, Part
    <3>. QED  BY <2>2
  <2>4. PICK i : i = From(j)
    OBVIOUS
  <2>. HIDE DEF P, Part, From
  <2>5. i \in 0 .. n + 1 /\ i < j /\ n \in Nat /\ j \in 1 .. n + 1
    BY <1>1, <1>20, <2>3, <2>4
  <2>6. i \in 0 .. n
    BY <2>5
  <2>. QED  BY <2>3, <2>4, <2>6
<1>. HIDE DEF From
<1>5. P[1] = <<>>
  <2>1. 1 \in 1 .. n + 1
    OBVIOUS
  <2>2. PICK i : i = From(1)
    OBVIOUS
  <2>3. i = 0
    <3>. HIDE DEF P, Part
    <3>. QED  BY <1>4, <2>1, <2>2
  <2>4. Part(1) = <<>>
    BY <2>2, <2>3
  <2>. QED  BY <2>1, <2>4
<1>6. ASSUME NEW j \in 1 .. n
      PROVE  P[1 + j] = IF IsPoint(s[j]) THEN <<<<s[j]>>>> ELSE <<>>
  <2>0. 1 + j \in 1 .. n + 1 /\ (1 + j) - 1 = j
    OBVIOUS
  <2>1. P[1 + j] = Part(1 + j)
    BY <2>0
  <2>. HIDE DEF P
  <2>5. PICK i \in 0 .. n : i = From(1 + j)
    BY <1>4, <2>0
  <2>7. i \in Nat /\ j \in Nat
    BY <1>1, <2>5
  <2>6. i \in Ends /\ i < 1 + j /\ \A k \in Ends : k <= i \/ k >= 1 + j
    BY <1>4, <2>0, <2>5
  <2>2. CASE IsPoint(s[j])
    <3>1. 1 + j \in Ends /\ j \notin Ends /\ j - 1 \in Ends
      <4>1. j + 1 = 1 + j
        OBVIOUS
      <4>. QED  BY <1>21, <1>22, <1>23, <2>2, <4>1
    <3>4. i = j - 1
      BY <2>6, <2>7, <3>1
    <3>5. SubSeq(s, j, j) = <<s[j]>>
      BY <1>1, OnePiece
    <3>6. i + 1 = j /\ j \in j .. j
      BY <2>7, <3>4
    <3>7. Part(1 + j) = <<<<s[j]>>>>
      BY <2>0, <2>2, <2>5, <3>1, <3>5, <3>6
    <3>. QED  BY <2>1, <2>2, <3>7
  <2>3. CASE ~IsPoint(s[j])
    <3>1. ASSUME NEW m \in i + 1 .. j, IsPoint(s[m]) PROVE FALSE
      <4>2. m \in 1 .. n /\ m # j /\ m < j
        BY <2>3, <3>1
      <4>5. m + 1 \in Ends
        BY <1>21, <3>1, <4>2
      <4>. QED  BY <2>6, <2>7, <4>2, <4>5
    <3>2. Part(1 + j) = <<>>
      BY <2>0, <2>5, <3>1
    <3>. QED  BY <2>1, <2>3, <3>2
  <2>. QED  BY <2>2, <2>3
<1>7. PICK Q : Q = PointsOf(s)
  OBVIOUS
<1>8. Q \in Seq(Seq(Seq(X))) /\ Len(Q) = n
  BY <1>1, <1>7, PointsTypes
<1>9. \A j \in 1 .. n : P[1 + j] = Q[j]
  <2>. HIDE DEF P
  <2>. QED  BY <1>1, <1>6, <1>7 DEF PointsOf
<1>10. \A j \in 1 .. n : Q[j] \in Seq(Seq(X))
  BY <1>8
<1>11. P \in Seq(Seq(Seq(X))) /\ Len(P) = n + 1
  <2>1. ASSUME NEW j \in 1 .. n + 1 PROVE Part(j) \in Seq(Seq(X))
    <3>0. Part(j) = P[j]
      BY <2>1
    <3>. HIDE DEF P, Part
    <3>1. CASE j = 1
      BY <1>5, <3>0, <3>1, EmptySeq
    <3>2. CASE j # 1
      <4>1. PICK k : k = j - 1
        OBVIOUS
      <4>2. k \in 1 .. n /\ 1 + k = j
        BY <3>2, <4>1
      <4>. QED  BY <1>9, <1>10, <3>0, <4>2
    <3>. QED  BY <3>1, <3>2
  <2>2. P \in [1 .. n + 1 -> Seq(Seq(X))]
    <3>. HIDE DEF Part
    <3>. QED  BY <2>1
  <2>. HIDE DEF P
  <2>. QED  BY <2>2
<1>. HIDE DEF P
<1>12. PICK f : Joins(f, P, Seq(X))
  BY <1>11, Joining
<1>13. PICK g : Joins(g, Q, Seq(X))
  BY <1>8, Joining
<1>14. Shift(f, 1, g, n)
  <2>1. Common(P, 1, Q, n)
    BY <1>8, <1>9, <1>11 DEF Common
  <2>. QED  BY <1>8, <1>11, <1>12, <1>13, <2>1, JoinShift
<1>15. f[1] = <<>>
  <2>1. PICK k : k = 1
    OBVIOUS
  <2>2. k \in 1 .. Len(P) /\ k - 1 = 0
    BY <1>11, <2>1
  <2>3. f[k] = f[k - 1] \o P[k] /\ f[0] = <<>>
    BY <1>12, <2>2 DEF Joins
  <2>4. <<>> \o <<>> = <<>>
    OBVIOUS
  <2>. QED  BY <1>5, <2>1, <2>2, <2>3, <2>4
<1>16. FlattenSeq(P) = f[1 + n] /\ FlattenSeq(Q) = g[n] /\ g[n] \in Seq(Seq(X))
  <2>1. 1 + n = n + 1
    OBVIOUS
  <2>. QED  BY <1>8, <1>11, <1>12, <1>13, <2>1, FlattenIs
<1>17. <<>> \o g[n] = g[n]
  BY <1>16, Associates
<1>. QED  BY <1>3, <1>7, <1>14, <1>15, <1>16, <1>17 DEF Shift, Points
-----------------------------------------------------------------------------
(* The lines of a document.                                                *)

\* A text of points with a separator behind each.
Closed(s) ==
    \A i \in 1 .. Len(s) : ~IsTag(s[i]) /\ (IsPoint(s[i]) => i + 1 \in 1 .. Len(s) /\ s[i + 1] = ",0.0")

\* It is tidy.
LEMMA ClosedTidy ==
    ASSUME NEW X, NEW s \in Seq(X), Closed(s)
    PROVE  Tidy(s)
<1>1. PICK n \in Nat : n = Len(s)
  BY LenProperties
<1>. SUFFICES ASSUME NEW i \in 1 .. n - 1
              PROVE  /\ IsPoint(s[i]) => s[i + 1] = ",0.0"
                     /\ IsPoint(s[i + 1]) => s[i] = ",0.0"
  BY <1>1 DEF Tidy
<1>2. i \in 1 .. Len(s)
  BY <1>1
<1>3. ~IsTag(s[i]) /\ (IsPoint(s[i]) => s[i + 1] = ",0.0")
  BY <1>2 DEF Closed
<1>4. ~IsPoint(",0.0")
  BY DEF IsPoint
<1>. QED  BY <1>3, <1>4 DEF IsPoint

\* Two such texts make one.
LEMMA ClosedBehind ==
    ASSUME NEW X, NEW s \in Seq(X), NEW t \in Seq(X), Closed(s), Closed(t)
    PROVE  Closed(s \o t)
<1>1. PICK u : u = s \o t
  OBVIOUS
<1>2. PICK n \in Nat : n = Len(s)
  BY LenProperties
<1>3. PICK m \in Nat : m = Len(t)
  BY LenProperties
<1>4. /\ u \in Seq(X) /\ Len(u) = n + m
      /\ \A i \in 1 .. n : u[i] = s[i]
      /\ \A i \in 1 .. m : u[n + i] = t[i]
  BY <1>1, <1>2, <1>3, Behind
<1>5. ASSUME NEW i \in 1 .. n + m
      PROVE  ~IsTag(u[i]) /\ (IsPoint(u[i]) => i + 1 \in 1 .. n + m /\ u[i + 1] = ",0.0")
  <2>1. CASE i \in 1 .. n
    <3>1. u[i] = s[i] /\ ~IsTag(s[i]) /\ (IsPoint(s[i]) => i + 1 \in 1 .. n /\ s[i + 1] = ",0.0")
      BY <1>2, <1>4, <2>1 DEF Closed
    <3>2. i + 1 \in 1 .. n => i + 1 \in 1 .. n + m
      BY <1>2, <1>3
    <3>. QED  BY <1>4, <3>1, <3>2
  <2>2. CASE i \notin 1 .. n
    <3>0. PICK k : k = i - n
      OBVIOUS
    <3>1. k \in 1 .. m /\ n + k = i
      BY <1>2, <1>3, <2>2, <3>0
    <3>2. u[i] = t[k] /\ ~IsTag(t[k]) /\ (IsPoint(t[k]) => k + 1 \in 1 .. m /\ t[k + 1] = ",0.0")
      BY <1>3, <1>4, <3>1 DEF Closed
    <3>3. n + (k + 1) = i + 1 /\ (k + 1 \in 1 .. m => i + 1 \in 1 .. n + m)
      BY <1>2, <1>3, <3>1
    <3>4. k + 1 \in 1 .. m => u[i + 1] = t[k + 1]
      BY <1>4, <3>3
    <3>. QED  BY <3>2, <3>3, <3>4
  <2>. QED  BY <2>1, <2>2
<1>. QED  BY <1>1, <1>4, <1>5 DEF Closed

\* What is said of the line that begins at position i.
LineAt(doc, i, b, e, l) ==
    /\ b \in i + 1 .. Len(doc) /\ e \in i + 1 .. Len(doc) /\ l \in i + 1 .. Len(doc)
    /\ b < e /\ e < l
    /\ doc[b] = "<coordinates>" /\ doc[e] = "</coordinates>" /\ doc[l] = "</LineString>"
    /\ \A k \in i + 1 .. l - 1 : k \notin {b, e} => ~IsTag(doc[k])
    /\ \A k \in b + 1 .. e - 1 : IsPoint(doc[k]) => doc[k + 1] = ",0.0"
    /\ ~Within(doc, "<coordinates>", "</coordinates>", i)

\* In order, and in the document.
LEMMA LineOrder ==
    ASSUME NEW X, NEW doc \in Seq(X), NEW i \in 1 .. Len(doc), NEW b, NEW e, NEW l,
           LineAt(doc, i, b, e, l)
    PROVE  /\ Len(doc) \in Nat /\ i \in Nat /\ b \in Nat /\ e \in Nat /\ l \in Nat
           /\ 0 < i /\ i < b /\ b < e /\ e < l /\ l <= Len(doc)
<1>1. PICK n \in Nat : n = Len(doc)
  BY LenProperties
<1>2. i \in 1 .. n /\ b \in i + 1 .. n /\ e \in i + 1 .. n /\ l \in i + 1 .. n /\ b < e /\ e < l
  BY <1>1 DEF LineAt
<1>. QED  BY <1>1, <1>2

\* Nothing between its ends is the end of a line or the beginning of one.
LEMMA LineInside ==
    ASSUME NEW X, NEW doc \in Seq(X), NEW i \in 1 .. Len(doc), NEW b, NEW e, NEW l,
           LineAt(doc, i, b, e, l), doc[i] = "<LineString>"
    PROVE  /\ \A k \in i .. l - 1 : doc[k] # "</LineString>"
           /\ \A k \in i + 1 .. l : doc[k] # "<LineString>"
           /\ \A k \in i .. l : doc[k] = "<coordinates>" <=> k = b
           /\ \A k \in i .. l : doc[k] = "</coordinates>" <=> k = e
<1>1. /\ i \in Nat /\ b \in Nat /\ e \in Nat /\ l \in Nat
      /\ 0 < i /\ i < b /\ b < e /\ e < l
  BY LineOrder
<1>2. /\ doc[b] = "<coordinates>" /\ doc[e] = "</coordinates>" /\ doc[l] = "</LineString>"
      /\ \A k \in i + 1 .. l - 1 : k \notin {b, e} => ~IsTag(doc[k])
  BY DEF LineAt
<1>3. ASSUME NEW k \in i .. l
      PROVE  k = i \/ k = b \/ k = e \/ k = l \/ (k # b /\ k # e /\ k # l /\ k # i /\ ~IsTag(doc[k]))
  <2>1. CASE k = i \/ k = l
    BY <2>1
  <2>2. CASE k # i /\ k # l
    <3>1. k \in i + 1 .. l - 1
      BY <1>1, <2>2
    <3>. QED  BY <1>2, <2>2, <3>1
  <2>. QED  BY <2>1, <2>2
<1>4. \A k \in i .. l - 1 : k \in i .. l /\ k # l
  BY <1>1
<1>5. \A k \in i + 1 .. l : k \in i .. l /\ k # i
  BY <1>1
<1>6. i # b /\ i # e /\ i # l /\ b # e /\ b # l /\ e # l
  BY <1>1
<1>. DEFINE T(k) == doc[k]
<1>7. ASSUME NEW k \in i .. l
      PROVE  /\ T(k) = "</LineString>" => k = l
             /\ T(k) = "<LineString>" => k = i
             /\ T(k) = "<coordinates>" <=> k = b
             /\ T(k) = "</coordinates>" <=> k = e
  BY <1>2, <1>3, <1>6 DEF IsTag
<1>. QED  BY <1>4, <1>5, <1>7

\* The tags of a line and of its coordinates, around a position.
OnLine(doc, j) == Within(doc, "<LineString>", "</LineString>", j)

InCoordinates(doc, j) == Within(doc, "<coordinates>", "</coordinates>", j)

\* Between its ends a line is open, and its coordinates are between theirs.
LEMMA LineAround ==
    ASSUME NEW X, NEW doc \in Seq(X), NEW i \in 1 .. Len(doc), NEW b, NEW e, NEW l,
           LineAt(doc, i, b, e, l), doc[i] = "<LineString>"
    PROVE  /\ \A j \in i .. l - 1 : OnLine(doc, j)
           /\ ~OnLine(doc, l)
           /\ \A j \in b .. e - 1 : InCoordinates(doc, j)
           /\ \A j \in i .. b - 1 : ~InCoordinates(doc, j)
           /\ \A j \in e .. l : ~InCoordinates(doc, j)
<1>1. /\ i \in Nat /\ b \in Nat /\ e \in Nat /\ l \in Nat
      /\ 0 < i /\ i < b /\ b < e /\ e < l
  BY LineOrder
<1>2. /\ \A k \in i .. l - 1 : doc[k] # "</LineString>"
      /\ \A k \in i + 1 .. l : doc[k] # "<LineString>"
      /\ \A k \in i .. l : doc[k] = "<coordinates>" <=> k = b
      /\ \A k \in i .. l : doc[k] = "</coordinates>" <=> k = e
  BY LineInside
<1>3. doc[l] = "</LineString>" /\ ~InCoordinates(doc, i)
  BY DEF LineAt, InCoordinates
<1>4. \A j \in i .. l - 1 : OnLine(doc, j)
  <2>1. TAKE j \in i .. l - 1
  <2>2. i \in 1 .. j /\ \A k \in i .. j : k \in i .. l - 1
    BY <1>1
  <2>. QED  BY <1>2, <2>2 DEF OnLine, Within
<1>5. ~OnLine(doc, l)
  <2>1. \A p \in 1 .. l : l \in p .. l
    BY <1>1
  <2>. QED  BY <1>3, <2>1 DEF OnLine, Within
<1>6. \A j \in b .. e - 1 : InCoordinates(doc, j)
  <2>1. TAKE j \in b .. e - 1
  <2>2. b \in 1 .. j /\ b \in i .. l /\ \A k \in b .. j : k \in i .. l /\ k # e
    BY <1>1
  <2>. QED  BY <1>2, <2>2 DEF InCoordinates, Within
<1>7. \A j \in i .. b - 1 : ~InCoordinates(doc, j)
  <2>. SUFFICES ASSUME NEW j \in i .. b - 1, NEW p \in 1 .. j, doc[p] = "<coordinates>",
                       \A k \in p .. j : doc[k] # "</coordinates>"
                PROVE  FALSE
    BY DEF InCoordinates, Within
  <2>1. p <= i
    <3>1. p > i => p \in i .. l /\ p # b
      BY <1>1
    <3>2. p \in Nat
      BY <1>1
    <3>. QED  BY <1>1, <1>2, <3>1, <3>2
  <2>2. p \in 1 .. i /\ \A k \in p .. i : k \in p .. j
    BY <1>1, <2>1
  <2>3. InCoordinates(doc, i)
    BY <2>2 DEF InCoordinates, Within
  <2>. QED  BY <1>3, <2>3
<1>8. \A j \in e .. l : ~InCoordinates(doc, j)
  <2>. SUFFICES ASSUME NEW j \in e .. l, NEW p \in 1 .. j, doc[p] = "<coordinates>",
                       \A k \in p .. j : doc[k] # "</coordinates>"
                PROVE  FALSE
    BY DEF InCoordinates, Within
  <2>1. e \in i .. l /\ (p <= e => e \in p .. j) /\ (p > e => p \in i .. l /\ p # b)
    BY <1>1
  <2>. QED  BY <1>1, <1>2, <2>1
<1>. QED  BY <1>4, <1>5, <1>6, <1>7, <1>8

\* Before it begins there is no other line open.
LEMMA LineAlone ==
    ASSUME NEW X, NEW doc \in Seq(X),
           \A i \in DOMAIN doc : doc[i] = "<LineString>" => IsLine(doc, i),
           NEW i \in 1 .. Len(doc), doc[i] = "<LineString>"
    PROVE  ~OnLine(doc, i - 1) /\ ~OnLine(doc, Len(doc))
<1>1. PICK n \in Nat : n = Len(doc) /\ DOMAIN doc = 1 .. n
  BY LenProperties
<1>2. ASSUME NEW j \in 0 .. n, NEW p \in 1 .. j, doc[p] = "<LineString>",
             \A k \in p .. j : doc[k] # "</LineString>",
             j = n \/ doc[j + 1] = "<LineString>"
      PROVE  FALSE
  <2>0. p \in 1 .. n /\ p \in Nat /\ j \in Nat
    BY <1>1
  <2>1. PICK b, e, l \in p + 1 .. Len(doc) : LineAt(doc, p, b, e, l)
    <3>1. IsLine(doc, p)
      BY <1>1, <1>2, <2>0
    <3>. QED  BY <3>1 DEF IsLine, LineAt
  <2>2. l \in Nat /\ p < l /\ l <= n
    BY <1>1, <2>0, <2>1, LineOrder
  <2>3. l > j
    <3>1. l <= j => l \in p .. j
      BY <2>0, <2>2
    <3>2. doc[l] = "</LineString>"
      BY <2>1 DEF LineAt
    <3>. QED  BY <1>2, <2>0, <2>2, <3>1, <3>2
  <2>4. \A k \in p + 1 .. l : doc[k] # "<LineString>"
    BY <1>1, <1>2, <2>0, <2>1, LineInside
  <2>5. j # n /\ j + 1 \in p + 1 .. l
    BY <2>0, <2>2, <2>3, <1>1
  <2>. QED  BY <1>2, <2>4, <2>5
<1>3. ~OnLine(doc, i - 1)
  <2>1. PICK j : j = i - 1
    OBVIOUS
  <2>2. j \in 0 .. n /\ j + 1 = i
    BY <1>1, <2>1
  <2>3. ~OnLine(doc, j)
    BY <1>2, <2>2 DEF OnLine, Within
  <2>. QED  BY <2>1, <2>3
<1>4. ~OnLine(doc, n)
  <2>1. n \in 0 .. n
    BY <1>1
  <2>. QED  BY <1>2, <2>1 DEF OnLine, Within
<1>. QED  BY <1>1, <1>3, <1>4

\* What is taken out of a document at a position, and what is to be.
Taken(doc, i) ==
    IF doc[i] # "<LineString>" THEN <<>>
    ELSE SubSeq(doc, IndexOf(doc, "<coordinates>", i) + 1, IndexOf(doc, "</coordinates>", i) - 1)

Wanted(doc, j) ==
    IF IsPoint(doc[j]) /\ OnLine(doc, j) /\ InCoordinates(doc, j) THEN <<<<doc[j]>>>> ELSE <<>>

\* What is taken at the beginning of a line stands between its tags, and is closed.
LEMMA TakenOfLine ==
    ASSUME NEW X, NEW doc \in Seq(X), NEW i \in 1 .. Len(doc), NEW b, NEW e, NEW l,
           LineAt(doc, i, b, e, l), doc[i] = "<LineString>"
    PROVE  /\ Taken(doc, i) = SubSeq(doc, b + 1, e - 1)
           /\ Taken(doc, i) \in Seq(X) /\ Len(Taken(doc, i)) = e - 1 - b
           /\ \A m \in 1 .. e - 1 - b : Taken(doc, i)[m] = doc[b + m]
           /\ Closed(Taken(doc, i))
<1>1. /\ Len(doc) \in Nat /\ i \in Nat /\ b \in Nat /\ e \in Nat /\ l \in Nat
      /\ 0 < i /\ i < b /\ b < e /\ e < l /\ l <= Len(doc)
  BY LineOrder
<1>2. /\ \A k \in i .. l : doc[k] = "<coordinates>" <=> k = b
      /\ \A k \in i .. l : doc[k] = "</coordinates>" <=> k = e
  BY LineInside
<1>3. /\ \A k \in i + 1 .. l - 1 : k \notin {b, e} => ~IsTag(doc[k])
      /\ \A k \in b + 1 .. e - 1 : IsPoint(doc[k]) => doc[k + 1] = ",0.0"
      /\ doc[e] = "</coordinates>"
  BY DEF LineAt
<1>. DEFINE First(t, j) == doc[j] = t /\ \A k \in i .. j - 1 : doc[k] # t
<1>4. IndexOf(doc, "<coordinates>", i) = b
  <2>1. b \in i .. Len(doc) /\ b \in i .. l /\ \A k \in i .. b - 1 : k \in i .. l /\ k # b
    BY <1>1
  <2>2. First("<coordinates>", b)
    BY <1>2, <2>1
  <2>3. ASSUME NEW j \in i .. Len(doc), First("<coordinates>", j) PROVE j = b
    <3>1. j <= b
      <4>1. j > b => b \in i .. j - 1
        BY <1>1
      <4>. QED  BY <1>1, <2>2, <2>3, <4>1
    <3>2. j \in i .. l
      BY <1>1, <3>1
    <3>. QED  BY <1>2, <2>3, <3>2
  <2>4. IndexOf(doc, "<coordinates>", i) = CHOOSE j \in i .. Len(doc) : First("<coordinates>", j)
    BY DEF IndexOf
  <2>. HIDE DEF First
  <2>. QED  BY <2>1, <2>2, <2>3, <2>4
<1>5. IndexOf(doc, "</coordinates>", i) = e
  <2>1. e \in i .. Len(doc) /\ e \in i .. l /\ \A k \in i .. e - 1 : k \in i .. l /\ k # e
    BY <1>1
  <2>2. First("</coordinates>", e)
    BY <1>2, <2>1
  <2>3. ASSUME NEW j \in i .. Len(doc), First("</coordinates>", j) PROVE j = e
    <3>1. j <= e
      <4>1. j > e => e \in i .. j - 1
        BY <1>1
      <4>. QED  BY <1>1, <2>2, <2>3, <4>1
    <3>2. j \in i .. l
      BY <1>1, <3>1
    <3>. QED  BY <1>2, <2>3, <3>2
  <2>4. IndexOf(doc, "</coordinates>", i) = CHOOSE j \in i .. Len(doc) : First("</coordinates>", j)
    BY DEF IndexOf
  <2>. HIDE DEF First
  <2>. QED  BY <2>1, <2>2, <2>3, <2>4
<1>6. PICK T : T = Taken(doc, i)
  OBVIOUS
<1>7. T = SubSeq(doc, b + 1, e - 1)
  BY <1>4, <1>5, <1>6 DEF Taken
<1>8. T \in Seq(X) /\ Len(T) = e - 1 - b /\ \A m \in 1 .. e - 1 - b : T[m] = doc[b + m]
  <2>0. PICK x : x = b + 1
    OBVIOUS
  <2>1. PICK y : y = e - 1
    OBVIOUS
  <2>2. /\ x \in Nat /\ y \in Nat /\ 0 < x /\ x <= y + 1 /\ y <= Len(doc)
        /\ y + 1 - x = e - 1 - b
    BY <1>1, <2>0, <2>1
  <2>3. /\ T \in Seq(X) /\ Len(T) = y + 1 - x
        /\ \A m \in 1 .. y + 1 - x : T[m] = doc[x - 1 + m]
    BY <1>7, <2>0, <2>1, <2>2, Piece
  <2>4. x - 1 = b
    BY <1>1, <2>0
  <2>. QED  BY <2>2, <2>3, <2>4
<1>9. Closed(T)
  <2>. SUFFICES ASSUME NEW m \in 1 .. e - 1 - b
                PROVE  /\ ~IsTag(T[m])
                       /\ IsPoint(T[m]) => m + 1 \in 1 .. e - 1 - b /\ T[m + 1] = ",0.0"
    BY <1>8 DEF Closed
  <2>1. PICK k : k = b + m
    OBVIOUS
  <2>2. k \in b + 1 .. e - 1 /\ k \in i + 1 .. l - 1 /\ k \notin {b, e}
    BY <1>1, <2>1
  <2>3. T[m] = doc[k] /\ ~IsTag(doc[k])
    BY <1>3, <1>8, <2>1, <2>2
  <2>4. ASSUME IsPoint(doc[k]) PROVE m + 1 \in 1 .. e - 1 - b /\ T[m + 1] = ",0.0"
    <3>1. doc[k + 1] = ",0.0"
      BY <1>3, <2>2, <2>4
    <3>2. k + 1 # e
      BY <1>3, <3>1
    <3>3. m + 1 \in 1 .. e - 1 - b /\ b + (m + 1) = k + 1
      BY <1>1, <2>1, <2>2, <3>2
    <3>4. T[m + 1] = doc[b + (m + 1)]
      BY <1>8, <3>3
    <3>. QED  BY <3>1, <3>3, <3>4
  <2>. QED  BY <2>3, <2>4
<1>. QED  BY <1>6, <1>7, <1>8, <1>9

\* What is taken and what is wanted of a line, in order: the points between its tags.
PointsTaken(doc, i, b, e, l) ==
    /\ \A j \in i + 1 .. l : Taken(doc, j) = <<>>
    /\ \A j \in i .. b : Wanted(doc, j) = <<>>
    /\ \A j \in e .. l : Wanted(doc, j) = <<>>
    /\ \A m \in 1 .. e - 1 - b : Wanted(doc, b + m) = PointsOf(Taken(doc, i))[m]

\* They are.
LEMMA WantedOfLine ==
    ASSUME NEW X, NEW doc \in Seq(X), NEW i \in 1 .. Len(doc), NEW b, NEW e, NEW l,
           LineAt(doc, i, b, e, l), doc[i] = "<LineString>"
    PROVE  PointsTaken(doc, i, b, e, l)
<1>1. /\ Len(doc) \in Nat /\ i \in Nat /\ b \in Nat /\ e \in Nat /\ l \in Nat
      /\ 0 < i /\ i < b /\ b < e /\ e < l /\ l <= Len(doc)
  BY LineOrder
<1>2. /\ \A j \in i .. l - 1 : OnLine(doc, j)
      /\ \A j \in b .. e - 1 : InCoordinates(doc, j)
      /\ \A j \in i .. b - 1 : ~InCoordinates(doc, j)
      /\ \A j \in e .. l : ~InCoordinates(doc, j)
  BY LineAround
<1>3. \A j \in i + 1 .. l : Taken(doc, j) = <<>>
  BY LineInside DEF Taken
<1>4. \A j \in i .. b : Wanted(doc, j) = <<>>
  <2>1. ~IsPoint(doc[b])
    BY DEF LineAt, IsPoint, IsTag
  <2>2. \A j \in i .. b : j = b \/ j \in i .. b - 1
    BY <1>1
  <2>. QED  BY <1>2, <2>1, <2>2 DEF Wanted
<1>5. \A j \in e .. l : Wanted(doc, j) = <<>>
  BY <1>2 DEF Wanted
<1>6. PICK T : T = Taken(doc, i)
  OBVIOUS
<1>7. PICK d : d = e - 1 - b
  OBVIOUS
<1>8. Len(T) = d /\ \A m \in 1 .. d : T[m] = doc[b + m]
  BY <1>6, <1>7, TakenOfLine
<1>9. ASSUME NEW m \in 1 .. d
      PROVE  Wanted(doc, b + m) = PointsOf(T)[m]
  <2>1. PICK j : j = b + m
    OBVIOUS
  <2>2. j \in i .. l - 1 /\ j \in b .. e - 1
    BY <1>1, <1>7, <2>1
  <2>3. Wanted(doc, j) = IF IsPoint(doc[j]) THEN <<<<doc[j]>>>> ELSE <<>>
    BY <1>2, <2>2 DEF Wanted
  <2>4. PointsOf(T)[m] = IF IsPoint(T[m]) THEN <<<<T[m]>>>> ELSE <<>>
    BY <1>8 DEF PointsOf
  <2>. QED  BY <1>8, <2>1, <2>3, <2>4
<1>. QED  BY <1>3, <1>4, <1>5, <1>6, <1>7, <1>9 DEF PointsTaken

\* What has been taken up to a position has the points that were wanted up to there.
Level(E, L, k) == Closed(E[k]) /\ L[k] = Points(E[k])

\* They are level at the end of a line, if they were before it began.
LEMMA LevelBehind ==
    ASSUME NEW X, NEW doc \in Seq(X), NEW i \in 1 .. Len(doc), NEW b, NEW e, NEW l,
           LineAt(doc, i, b, e, l), doc[i] = "<LineString>",
           NEW A \in Seq(Seq(X)), Len(A) = Len(doc), \A j \in 1 .. Len(doc) : A[j] = Taken(doc, j),
           NEW B \in Seq(Seq(Seq(X))), Len(B) = Len(doc), \A j \in 1 .. Len(doc) : B[j] = Wanted(doc, j),
           NEW E, Joins(E, A, X), NEW L, Joins(L, B, Seq(X)),
           Level(E, L, i - 1)
    PROVE  Level(E, L, l)
<1>1. /\ Len(doc) \in Nat /\ i \in Nat /\ b \in Nat /\ e \in Nat /\ l \in Nat
      /\ 0 < i /\ i < b /\ b < e /\ e < l /\ l <= Len(doc)
  BY LineOrder
<1>2. PICK T : T = Taken(doc, i)
  OBVIOUS
<1>3. PICK d : d = e - 1 - b
  OBVIOUS
<1>4. T \in Seq(X) /\ Len(T) = d /\ Closed(T) /\ d \in Nat /\ b + d = e - 1
  <2>1. T \in Seq(X) /\ Len(T) = d /\ Closed(T)
    BY <1>2, <1>3, TakenOfLine
  <2>2. d \in Nat /\ b + d = e - 1
    BY <1>1, <1>3
  <2>. QED  BY <2>1, <2>2
<1>21. /\ \A j \in i + 1 .. l : Taken(doc, j) = <<>>
       /\ \A j \in i .. b : Wanted(doc, j) = <<>>
       /\ \A j \in e .. l : Wanted(doc, j) = <<>>
       /\ \A m \in 1 .. d : Wanted(doc, b + m) = PointsOf(T)[m]
  <2>1. PointsTaken(doc, i, b, e, l)
    BY WantedOfLine
  <2>. QED  BY <1>2, <1>3, <2>1 DEF PointsTaken
<1>5. PICK h : h = i - 1
  OBVIOUS
<1>6. h \in Nat /\ h + 1 = i /\ h \in 0 .. Len(A) /\ i \in 1 .. Len(A)
  BY <1>1, <1>5
<1>7. E[l] = E[h] \o T /\ E[h] \in Seq(X)
  <2>1. E[i] = E[i - 1] \o A[i] /\ E[h] \in Seq(X)
    BY <1>6 DEF Joins
  <2>2. \A m \in i + 1 .. l : A[m] = <<>>
    <3>1. TAKE m \in i + 1 .. l
    <3>2. m \in 1 .. Len(doc)
      BY <1>1
    <3>. QED  BY <1>21, <3>2
  <2>3. i <= l /\ l <= Len(A)
    BY <1>1
  <2>5. i \in Nat /\ l \in Nat
    BY <1>1
  <2>4. E[l] = E[i]
    BY <2>2, <2>3, <2>5, JoinNothing
  <2>. QED  BY <1>2, <1>5, <2>1, <2>4
<1>8. PICK Q : Q = PointsOf(T)
  OBVIOUS
<1>9. Q \in Seq(Seq(Seq(X))) /\ Len(Q) = d
  BY <1>4, <1>8, PointsTypes
<1>10. PICK g : Joins(g, Q, Seq(X))
  BY <1>9, Joining
<1>11. L[b] = L[h]
  <2>1. \A m \in h + 1 .. b : B[m] = <<>>
    <3>1. TAKE m \in h + 1 .. b
    <3>2. m \in i .. b /\ m \in 1 .. Len(doc)
      BY <1>1, <1>6
    <3>. QED  BY <1>21, <3>2
  <2>2. h <= b /\ b <= Len(B)
    BY <1>1, <1>6
  <2>. QED  BY <1>1, <1>6, <2>1, <2>2, JoinNothing
<1>12. PICK c : c = e - 1
  OBVIOUS
<1>13. c \in Nat /\ c = b + d /\ c + 1 = e /\ c <= l /\ l <= Len(B)
  BY <1>1, <1>4, <1>12
<1>14. L[l] = L[c]
  <2>1. \A m \in c + 1 .. l : B[m] = <<>>
    <3>1. TAKE m \in c + 1 .. l
    <3>2. m \in e .. l /\ m \in 1 .. Len(doc)
      BY <1>1, <1>13
    <3>. QED  BY <1>21, <3>2
  <2>2. c \in Nat /\ l \in Nat /\ c <= l /\ l <= Len(B)
    BY <1>1, <1>13
  <2>. QED  BY <2>1, <2>2, JoinNothing
<1>15. Shift(L, b, g, d)
  <2>1. Common(B, b, Q, d)
    <3>1. \A m \in 1 .. d : B[b + m] = Q[m]
      <4>1. TAKE m \in 1 .. d
      <4>2. b + m \in 1 .. Len(doc)
        BY <1>1, <1>4
      <4>3. B[b + m] = Wanted(doc, b + m)
        BY <4>2, Zenon
      <4>. QED  BY <1>8, <1>21, <4>2, <4>3
    <3>2. b + d <= Len(B)
      BY <1>1, <1>4
    <3>. QED  BY <1>4, <1>9, <3>1, <3>2 DEF Common
  <2>. QED  BY <1>1, <1>4, <1>9, <1>10, <2>1, JoinShift
<1>16. g[d] = Points(T)
  BY <1>8, <1>9, <1>10, FlattenIs DEF Points
<1>17. L[l] = L[h] \o Points(T)
  BY <1>11, <1>13, <1>14, <1>15, <1>16 DEF Shift
<1>18. Closed(E[h]) /\ L[h] = Points(E[h])
  BY <1>5 DEF Level
<1>19. Closed(E[l])
  BY <1>4, <1>7, <1>18, ClosedBehind
<1>20. L[l] = Points(E[l])
  BY <1>4, <1>7, <1>17, <1>18, PointsBehind
<1>. QED  BY <1>19, <1>20 DEF Level

\* From one end of a line to the next: where no line is open they are level.
LEMMA LevelOn ==
    ASSUME NEW X, NEW doc \in Seq(X),
           \A i \in DOMAIN doc : doc[i] = "<LineString>" => IsLine(doc, i),
           NEW A \in Seq(Seq(X)), Len(A) = Len(doc), \A j \in 1 .. Len(doc) : A[j] = Taken(doc, j),
           NEW B \in Seq(Seq(Seq(X))), Len(B) = Len(doc), \A j \in 1 .. Len(doc) : B[j] = Wanted(doc, j),
           NEW E, Joins(E, A, X), NEW L, Joins(L, B, Seq(X)),
           NEW m \in Nat, m < Len(doc), \A k \in 0 .. m : ~OnLine(doc, k) => Level(E, L, k),
           ~OnLine(doc, m + 1)
    PROVE  Level(E, L, m + 1)
<1>1. PICK n \in Nat : n = Len(doc) /\ DOMAIN doc = 1 .. n
  BY LenProperties
<1>2. PICK j : j = m + 1
  OBVIOUS
<1>3. j \in 1 .. n /\ j \in Nat /\ j - 1 = m /\ m \in 0 .. m /\ m \in 0 .. n
  BY <1>1, <1>2
<1>4. doc[j] # "<LineString>"
  <2>1. j \in 1 .. j /\ \A k \in j .. j : k = j
    BY <1>3
  <2>. QED  BY <1>2, <2>1 DEF OnLine, Within
<1>5. CASE ~OnLine(doc, m)
  <2>1. Level(E, L, m)
    BY <1>3, <1>5
  <2>2. A[j] = <<>>
    BY <1>1, <1>3, <1>4 DEF Taken
  <2>3. B[j] = <<>>
    BY <1>1, <1>2, <1>3 DEF Wanted
  <2>4. E[j] = E[m] \o A[j] /\ E[m] \in Seq(X)
    BY <1>1, <1>3 DEF Joins
  <2>5. L[j] = L[m] \o B[j] /\ L[m] \in Seq(Seq(X))
    BY <1>1, <1>3 DEF Joins
  <2>6. E[j] = E[m] /\ L[j] = L[m]
    BY <2>2, <2>3, <2>4, <2>5, Associates
  <2>. QED  BY <1>2, <2>1, <2>6 DEF Level
<1>6. CASE OnLine(doc, m)
  <2>1. PICK i \in 1 .. m : doc[i] = "<LineString>" /\ \A k \in i .. m : doc[k] # "</LineString>"
    BY <1>6 DEF OnLine, Within
  <2>2. i \in 1 .. Len(doc) /\ i \in Nat
    BY <1>1, <1>3
  <2>3. PICK b, e, l \in i + 1 .. Len(doc) : LineAt(doc, i, b, e, l)
    <3>1. IsLine(doc, i)
      BY <1>1, <2>1, <2>2
    <3>. QED  BY <3>1 DEF IsLine, LineAt
  <2>4. l \in Nat /\ i < l
    BY <2>2, <2>3, LineOrder
  <2>5. l = j
    <3>1. doc[l] = "</LineString>"
      BY <2>3 DEF LineAt
    <3>2. l <= m => l \in i .. m
      BY <2>2, <2>4
    <3>3. j < l => j \in i .. l - 1
      BY <1>3, <2>2, <2>4
    <3>4. \A k \in i .. l - 1 : OnLine(doc, k)
      BY <2>1, <2>2, <2>3, LineAround
    <3>5. ~(l <= m) /\ ~(j < l)
      BY <1>2, <2>1, <3>1, <3>2, <3>3, <3>4
    <3>. QED  BY <1>3, <2>4, <3>5
  <2>6. PICK h : h = i - 1
    OBVIOUS
  <2>7. h \in 0 .. m
    BY <1>3, <2>1, <2>6
  <2>8. ~OnLine(doc, h)
    BY <2>1, <2>2, <2>6, LineAlone
  <2>9. Level(E, L, i - 1)
    BY <2>6, <2>7, <2>8
  <2>10. Level(E, L, l)
    BY <2>1, <2>2, <2>3, <2>9, LevelBehind
  <2>. QED  BY <1>2, <2>5, <2>10
<1>. QED  BY <1>5, <1>6

\* The points of a text without any.
LEMMA PointsOfNothing ==
    Closed(<<>>) /\ Points(<<>>) = <<>>
<1>1. Len(<<>>) = 0
  OBVIOUS
<1>2. PointsOf(<<>>) = <<>>
  BY <1>1 DEF PointsOf
<1>3. FlattenSeq(<<>>) = <<>>
  BY <1>1 DEF FlattenSeq
<1>. QED  BY <1>1, <1>2, <1>3 DEF Closed, Points

\* What is taken out of a well-formed document is what is wanted, split.
LEMMA LinesKept ==
    ASSUME NEW X, NEW doc \in Seq(X),
           \A i \in DOMAIN doc : doc[i] = "<LineString>" => IsLine(doc, i),
           "<LineString>" \in ToSet(doc), doc[1] # "<LineString>"
    PROVE  Split(ExtractCoordinatesFromKml(doc)) = Line(doc)
<1>1. PICK n \in Nat : n = Len(doc) /\ DOMAIN doc = 1 .. n
  BY LenProperties
<1>2. PICK i0 \in 1 .. n : doc[i0] = "<LineString>"
  BY <1>1 DEF ToSet
<1>3. PICK A : A = [i \in 1 .. n |-> Taken(doc, i)]
  OBVIOUS
<1>4. PICK B : B = [j \in 1 .. n |-> Wanted(doc, j)]
  OBVIOUS
<1>5. ExtractCoordinatesFromKml(doc) = FlattenSeq(A)
  BY <1>1, <1>3 DEF ExtractCoordinatesFromKml, Taken
<1>6. Line(doc) = FlattenSeq(B)
  BY <1>1, <1>4 DEF Line, Wanted, OnLine, InCoordinates
<1>7. A \in Seq(Seq(X)) /\ Len(A) = n
  <2>1. ASSUME NEW i \in 1 .. n PROVE Taken(doc, i) \in Seq(X)
    <3>1. CASE doc[i] # "<LineString>"
      BY <3>1, EmptySeq DEF Taken
    <3>2. CASE doc[i] = "<LineString>"
      <4>1. PICK b, e, l \in i + 1 .. Len(doc) : LineAt(doc, i, b, e, l)
        <5>1. IsLine(doc, i)
          BY <1>1, <3>2
        <5>. QED  BY <5>1 DEF IsLine, LineAt
      <4>. QED  BY <1>1, <3>2, <4>1, TakenOfLine
    <3>. QED  BY <3>1, <3>2
  <2>2. A \in [1 .. n -> Seq(X)]
    BY <1>3, <2>1
  <2>. QED  BY <2>2
<1>8. B \in Seq(Seq(Seq(X))) /\ Len(B) = n
  <2>1. ASSUME NEW j \in 1 .. n PROVE Wanted(doc, j) \in Seq(Seq(X))
    <3>1. doc[j] \in X
      BY <1>1
    <3>2. <<doc[j]>> \in Seq(X)
      BY <3>1
    <3>3. <<<<doc[j]>>>> \in Seq(Seq(X)) /\ <<>> \in Seq(Seq(X))
      BY <3>2
    <3>. QED  BY <3>3 DEF Wanted
  <2>2. B \in [1 .. n -> Seq(Seq(X))]
    BY <1>4, <2>1
  <2>. QED  BY <2>2
<1>9. /\ Len(A) = Len(doc) /\ \A j \in 1 .. Len(doc) : A[j] = Taken(doc, j)
      /\ Len(B) = Len(doc) /\ \A j \in 1 .. Len(doc) : B[j] = Wanted(doc, j)
  BY <1>1, <1>3, <1>4, <1>7, <1>8
<1>10. PICK E : Joins(E, A, X)
  BY <1>7, Joining
<1>11. PICK L : Joins(L, B, Seq(X))
  BY <1>8, Joining
<1>. DEFINE S == {m \in 0 .. n : \A k \in 0 .. m : ~OnLine(doc, k) => Level(E, L, k)}
<1>12. 0 \in S
  <2>1. Level(E, L, 0)
    BY <1>10, <1>11, PointsOfNothing DEF Joins, Level
  <2>. QED  BY <2>1
<1>13. ASSUME NEW m \in 0 .. n, m \in S, m < n PROVE m + 1 \in S
  <2>1. m \in Nat /\ m < Len(doc) /\ m + 1 \in 0 .. n
    BY <1>1, <1>13
  <2>2. \A k \in 0 .. m : ~OnLine(doc, k) => Level(E, L, k)
    BY <1>13
  <2>3. ~OnLine(doc, m + 1) => Level(E, L, m + 1)
    BY <1>7, <1>8, <1>9, <1>10, <1>11, <2>1, <2>2, LevelOn
  <2>4. \A k \in 0 .. m + 1 : k \in 0 .. m \/ k = m + 1
    BY <2>1
  <2>5. \A k \in 0 .. m + 1 : ~OnLine(doc, k) => Level(E, L, k)
    BY <2>2, <2>3, <2>4
  <2>. QED  BY <2>1, <2>5
<1>14. n \in S
  <2>. HIDE DEF S
  <2>1. \A m \in 0 .. n : m \in S /\ m < n => m + 1 \in S
    BY <1>13
  <2>2. \A m \in 0 .. n : m \in S
    BY <1>1, <1>12, <2>1, UpTo
  <2>3. n \in 0 .. n
    BY <1>1
  <2>. QED  BY <2>2, <2>3
<1>15. Level(E, L, n)
  <2>1. n \in 0 .. n
    BY <1>1
  <2>2. ~OnLine(doc, n)
    BY <1>1, <1>2, LineAlone
  <2>. QED  BY <1>14, <2>1, <2>2
<1>16. FlattenSeq(A) = E[n] /\ E[n] \in Seq(X)
  BY <1>7, <1>10, FlattenIs
<1>17. FlattenSeq(B) = L[n]
  BY <1>8, <1>11, FlattenIs
<1>18. Split(E[n]) = Points(E[n])
  <2>1. PICK u \in Seq(X) : u = E[n]
    BY <1>16
  <2>2. Closed(u)
    BY <1>15, <2>1 DEF Level
  <2>3. Split(u) = Points(u)
    BY <2>2, ClosedTidy, SplitIs
  <2>. QED  BY <2>1, <2>3
<1>. QED  BY <1>5, <1>6, <1>15, <1>16, <1>17, <1>18 DEF Level

\* Bare coordinates are split as they are.
LEMMA BareKept ==
    ASSUME NEW X, NEW doc \in Seq(X), "<LineString>" \notin ToSet(doc), WellFormed(doc)
    PROVE  Split(ExtractCoordinatesFromKml(doc)) = Line(doc)
<1>1. Tidy(doc)
  BY DEF WellFormed, Tidy
<1>2. ExtractCoordinatesFromKml(doc) = doc
  BY DEF ExtractCoordinatesFromKml
<1>3. Split(doc) = Points(doc)
  BY <1>1, SplitIs
<1>4. DOMAIN doc = 1 .. Len(doc)
  BY LenProperties
<1>5. Line(doc) = Points(doc)
  BY <1>4 DEF Line, Points, PointsOf
<1>. QED  BY <1>2, <1>3, <1>5

\* Of a document that is well-formed and does not begin with a line, splitting what is
\* extracted gives the points of its lines, in order.
LEMMA ParsingKeepsLines ==
    ASSUME NEW X, NEW doc \in Seq(X), WellFormed(doc), doc[1] # "<LineString>"
    PROVE  Split(ExtractCoordinatesFromKml(doc)) = Line(doc)
<1>1. CASE "<LineString>" \in ToSet(doc)
  <2>1. \A i \in DOMAIN doc : doc[i] = "<LineString>" => IsLine(doc, i)
    BY <1>1 DEF WellFormed
  <2>. QED  BY <1>1, <2>1, LinesKept
<1>2. CASE "<LineString>" \notin ToSet(doc)
  BY <1>2, BareKept
<1>. QED  BY <1>1, <1>2

-----------------------------------------------------------------------------
(* What becomes of a route.                                                *)

\* A document that was pasted, and parsed n times.
Parsed(doc, n) ==
    [document |-> doc, parsed |-> n,
     pairs |-> IF n = 0 THEN <<>> ELSE Split(ExtractCoordinatesFromKml(doc))]

Paths == {NoPath} \cup {Parsed(doc, n) : doc \in Document, n \in 0 .. 2}

Rows == [key : Key, guarded : BOOLEAN, path : Paths]

\* Whatever has coordinates, on the server, on the page or between them, has those of a
\* document that an administrator pasted.
PathInv ==
    /\ ListInv
    /\ model \in Seq(Rows) /\ editor.rows \in Seq(Rows)
    /\ \A c \in commands : c.path \in Paths

\* Parsing stays among these, once there is something to parse.
LEMMA ParsedAgain ==
    ASSUME NEW path \in Paths, path # NoPath
    PROVE  ParseKmlFormat(path) \in Paths
<1>1. PICK doc \in Document, n \in 0 .. 2 : path = Parsed(doc, n)
  BY DEF Paths
<1>2. CASE n = 0
  <2>0. PICK pairs : pairs = Split(ExtractCoordinatesFromKml(doc))
    OBVIOUS
  <2>2. path = [document |-> doc, parsed |-> 0, pairs |-> <<>>]
    BY <1>1, <1>2 DEF Parsed
  <2>3. ParseKmlFormat(path) = [path EXCEPT !.parsed = 1, !.pairs = pairs]
    BY <2>0, <2>2 DEF ParseKmlFormat
  <2>4. ParseKmlFormat(path) = [document |-> doc, parsed |-> 1, pairs |-> pairs]
    BY <2>2, <2>3
  <2>1. ParseKmlFormat(path) = Parsed(doc, 1)
    BY <2>0, <2>4 DEF Parsed
  <2>. QED  BY <2>1 DEF Paths
<1>3. CASE n # 0
  <2>1. ParseKmlFormat(path) = Parsed(doc, 2)
    BY <1>1, <1>3 DEF ParseKmlFormat, Parsed
  <2>. QED  BY <2>1 DEF Paths
<1>. QED  BY <1>2, <1>3

\* A new row has none.
LEMMA RowIs == ASSUME NEW k \in Key PROVE Row(k) \in Rows
BY DEF Row, Rows, Paths

\* A row gets another path.
LEMMA RowGetsPath ==
    ASSUME NEW rows \in Seq(Rows), NEW i, NEW path \in Paths
    PROVE  [rows EXCEPT ![i].path = path] \in Seq(Rows)
<1>1. PICK n \in Nat : n = Len(rows) /\ rows \in [1 .. n -> Rows]
  BY LenProperties
<1>2. \A r \in Rows : [r EXCEPT !.path = path] \in Rows
  BY DEF Rows
<1>. HIDE DEF Rows
<1>3. \A j \in 1 .. n : rows[j] \in Rows
  BY <1>1
<1>4. [rows EXCEPT ![i].path = path] \in [1 .. n -> Rows]
  BY <1>1, <1>2, <1>3
<1>5. \A f \in [1 .. n -> Rows] : f \in Seq(Rows)
  BY <1>1, SeqDef
<1>. QED  BY <1>4, <1>5

\* A command without a path is given, or one with a path of these.
LEMMA GivesPath ==
    ASSUME PathInv, NEW c, Send(c), c.path \in Paths
    PROVE  \A d \in commands' : d.path \in Paths
BY DEF PathInv, Send

\* The rows stay, the commands too.
LEMMA PathUnchanged ==
    ASSUME PathInv, ListInv', UNCHANGED <<model, commands, editor>>
    PROVE  PathInv'
BY DEF PathInv

\* The view for the list of happenings.
LEMMA PathOnView ==
    ASSUME PathInv, ListInv',
           \/ OnloadHappenings \/ LoadHappenings
           \/ \E k \in Key : SaveNewHappening(k) \/ SaveDefault(k)
           \/ \E i \in DOMAIN editor.rows :
                 DeleteHappening(i) \/ Paste(i) \/ ParseCoordinates(i) \/ AddCoordinates(i)
    PROVE  PathInv'
<1>0. /\ model \in Seq(Rows) /\ editor.rows \in Seq(Rows)
      /\ \A c \in commands : c.path \in Paths
      /\ DOMAIN editor = DOMAIN Unopened
  BY DEF PathInv, ListInv, EditorTypes
<1>. DEFINE Kept == model' = model /\ \A c \in commands' : c.path \in Paths
<1>1. Kept /\ editor'.rows \in Seq(Rows) => PathInv'
  BY <1>0 DEF PathInv
<1>2. CASE OnloadHappenings
  BY <1>0, <1>1, <1>2 DEF OnloadHappenings, serverVars, Unopened
<1>3. CASE LoadHappenings
  BY <1>0, <1>1, <1>3 DEF LoadHappenings, serverVars, Unopened
<1>4. ASSUME NEW k \in Key, SaveNewHappening(k) PROVE PathInv'
  <2>1. Kept
    <3>1. Command("CreateHappening", k).path \in Paths
      BY DEF Command, Paths
    <3>. QED  BY <1>4, <3>1, GivesPath DEF SaveNewHappening, serverVars
  <2>2. editor'.rows = editor.rows \/ editor'.rows = Append(editor.rows, Row(k))
    BY <1>0, <1>4 DEF SaveNewHappening, Unopened
  <2>3. Append(editor.rows, Row(k)) \in Seq(Rows)
    BY <1>0, RowIs
  <2>. QED  BY <1>0, <1>1, <2>1, <2>2, <2>3
<1>5. ASSUME NEW k \in Key, SaveDefault(k) PROVE PathInv'
  <2>1. Kept
    <3>1. Command("ChangeDefaultHappening", k).path \in Paths
      BY DEF Command, Paths
    <3>. QED  BY <1>5, <3>1, GivesPath DEF SaveDefault, serverVars
  <2>2. editor'.rows = editor.rows
    BY <1>0, <1>5 DEF SaveDefault, Unopened
  <2>. QED  BY <1>0, <1>1, <2>1, <2>2
<1>6. ASSUME NEW i \in DOMAIN editor.rows, DeleteHappening(i) PROVE PathInv'
  <2>1. Kept
    <3>1. Command("DeleteHappening", editor.rows[i].key).path \in Paths
      BY DEF Command, Paths
    <3>. QED  BY <1>6, <3>1, GivesPath DEF DeleteHappening, serverVars
  <2>2. editor'.rows = editor.rows \/ editor'.rows = RemoveAt(editor.rows, i)
    BY <1>0, <1>6 DEF DeleteHappening, Unopened
  <2>3. RemoveAt(editor.rows, i) \in Seq(Rows)
    BY <1>0, RowTaken
  <2>. QED  BY <1>0, <1>1, <2>1, <2>2, <2>3
<1>7. ASSUME NEW i \in DOMAIN editor.rows, Paste(i) PROVE PathInv'
  <2>1. Kept
    BY <1>0, <1>7 DEF Paste, serverVars
  <2>2. PICK doc \in Document : editor' = [editor EXCEPT !.rows[i].path = [NoPath EXCEPT !.document = doc]]
    BY <1>7 DEF Paste
  <2>3. PICK path : path = [NoPath EXCEPT !.document = doc]
    OBVIOUS
  <2>4. path \in Paths
    <3>1. path = Parsed(doc, 0)
      BY <2>3 DEF NoPath, Parsed
    <3>. QED  BY <3>1 DEF Paths
  <2>5. editor'.rows = [editor.rows EXCEPT ![i].path = path]
    BY <1>0, <2>2, <2>3 DEF Unopened
  <2>. QED  BY <1>0, <1>1, <2>1, <2>4, <2>5, RowGetsPath
<1>8. ASSUME NEW i \in DOMAIN editor.rows, ParseCoordinates(i) PROVE PathInv'
  <2>1. Kept
    BY <1>0, <1>8 DEF ParseCoordinates, serverVars
  <2>2. PICK path : path = ParseKmlFormat(editor.rows[i].path)
    OBVIOUS
  <2>3. path \in Paths
    <3>1. editor.rows[i] \in Rows
      BY <1>0
    <3>2. editor.rows[i].path \in Paths /\ editor.rows[i].path # NoPath
      BY <1>8, <3>1 DEF Rows, ParseCoordinates
    <3>. QED  BY <2>2, <3>2, ParsedAgain
  <2>4. editor'.rows = [editor.rows EXCEPT ![i].path = path]
    BY <1>0, <1>8, <2>2 DEF Unopened, ParseCoordinates
  <2>. QED  BY <1>0, <1>1, <2>1, <2>3, <2>4, RowGetsPath
<1>9. ASSUME NEW i \in DOMAIN editor.rows, AddCoordinates(i) PROVE PathInv'
  <2>1. PICK c : Send(c) /\ c.path = editor.rows[i].path
    BY <1>9 DEF AddCoordinates, Command
  <2>2. c.path \in Paths
    <3>1. editor.rows[i] \in Rows
      BY <1>0
    <3>. QED  BY <2>1, <3>1 DEF Rows
  <2>3. Kept /\ editor' = editor
    BY <1>9, <2>1, <2>2, GivesPath DEF AddCoordinates, serverVars
  <2>. QED  BY <1>0, <1>1, <2>3
<1>. QED  BY <1>2, <1>3, <1>4, <1>5, <1>6, <1>7, <1>8, <1>9

\* The server.
LEMMA PathOnServer ==
    ASSUME PathInv, ListInv', HandleCommand \/ AddCheckpoint
    PROVE  PathInv'
<1>0. /\ model \in Seq(Rows) /\ editor.rows \in Seq(Rows)
      /\ \A c \in commands : c.path \in Paths /\ c.key \in Key /\ c.kind \in Kinds
  BY DEF PathInv, ListInv, CommandTypes
<1>1. editor' = editor
  BY DEF HandleCommand, AddCheckpoint
<1>2. CASE HandleCommand
  <2>1. PICK c \in commands : /\ IF NoEffect(c) THEN UNCHANGED serverVars ELSE Execute(c)
                              /\ commands' \subseteq commands
    BY <1>2 DEF HandleCommand
  <2>2. \/ model' = model \/ model' = Append(model, Row(c.key))
        \/ \E i : model' = [model EXCEPT ![i].path = c.path]
    <3>1. UNCHANGED serverVars => model' = model
      BY DEF serverVars
    <3>2. CASE NoEffect(c)
      BY <2>1, <3>1, <3>2
    <3>3. CASE ~NoEffect(c)
      <4>1. Execute(c) /\ c.kind \in Kinds
        BY <1>0, <2>1, <3>3
      <4>2. CASE c.kind = "CreateHappening"
        BY <4>1, <4>2 DEF Execute, Create
      <4>3. CASE c.kind = "ChangeDefaultHappening"
        BY <4>1, <4>3 DEF Execute, ChangeDefault
      <4>4. CASE c.kind = "DeleteHappening"
        BY <4>1, <4>4 DEF Execute, Delete
      <4>5. CASE c.kind = "AddCoordinatePath"
        BY <4>1, <4>5 DEF Execute, AddCoordinatePath
      <4>. QED  BY <4>1, <4>2, <4>3, <4>4, <4>5 DEF Kinds
    <3>. QED  BY <3>2, <3>3
  <2>3. model' \in Seq(Rows)
    <3>1. Append(model, Row(c.key)) \in Seq(Rows)
      BY <1>0, RowIs
    <3>2. c.path \in Paths /\ \A i : [model EXCEPT ![i].path = c.path] \in Seq(Rows)
      BY <1>0, RowGetsPath
    <3>. HIDE DEF Rows
    <3>. QED  BY <1>0, <2>2, <3>1, <3>2
  <2>. QED  BY <1>0, <1>1, <2>1, <2>3 DEF PathInv
<1>3. CASE AddCheckpoint
  <2>1. PICK i : model' = model \/ model' = [model EXCEPT ![i].guarded = TRUE]
    BY <1>3 DEF AddCheckpoint
  <2>2. PICK n \in Nat : n = Len(model) /\ model \in [1 .. n -> Rows]
    BY <1>0, LenProperties
  <2>3. \A r \in Rows : [r EXCEPT !.guarded = TRUE] \in Rows
    BY DEF Rows
  <2>. HIDE DEF Rows
  <2>4. \A j \in 1 .. n : model[j] \in Rows
    BY <2>2
  <2>5. model' \in [1 .. n -> Rows]
    BY <2>1, <2>2, <2>3, <2>4
  <2>6. \A f \in [1 .. n -> Rows] : f \in Seq(Rows)
    BY <2>2, SeqDef
  <2>7. commands' = commands
    BY <1>3 DEF AddCheckpoint
  <2>. QED  BY <1>0, <1>1, <2>5, <2>6, <2>7 DEF PathInv
<1>. QED  BY <1>2, <1>3

\* Every step keeps it.
LEMMA PathStep == ASSUME PathInv, [Next]_vars PROVE PathInv'
<1>0. ListInv'
  BY ListStep DEF PathInv
<1>1. ASSUME NEW a, NEW p, LoadPage(a, p) PROVE PathInv'
  <2>1. model' = model /\ commands' = commands /\ editor'.rows = <<>>
    BY <1>1 DEF LoadPage, serverVars, Unopened
  <2>2. <<>> \in Seq(Rows)
    BY EmptySeq
  <2>. QED  BY <1>0, <2>1, <2>2 DEF PathInv
<1>2. UNCHANGED happeningsVars => PathInv'
  BY <1>0, PathUnchanged DEF happeningsVars, serverVars
<1>3. ASSUME NEW a, OpenAddress(a) PROVE PathInv'
  BY <1>0, <1>2, <1>3, PathOnView DEF OpenAddress
<1>4. ASSUME NEW w, SelectWalker(w) PROVE PathInv'
  BY <1>2, <1>4 DEF SelectWalker
<1>5. CASE LoadWalkers
  BY <1>2, <1>5 DEF LoadWalkers
<1>6. CASE Retry
  BY <1>2, <1>6 DEF Retry
<1>7. CASE HappeningsNext
  <2>1. \/ LoadHappenings
        \/ \E k \in Key : SaveNewHappening(k) \/ SaveDefault(k)
        \/ \E i \in DOMAIN editor.rows :
              DeleteHappening(i) \/ Paste(i) \/ ParseCoordinates(i) \/ AddCoordinates(i)
        \/ HandleCommand \/ AddCheckpoint
    BY <1>7 DEF HappeningsNext
  <2>. QED  BY <1>0, <2>1, PathOnView, PathOnServer
<1>8. CASE UNCHANGED vars
  BY <1>2, <1>8 DEF vars
<1>. QED  BY <1>1, <1>3, <1>4, <1>5, <1>6, <1>7, <1>8 DEF Next

\* At first there are no coordinates.
LEMMA InitPath == ASSUME Init PROVE PathInv
<1>1. ListInv
  BY InitList
<1>2. /\ model = [i \in DOMAIN Old |-> Row(Old[i])] /\ commands = {} /\ editor.rows = <<>>
  BY DEF Init, HappeningsInit, Unopened
<1>3. Old \in Seq(Key) /\ Len(Old) \in Nat /\ DOMAIN Old = 1 .. Len(Old)
  BY HappeningAssumption
<1>4. \A i \in 1 .. Len(Old) : Row(Old[i]) \in Rows
  BY <1>3, RowIs
<1>5. model \in [1 .. Len(Old) -> Rows]
  BY <1>2, <1>3, <1>4
<1>6. model \in Seq(Rows)
  BY <1>3, <1>5, SeqDef
<1>7. <<>> \in Seq(Rows)
  BY EmptySeq
<1>. QED  BY <1>1, <1>2, <1>6, <1>7 DEF PathInv

\* What has been parsed once is the route of its document.
LEMMA ThenLine ==
    ASSUME \A doc \in Document : WellFormed(doc), PathInv
    PROVE  PathIsLine
<1>. SUFFICES ASSUME NEW i \in DOMAIN model, model[i].path.parsed = 1,
                     model[i].path.document[1] # "<LineString>"
              PROVE  model[i].path.pairs = Line(model[i].path.document)
  BY DEF PathIsLine
<1>1. model[i] \in Rows
  BY DEF PathInv
<1>2. model[i].path \in Paths
  BY <1>1 DEF Rows
<1>3. PICK doc \in Document : model[i].path = Parsed(doc, 1)
  <2>1. PICK doc \in Document, n \in 0 .. 2 : model[i].path = Parsed(doc, n)
    BY <1>2 DEF Paths, NoPath
  <2>2. n = 1
    BY <2>1 DEF Parsed
  <2>. QED  BY <2>1, <2>2
<1>4. model[i].path.document = doc /\ model[i].path.pairs = Split(ExtractCoordinatesFromKml(doc))
  BY <1>3 DEF Parsed
<1>5. doc \in Seq(STRING) /\ WellFormed(doc)
  BY HappeningAssumption
<1>6. Split(ExtractCoordinatesFromKml(doc)) = Line(doc)
  BY <1>4, <1>5, ParsingKeepsLines
<1>. QED  BY <1>4, <1>6

\* A route that was parsed once consists of the points of its document's lines, in order, if
\* the documents that are pasted are made of lines (WellFormed): nothing else that has
\* coordinates gets into it, and no line is left out.
THEOREM PathIsLineHolds ==
    ASSUME \A doc \in Document : WellFormed(doc)
    PROVE  Spec => []PathIsLine
<1>1. Init => PathInv
  BY InitPath
<1>2. PathInv /\ [Next]_vars => PathInv'
  BY PathStep
<1>3. PathInv => PathIsLine
  BY ThenLine
<1>. QED  BY <1>1, <1>2, <1>3, PTL DEF Spec

=============================================================================
