--------------------------- MODULE AdminPages_proofs ---------------------------
(***************************************************************************)
(* Theorems about the administrator's pages, for any people, registrations *)
(* and bounds.                                                             *)
(*                                                                         *)
(* A person is created before they are linked (CreatedInv), if the clocks  *)
(* are as good as Delay and Lead ask for: a link waits longer than the     *)
(* creation that it is given with may take.  The list has those linked who *)
(* attend by a replay (ListInv), because a row that moves no other is the  *)
(* last.  The rows of the page show who heads for their registration, by   *)
(* the list and by what is on its way (AgreeInv).                          *)
(***************************************************************************)
EXTENDS AdminPages, SequenceTheorems, TLAPS

\* The lemmas about induction and recursion, whatever the threshold is.
Lists == INSTANCE Checkpoint_proofs WITH DoubleReadingThreshold <- 1

-----------------------------------------------------------------------------
(* Types.                                                                  *)

\* What the server's time may be misjudged by, before an answer and after.
Error == Errors \cup {0}

RowType == [type : {"Created", "Linked", "Unlinked", "UnlinkFailed", "Deleted"}, at : Int]

Kind == {"CreatePerson", "LinkPersonToHappening", "UnlinkPersonFromHappening", "DeletePerson"}

CommandType ==
    [kind : Kind, person : Person, registration : Registration \cup {NoOne},
     at : Int, since : Nat]

Shown == UNION {[D -> Person \cup {NoOne}] : D \in SUBSET Registration}

PageType ==
    [state : {"closed", "asked", "open"}, rows : Shown,
     newPerson : {<<>>} \cup [Registration -> Person],
     available : SUBSET Person, offered : SUBSET Person]

PeopleType ==
    [loaded : BOOLEAN, shown : SUBSET Person, free : SUBSET Person, bound : BOOLEAN]

ServerTypes ==
    /\ stream \in [Person -> Seq(RowType)]
    /\ DOMAIN links \subseteq Person
    /\ links \in [DOMAIN links -> Registration \cup {NoOne}]
    /\ DOMAIN attended \subseteq DOMAIN links

PageTypes ==
    /\ clock \in Nat /\ estimate \in Error
    /\ sent \subseteq CommandType
    /\ later \subseteq [command : CommandType, due : Int]
    /\ page \in PageType /\ loads \in 0 .. MaxLoads
    /\ people \in PeopleType
    /\ page.state = "closed" => page = Closed /\ later = {}
    /\ page.state # "closed" => loads # 0 /\ page.newPerson = NewPerson[loads]
    /\ \A l \in later : l.command.kind = "LinkPersonToHappening"

TypeInv == ServerTypes /\ PageTypes

\* A time of the client's is an integer.
LEMMA ErrorIs == Error \subseteq Int
BY PageAssumption DEF Error

\* What a command says.
LEMMA CommandIs ==
    ASSUME PageTypes, NEW k \in Kind, NEW p \in Person, NEW r \in Registration \cup {NoOne}
    PROVE  /\ Command(k, p, r) \in CommandType
           /\ Command(k, p, r).kind = k /\ Command(k, p, r).person = p
           /\ Command(k, p, r).registration = r
           /\ Command(k, p, r).since = clock /\ Command(k, p, r).at = clock + estimate
<1>1. clock + estimate \in Int
  BY ErrorIs DEF PageTypes
<1>. QED  BY <1>1 DEF Command, CommandType, ServerTime, PageTypes

\* A link is stamped later.
LEMMA StampedIs ==
    ASSUME PageTypes, NEW k \in Kind, NEW p \in Person, NEW r \in Registration \cup {NoOne}
    PROVE  LET c == Stamped(Command(k, p, r))
           IN  /\ c \in CommandType /\ c.kind = k /\ c.person = p /\ c.registration = r
               /\ c.since = clock /\ c.at = clock + estimate + Lead
<1>1. ASSUME NEW d \in CommandType PROVE d.at + Lead \in Int
  BY PageAssumption DEF CommandType
<1>2. ASSUME NEW d \in CommandType
      PROVE  /\ Stamped(d) \in CommandType /\ Stamped(d).at = d.at + Lead
             /\ Stamped(d).kind = d.kind /\ Stamped(d).person = d.person
             /\ Stamped(d).registration = d.registration /\ Stamped(d).since = d.since
  BY <1>1 DEF Stamped, CommandType
<1>. QED  BY CommandIs, <1>2

-----------------------------------------------------------------------------
(* A row takes its place.                                                  *)

\* t is s with the row between those not younger and those not older.
Put(s, t, row) ==
    \E k \in 1 .. Len(s) + 1 :
        /\ \A j \in 1 .. Len(s) : IF j < k THEN s[j].at <= row.at ELSE row.at <= s[j].at
        /\ t = [j \in 1 .. Len(s) + 1 |-> IF j < k THEN s[j] ELSE IF j = k THEN row ELSE s[j - 1]]

Puts(p, type, at) ==
    /\ stream' \in [Person -> Seq(RowType)]
    /\ \A q \in Person : q # p => stream'[q] = stream[q]
    /\ Put(stream[p], stream'[p], Row(type, at))

\* InsertAt, place by place.
LEMMA InsertAtIs ==
    ASSUME NEW s \in Seq(RowType), NEW row \in RowType, NEW k \in 1 .. Len(s) + 1
    PROVE  Ext!InsertAt(s, k, row) =
             [j \in 1 .. Len(s) + 1 |-> IF j < k THEN s[j] ELSE IF j = k THEN row ELSE s[j - 1]]
<1>. DEFINE a == SubSeq(s, 1, k - 1)
            b == <<row>>
            c == SubSeq(s, k, Len(s))
            t == [j \in 1 .. Len(s) + 1 |->
                    IF j < k THEN s[j] ELSE IF j = k THEN row ELSE s[j - 1]]
<1>1. Len(s) \in Nat /\ k \in Int
  OBVIOUS
<1>2. a \in Seq(RowType) /\ Len(a) = k - 1 /\ \A j \in 1 .. k - 1 : a[j] = s[j]
  OBVIOUS
<1>3. /\ c \in Seq(RowType) /\ Len(c) = Len(s) - k + 1
      /\ \A j \in 1 .. Len(s) - k + 1 : c[j] = s[k + j - 1]
  OBVIOUS
<1>4. b \in Seq(RowType) /\ Len(b) = 1 /\ b[1] = row
  OBVIOUS
<1>. HIDE DEF a, b, c
<1>5. /\ a \o b \in Seq(RowType) /\ Len(a \o b) = k
      /\ \A j \in 1 .. k : (a \o b)[j] = IF j < k THEN s[j] ELSE row
  <2>1. /\ a \o b \in Seq(RowType) /\ Len(a \o b) = (k - 1) + 1
        /\ \A j \in 1 .. (k - 1) + 1 : (a \o b)[j] = IF j <= k - 1 THEN a[j] ELSE b[j - (k - 1)]
    <3>1. /\ a \o b \in Seq(RowType) /\ Len(a \o b) = Len(a) + Len(b)
          /\ \A j \in 1 .. Len(a) + Len(b) :
                (a \o b)[j] = IF j <= Len(a) THEN a[j] ELSE b[j - Len(a)]
      BY <1>2, <1>4, ConcatProperties
    <3>. QED  BY <1>2, <1>4, <3>1
  <2>2. ASSUME NEW j \in 1 .. k PROVE (a \o b)[j] = IF j < k THEN s[j] ELSE row
    <3>1. CASE j < k
      BY <1>1, <1>2, <2>1, <3>1
    <3>2. CASE j = k
      BY <1>1, <1>4, <2>1, <3>2
    <3>3. j < k \/ j = k
      BY <1>1
    <3>. QED  BY ONLY <1>1, <3>1, <3>2, <3>3
  <2>. QED  BY <1>1, <2>1, <2>2
<1>. DEFINE d == a \o b
<1>. HIDE DEF d
<1>6. d \in Seq(RowType) /\ Len(d) = k /\ \A j \in 1 .. k : d[j] = IF j < k THEN s[j] ELSE row
  BY <1>5 DEF d
<1>7. /\ d \o c \in Seq(RowType) /\ Len(d \o c) = Len(s) + 1
      /\ \A j \in 1 .. Len(s) + 1 : (d \o c)[j] = IF j <= k THEN d[j] ELSE c[j - k]
  BY <1>1, <1>3, <1>6, ConcatProperties
<1>8. ASSUME NEW j \in 1 .. Len(s) + 1 PROVE (d \o c)[j] = t[j]
  <2>1. CASE j <= k
    BY <1>1, <1>6, <1>7, <2>1
  <2>2. CASE j > k
    <3>1. (d \o c)[j] = c[j - k]
      BY <1>1, <1>7, <2>2
    <3>2. j - k \in 1 .. Len(s) - k + 1 /\ k + (j - k) - 1 = j - 1
      BY <1>1, <2>2
    <3>3. c[j - k] = s[k + (j - k) - 1]
      BY <1>3, <3>2
    <3>. QED  BY <1>1, <2>2, <3>1, <3>2, <3>3
  <2>3. j <= k \/ j > k
    BY <1>1
  <2>. QED  BY ONLY <2>1, <2>2, <2>3
<1>9. d \o c = t
  <2>1. t = [j \in 1 .. Len(s) + 1 |-> t[j]]
    OBVIOUS
  <2>. HIDE DEF t
  <2>2. d \o c = [j \in 1 .. Len(s) + 1 |-> (d \o c)[j]]
    <3>1. DOMAIN (d \o c) = 1 .. Len(s) + 1
      BY <1>7
    <3>2. \A q \in Seq(RowType) : q = [j \in DOMAIN q |-> q[j]]
      OBVIOUS
    <3>. DEFINE q == d \o c
    <3>. HIDE DEF q
    <3>3. q \in Seq(RowType) /\ DOMAIN q = 1 .. Len(s) + 1
      BY <1>7, <3>1 DEF q
    <3>4. q = [j \in 1 .. Len(s) + 1 |-> q[j]]
      BY <3>2, <3>3
    <3>. QED  BY <3>4 DEF q
  <2>. QED  BY <1>8, <2>1, <2>2
<1>. QED  BY <1>9 DEF Ext!InsertAt, a, b, c, d

\* Storing a row puts it into the stream of the person.
LEMMA StoresPuts ==
    ASSUME ServerTypes, NEW p \in Person,
           NEW type \in {"Created", "Linked", "Unlinked", "UnlinkFailed", "Deleted"},
           NEW at \in Int, Stores(p, type, at)
    PROVE  Puts(p, type, at)
<1>. DEFINE s == stream[p]
            row == Row(type, at)
<1>1. s \in Seq(RowType) /\ row \in RowType /\ row.at = at
  BY DEF ServerTypes, Row, RowType
<1>2. PICK k \in 1 .. Len(s) + 1 :
          /\ \A j \in 1 .. Len(s) : IF j < k THEN s[j].at <= at ELSE at <= s[j].at
          /\ stream' = [stream EXCEPT ![p] = Ext!InsertAt(@, k, row)]
  BY DEF Stores
<1>. DEFINE t == [j \in 1 .. Len(s) + 1 |->
                     IF j < k THEN s[j] ELSE IF j = k THEN row ELSE s[j - 1]]
<1>3. Ext!InsertAt(s, k, row) = t
  BY <1>1, InsertAtIs
<1>4. t \in Seq(RowType)
  <2>1. Len(s) + 1 \in Nat
    BY <1>1
  <2>2. \A j \in 1 .. Len(s) + 1 : t[j] \in RowType
    BY <1>1, <1>2
  <2>3. t \in [1 .. Len(s) + 1 -> RowType]
    BY <2>2
  <2>. HIDE DEF t
  <2>. QED  BY <2>1, <2>3, SeqDef
<1>5. stream' = [stream EXCEPT ![p] = t]
  BY <1>2, <1>3
<1>6. Put(s, t, row)
  BY <1>1, <1>2 DEF Put
<1>. HIDE DEF t, row
<1>7. stream \in [Person -> Seq(RowType)]
  BY DEF ServerTypes
<1>8. stream' \in [Person -> Seq(RowType)] /\ stream'[p] = t
      /\ \A q \in Person : q # p => stream'[q] = stream[q]
  BY ONLY <1>4, <1>5, <1>7, p \in Person
<1>. QED  BY <1>6, <1>8 DEF Puts, row

\* What was there is there still.
LEMMA PutKeeps ==
    ASSUME NEW s \in Seq(RowType), NEW t, NEW row \in RowType, Put(s, t, row)
    PROVE  /\ Len(t) = Len(s) + 1 /\ DOMAIN t = 1 .. Len(s) + 1 /\ t # <<>>
           /\ \A j \in DOMAIN s : \E k \in DOMAIN t : t[k] = s[j]
<1>1. PICK k \in 1 .. Len(s) + 1 :
          t = [j \in 1 .. Len(s) + 1 |-> IF j < k THEN s[j] ELSE IF j = k THEN row ELSE s[j - 1]]
  BY DEF Put
<1>2. Len(s) \in Nat /\ DOMAIN s = 1 .. Len(s)
  OBVIOUS
<1>3. DOMAIN t = 1 .. Len(s) + 1
  BY <1>1
<1>4. t \in Seq(RowType) /\ Len(t) = Len(s) + 1
  <2>1. \A j \in 1 .. Len(s) + 1 : t[j] \in RowType
    BY <1>1, <1>2
  <2>2. t \in [1 .. Len(s) + 1 -> RowType]
    BY <1>1, <2>1
  <2>3. t \in Seq(RowType)
    BY <1>2, <2>2, SeqDef
  <2>. QED  BY <1>2, <1>3, <2>3
<1>5. ASSUME NEW j \in DOMAIN s PROVE \E i \in DOMAIN t : t[i] = s[j]
  <2>1. CASE j < k
    BY <1>1, <1>2, <1>3, <2>1
  <2>2. CASE j >= k
    <3>1. j + 1 \in DOMAIN t /\ ~(j + 1 < k) /\ j + 1 # k /\ (j + 1) - 1 = j
      BY <1>2, <1>3, <2>2
    <3>2. t[j + 1] = s[j]
      BY <1>1, <1>3, <3>1
    <3>. QED  BY <3>1, <3>2
  <2>. QED  BY <1>2, <2>1, <2>2
<1>. QED  BY <1>3, <1>4, <1>5

\* Every link in the stream comes after a creation.
LinkedLast(s) ==
    \A i \in DOMAIN s : s[i].type = "Linked" => \E j \in 1 .. i - 1 : s[j].type = "Created"

\* It stays so when a link is younger than a creation that is there.
LEMMA PutLast ==
    ASSUME NEW s \in Seq(RowType), NEW t, NEW row \in RowType, Put(s, t, row), LinkedLast(s),
           row.type = "Linked" =>
              \E j \in DOMAIN s : s[j].type = "Created" /\ s[j].at < row.at
    PROVE  LinkedLast(t)
<1>1. PICK k \in 1 .. Len(s) + 1 :
          /\ \A j \in 1 .. Len(s) : IF j < k THEN s[j].at <= row.at ELSE row.at <= s[j].at
          /\ t = [j \in 1 .. Len(s) + 1 |->
                    IF j < k THEN s[j] ELSE IF j = k THEN row ELSE s[j - 1]]
  BY DEF Put
<1>2. Len(s) \in Nat /\ DOMAIN s = 1 .. Len(s) /\ DOMAIN t = 1 .. Len(s) + 1
  BY <1>1
<1>3. \A j \in 1 .. Len(s) : s[j].at \in Int /\ row.at \in Int
  <2>1. \A j \in 1 .. Len(s) : s[j] \in RowType
    BY <1>2
  <2>. QED  BY <2>1 DEF RowType
<1>. SUFFICES ASSUME NEW i \in 1 .. Len(s) + 1, t[i].type = "Linked"
              PROVE  \E j \in 1 .. i - 1 : t[j].type = "Created"
  BY <1>2 DEF LinkedLast
<1>4. CASE i < k
  <2>1. i \in DOMAIN s /\ t[i] = s[i]
    BY <1>1, <1>2, <1>4
  <2>2. PICK j \in 1 .. i - 1 : s[j].type = "Created"
    BY <2>1 DEF LinkedLast
  <2>3. t[j] = s[j]
    BY <1>1, <1>2, <1>4, <2>1
  <2>. QED  BY <2>2, <2>3
<1>5. CASE i = k
  <2>1. t[i] = row
    BY <1>1, <1>5
  <2>2. PICK j \in DOMAIN s : s[j].type = "Created" /\ s[j].at < row.at
    BY <2>1
  <2>3. j < k
    BY <1>1, <1>2, <1>3, <2>2
  <2>4. j \in 1 .. i - 1 /\ t[j] = s[j]
    BY <1>1, <1>2, <1>5, <2>3
  <2>. QED  BY <2>2, <2>4
<1>6. CASE i > k
  <2>1. i - 1 \in DOMAIN s /\ t[i] = s[i - 1]
    BY <1>1, <1>2, <1>6
  <2>2. PICK j \in 1 .. (i - 1) - 1 : s[j].type = "Created"
    BY <2>1 DEF LinkedLast
  <2>3. CASE j < k
    <3>1. j \in 1 .. i - 1 /\ t[j] = s[j]
      BY <1>1, <1>2, <2>3
    <3>. QED  BY <2>2, <3>1
  <2>4. CASE j >= k
    <3>1. j + 1 \in 1 .. i - 1 /\ t[j + 1] = s[j]
      BY <1>1, <1>2, <2>4
    <3>. QED  BY <2>2, <3>1
  <2>. QED  BY <1>2, <2>3, <2>4
<1>. QED  BY <1>2, <1>4, <1>5, <1>6

-----------------------------------------------------------------------------
(* What a command does.                                                    *)

\* What is stored and listed of command c when it is handled.
Effect(c) ==
    \/ stream' = stream /\ links' = links
    \/ /\ c.kind = "CreatePerson" /\ stream[c.person] = <<>>
       /\ stream' = [stream EXCEPT ![c.person] = <<Row("Created", c.at)>>]
       /\ links' = [q \in DOMAIN links \cup {c.person} |->
                      IF q = c.person THEN NoOne ELSE links[q]]
    \/ /\ c.kind = "LinkPersonToHappening" /\ LinksToHappening(c.person)
       /\ Puts(c.person, "Linked", c.at)
       /\ links' = IF LinkThrows(c.person) THEN links
                   ELSE [links EXCEPT ![c.person] = c.registration]
    \/ /\ c.kind = "UnlinkPersonFromHappening" /\ Unlinks(c.person)
       /\ Puts(c.person, "Unlinked", clock)
       /\ links' = [q \in DOMAIN links |-> IF q = c.person THEN NoOne ELSE links[q]]
    \/ /\ c.kind = "UnlinkPersonFromHappening" /\ ~Unlinks(c.person)
       /\ Puts(c.person, "UnlinkFailed", clock)
       /\ links' = links
    \/ /\ c.kind = "DeletePerson"
       /\ Puts(c.person, "Deleted", clock)
       /\ links' = links

\* It leaves nothing undone of what it does, unless there is nothing to do.
HandleOf(c) ==
    /\ sent' = IF Fails(c) THEN sent ELSE sent \ {c}
    /\ Effect(c)
    /\ stream' = stream /\ links' = links =>
          \/ c.kind = "CreatePerson" /\ CreateFails(c.person)
          \/ c.kind = "LinkPersonToHappening" /\ ~LinksToHappening(c.person)
          \/ c.kind = "UnlinkPersonFromHappening" /\ started
    /\ past' = past \cup PastOf(c)
    /\ UNCHANGED <<clock, later, estimate, given, page, loads, people>>

\* A row more is a change.
LEMMA PutsChanges ==
    ASSUME ServerTypes, NEW p \in Person, NEW type, NEW at \in Int,
           Row(type, at) \in RowType, Puts(p, type, at)
    PROVE  stream' # stream /\ stream'[p] # <<>>
<1>1. stream[p] \in Seq(RowType)
  BY DEF ServerTypes
<1>2. Len(stream'[p]) = Len(stream[p]) + 1 /\ stream'[p] # <<>>
  BY <1>1, PutKeeps DEF Puts
<1>3. Len(stream[p]) \in Nat
  BY <1>1
<1>. QED  BY <1>2, <1>3

\* Handling does what the command is for, and keeps the server's types.
LEMMA HandleIs ==
    ASSUME TypeInv, Handle
    PROVE  (\E c \in sent : HandleOf(c)) /\ ServerTypes'
<1>1. PICK c \in sent :
          /\ sent' = IF Fails(c) THEN sent ELSE sent \ {c}
          /\ \/ ~Nothing(c) /\ Execute(c)
             \/ Nothing(c) /\ UNCHANGED attendanceVars
          /\ past' = past \cup PastOf(c)
  BY DEF Handle
<1>2. UNCHANGED <<clock, later, estimate, given, page, loads, people>>
  BY DEF Handle
<1>. DEFINE p == c.person
<1>3. c \in CommandType /\ c.kind \in Kind /\ p \in Person /\ c.at \in Int /\ clock \in Int
      /\ c.registration \in Registration \cup {NoOne}
  BY DEF TypeInv, PageTypes, CommandType
<1>4. ServerTypes
  BY DEF TypeInv
<1>. HIDE DEF p
<1>5. CASE Nothing(c) /\ UNCHANGED attendanceVars
  <2>1. stream' = stream /\ links' = links /\ attended' = attended
    BY <1>5 DEF attendanceVars
  <2>2. ServerTypes'
    BY <1>4, <2>1 DEF ServerTypes
  <2>3. Effect(c)
    BY <2>1 DEF Effect
  <2>4. HandleOf(c)
    BY <1>1, <1>2, <1>5, <2>3 DEF HandleOf, Nothing
  <2>. QED  BY <2>2, <2>4
<1>6. CASE ~Nothing(c) /\ Execute(c) /\ c.kind = "CreatePerson"
  <2>1. CreatePerson(p, c.at)
    BY <1>6 DEF Execute, p
  <2>2. stream[p] = <<>>
    BY <2>1 DEF CreatePerson, CreateFails
  <2>3. Puts(p, "Created", c.at)
    BY <1>3, <1>4, <2>1, StoresPuts DEF CreatePerson
  <2>4. stream'[p] = <<Row("Created", c.at)>>
    <3>1. Put(<<>>, stream'[p], Row("Created", c.at))
      BY <2>2, <2>3 DEF Puts
    <3>2. PICK k \in 1 .. 1 :
              stream'[p] = [j \in 1 .. 1 |-> IF j < k THEN <<>>[j]
                                            ELSE IF j = k THEN Row("Created", c.at)
                                            ELSE <<>>[j - 1]]
      BY <3>1 DEF Put
    <3>3. stream'[p] = [j \in 1 .. 1 |-> Row("Created", c.at)]
      BY <3>2
    <3>. QED  BY <3>3
  <2>5. stream' = [stream EXCEPT ![p] = <<Row("Created", c.at)>>]
    BY <1>3, <1>4, <2>3, <2>4 DEF Puts, ServerTypes
  <2>6. links' = [q \in DOMAIN links \cup {p} |-> IF q = p THEN NoOne ELSE links[q]]
        /\ attended' = [q \in DOMAIN attended \cup {p} |-> IF q = p THEN 0 ELSE attended[q]]
    BY <2>1 DEF CreatePerson
  <2>7. ServerTypes'
    BY <1>3, <1>4, <2>3, <2>6 DEF ServerTypes, Puts
  <2>8. Effect(c)
    BY <1>6, <2>2, <2>5, <2>6 DEF Effect, p
  <2>9. stream' # stream
    BY <1>3, <1>4, <2>3, PutsChanges DEF Row, RowType
  <2>10. HandleOf(c)
    BY <1>1, <1>2, <2>8, <2>9 DEF HandleOf
  <2>. QED  BY <2>7, <2>10
<1>7. CASE ~Nothing(c) /\ Execute(c) /\ c.kind = "LinkPersonToHappening"
  <2>1. LinkToHappening(p, c.registration, c.at)
    BY <1>7 DEF Execute, p
  <2>2. Puts(p, "Linked", c.at)
    BY <1>3, <1>4, <2>1, StoresPuts DEF LinkToHappening
  <2>3. links' = IF LinkThrows(p) THEN links ELSE [links EXCEPT ![p] = c.registration]
    BY <2>1 DEF LinkToHappening
  <2>4. DOMAIN attended' = DOMAIN attended
    BY <2>1 DEF LinkToHappening
  <2>5. ~LinkThrows(p) => p \in DOMAIN links
    BY DEF LinkThrows
  <2>6. DOMAIN links' = DOMAIN links /\ links' \in [DOMAIN links -> Registration \cup {NoOne}]
    BY <1>3, <1>4, <2>3, <2>5 DEF ServerTypes
  <2>7. ServerTypes'
    BY <1>4, <2>2, <2>4, <2>6 DEF ServerTypes, Puts
  <2>8. Effect(c)
    BY <1>7, <2>1, <2>2, <2>3 DEF Effect, p, LinkToHappening
  <2>9. stream' # stream
    BY <1>3, <1>4, <2>2, PutsChanges DEF Row, RowType
  <2>10. HandleOf(c)
    BY <1>1, <1>2, <2>8, <2>9 DEF HandleOf
  <2>. QED  BY <2>7, <2>10
<1>8. CASE ~Nothing(c) /\ Execute(c) /\ c.kind = "UnlinkPersonFromHappening"
  <2>1. UnlinkFromHappening(p, clock)
    BY <1>8 DEF Execute, p
  <2>2. Puts(p, IF Unlinks(p) THEN "Unlinked" ELSE "UnlinkFailed", clock)
    BY <1>3, <1>4, <2>1, StoresPuts DEF UnlinkFromHappening
  <2>3. /\ Unlinks(p) => links' = [q \in DOMAIN links |-> IF q = p THEN NoOne ELSE links[q]]
        /\ ~Unlinks(p) => links' = links
        /\ DOMAIN attended' = DOMAIN attended
    BY <2>1 DEF UnlinkFromHappening
  <2>4. DOMAIN links' = DOMAIN links /\ links' \in [DOMAIN links -> Registration \cup {NoOne}]
    BY <1>4, <2>3 DEF ServerTypes
  <2>5. ServerTypes'
    BY <1>4, <2>2, <2>3, <2>4 DEF ServerTypes, Puts
  <2>6. Effect(c)
    BY <1>8, <2>2, <2>3 DEF Effect, p
  <2>7. stream' # stream
    BY <1>3, <1>4, <2>2, PutsChanges DEF Row, RowType
  <2>8. HandleOf(c)
    BY <1>1, <1>2, <2>6, <2>7 DEF HandleOf
  <2>. QED  BY <2>5, <2>8
<1>9. CASE ~Nothing(c) /\ Execute(c) /\ c.kind = "DeletePerson"
  <2>1. DeletePerson(p, clock)
    BY <1>9 DEF Execute, p
  <2>2. Puts(p, "Deleted", clock)
    BY <1>3, <1>4, <2>1, StoresPuts DEF DeletePerson
  <2>3. links' = links /\ DOMAIN attended' = DOMAIN attended \ {p}
    BY <2>1 DEF DeletePerson
  <2>4. ServerTypes'
    BY <1>4, <2>2, <2>3 DEF ServerTypes, Puts
  <2>5. Effect(c)
    BY <1>9, <2>2, <2>3 DEF Effect, p
  <2>6. stream' # stream
    BY <1>3, <1>4, <2>2, PutsChanges DEF Row, RowType
  <2>7. HandleOf(c)
    BY <1>1, <1>2, <2>5, <2>6 DEF HandleOf
  <2>. QED  BY <2>4, <2>7
<1>. QED  BY <1>1, <1>3, <1>5, <1>6, <1>7, <1>8, <1>9 DEF Kind

-----------------------------------------------------------------------------
(* Types are kept.                                                         *)

\* The rows of a page, one of them set or taken out.
LEMMA RowsAre ==
    ASSUME NEW rows \in Shown
    PROVE  /\ DOMAIN rows \subseteq Registration
           /\ \A r \in DOMAIN rows : rows[r] \in Person \cup {NoOne}
           /\ \A r \in DOMAIN rows, x \in Person \cup {NoOne} : [rows EXCEPT ![r] = x] \in Shown
           /\ \A r : [s \in DOMAIN rows \ {r} |-> rows[s]] \in Shown
<1>1. PICK D \in SUBSET Registration : rows \in [D -> Person \cup {NoOne}]
  BY DEF Shown
<1>2. DOMAIN rows = D
  BY <1>1
<1>3. ASSUME NEW r \in D, NEW x \in Person \cup {NoOne} PROVE [rows EXCEPT ![r] = x] \in Shown
  <2>1. [rows EXCEPT ![r] = x] \in [D -> Person \cup {NoOne}]
    BY <1>1
  <2>. QED  BY <2>1 DEF Shown
<1>4. ASSUME NEW r PROVE [s \in D \ {r} |-> rows[s]] \in Shown
  <2>1. [s \in D \ {r} |-> rows[s]] \in [D \ {r} -> Person \cup {NoOne}]
    BY <1>1
  <2>2. D \ {r} \in SUBSET Registration
    OBVIOUS
  <2>. QED  BY <2>1, <2>2 DEF Shown
<1>. QED  BY <1>1, <1>2, <1>3, <1>4

\* Linking and unlinking set a row.
LEMMA RowSet ==
    ASSUME PageTypes, NEW r \in DOMAIN page.rows, NEW x \in Person \cup {NoOne},
           page' = [page EXCEPT !.rows[r] = x]
    PROVE  /\ page' \in PageType /\ page'.state = page.state
           /\ page'.newPerson = page.newPerson /\ page'.available = page.available
           /\ page'.offered = page.offered /\ DOMAIN page'.rows = DOMAIN page.rows
           /\ page'.rows[r] = x
           /\ \A s \in DOMAIN page.rows : s # r => page'.rows[s] = page.rows[s]
<1>. DEFINE rows == [page.rows EXCEPT ![r] = x]
<1>1. page \in PageType /\ page.rows \in Shown
  BY DEF PageTypes, PageType
<1>2. rows \in Shown /\ DOMAIN rows = DOMAIN page.rows
  BY <1>1, RowsAre
<1>3. rows[r] = x /\ \A s \in DOMAIN page.rows : s # r => rows[s] = page.rows[s]
  OBVIOUS
<1>4. page' = [page EXCEPT !.rows = rows]
  OBVIOUS
<1>. HIDE DEF rows
<1>. QED  BY <1>1, <1>2, <1>3, <1>4 DEF PageType

\* Linking row r to person p.
LEMMA LinkToIs ==
    ASSUME TypeInv, NEW r \in Registration, NEW p \in Person, CanLink(r), LinkTo(r, p)
    PROVE  LET c == Stamped(Command("LinkPersonToHappening", p, r))
           IN  /\ c \in CommandType /\ c.kind = "LinkPersonToHappening" /\ c.person = p
               /\ c.registration = r /\ c.since = clock /\ c.at = clock + estimate + Lead
               /\ later' = later \cup {[command |-> c, due |-> clock + Delay]}
               /\ clock + Delay \in Int
               /\ r \in DOMAIN page.rows /\ page.rows[r] = NoOne
               /\ page' = [page EXCEPT !.rows[r] = p]
               /\ page.state = "open" /\ page'.state = "open"
               /\ UNCHANGED <<stream, links, attended, started, clock, estimate, loads,
                              people, news>>
<1>1. /\ Stamped(Command("LinkPersonToHappening", p, r)) \in CommandType
      /\ LET c == Stamped(Command("LinkPersonToHappening", p, r))
         IN  /\ c.kind = "LinkPersonToHappening" /\ c.person = p /\ c.registration = r
             /\ c.since = clock /\ c.at = clock + estimate + Lead
  BY StampedIs DEF TypeInv, Kind
<1>2. clock + Delay \in Int
  BY PageAssumption DEF TypeInv, PageTypes
<1>3. r \in DOMAIN page.rows /\ page.rows[r] = NoOne /\ page.state = "open"
  BY DEF CanLink
<1>4. page' = [page EXCEPT !.rows[r] = p]
  BY DEF LinkTo
<1>5. page'.state = "open"
  BY <1>3, <1>4, RowSet DEF TypeInv
<1>6. UNCHANGED <<stream, links, attended, started, clock, estimate, loads, people, news>>
  BY DEF LinkTo, attendanceVars
<1>7. later' = later \cup {[command |-> Stamped(Command("LinkPersonToHappening", p, r)),
                            due |-> clock + Delay]}
  BY DEF LinkTo, Due
<1>. QED  BY <1>1, <1>2, <1>3, <1>4, <1>5, <1>6, <1>7

\* What is heard of the server's time is one of the errors.
LEMMA OffsetIs == ASSUME OffsetHeard PROVE estimate' \in Error
BY DEF OffsetHeard, Error

\* Linking a row keeps the types.
LEMMA LinkPageTypes ==
    ASSUME TypeInv, NEW r \in Registration, NEW p \in Person, CanLink(r), LinkTo(r, p),
           sent' \subseteq CommandType
    PROVE  TypeInv'
<1>. DEFINE c == Stamped(Command("LinkPersonToHappening", p, r))
<1>1. /\ c \in CommandType /\ c.kind = "LinkPersonToHappening"
      /\ later' = later \cup {[command |-> c, due |-> clock + Delay]} /\ clock + Delay \in Int
      /\ page' = [page EXCEPT !.rows[r] = p] /\ r \in DOMAIN page.rows
      /\ page.state = "open"
      /\ UNCHANGED <<stream, links, attended, clock, estimate, loads, people>>
  BY LinkToIs
<1>. HIDE DEF c
<1>2. page' \in PageType /\ page'.state = page.state /\ page'.newPerson = page.newPerson
  BY <1>1, RowSet DEF TypeInv
<1>3. later' \subseteq [command : CommandType, due : Int]
  BY <1>1 DEF TypeInv, PageTypes
<1>4. \A l \in later' : l.command.kind = "LinkPersonToHappening"
  BY <1>1 DEF TypeInv, PageTypes
<1>5. PageTypes'
  BY <1>1, <1>2, <1>3, <1>4 DEF TypeInv, PageTypes
<1>6. ServerTypes'
  BY <1>1 DEF TypeInv, ServerTypes
<1>. QED  BY <1>5, <1>6 DEF TypeInv

\* The rows of an answer.
LEMMA AnswerIs ==
    ASSUME TypeInv, NEW n \in 1 .. MaxLoads
    PROVE  LET P == RegistrationRows(n)
           IN  /\ P \in PageType /\ P.state = "asked" /\ P.newPerson = NewPerson[n]
               /\ P.available = {} /\ P.offered = {} /\ DOMAIN P.rows = Registration
               /\ \A r \in Registration :
                     \/ LinkedBy(r) = {} /\ P.rows[r] = NoOne
                     \/ LinkedBy(r) # {} /\ P.rows[r] \in LinkedBy(r)
<1>. DEFINE rows == [r \in Registration |->
                       IF LinkedBy(r) = {} THEN NoOne ELSE CHOOSE p \in LinkedBy(r) : TRUE]
<1>1. \A r \in Registration : \/ LinkedBy(r) = {} /\ rows[r] = NoOne
                              \/ LinkedBy(r) # {} /\ rows[r] \in LinkedBy(r)
  OBVIOUS
<1>2. \A r \in Registration : LinkedBy(r) \subseteq Person
  BY DEF LinkedBy, TypeInv, ServerTypes
<1>3. \A r \in Registration : rows[r] \in Person \cup {NoOne}
  BY <1>1, <1>2
<1>4. rows \in [Registration -> Person \cup {NoOne}] /\ DOMAIN rows = Registration
  BY <1>3
<1>5. rows \in Shown
  BY <1>4 DEF Shown
<1>6. NewPerson[n] \in [Registration -> Person]
  BY PageAssumption
<1>7. RegistrationRows(n) = [state |-> "asked", rows |-> rows, newPerson |-> NewPerson[n],
                             available |-> {}, offered |-> {}]
  BY DEF RegistrationRows
<1>. HIDE DEF rows
<1>. QED  BY <1>1, <1>4, <1>5, <1>6, <1>7 DEF PageType

\* A page that is closed.
LEMMA ClosedIs == Closed \in PageType /\ Closed.rows = <<>> /\ Closed.state = "closed"
<1>1. <<>> \in Shown
  <2>1. <<>> \in [{} -> Person \cup {NoOne}] /\ {} \in SUBSET Registration
    OBVIOUS
  <2>. QED  BY <2>1 DEF Shown
<1>. QED  BY <1>1 DEF Closed, PageType

\* Every step keeps the types.
LEMMA NextTypes == ASSUME TypeInv, [Next]_vars PROVE TypeInv'
<1>. USE DEF TypeInv
<1>1. CASE UNCHANGED vars
  BY <1>1 DEF vars, attendanceVars, adminVars, ServerTypes, PageTypes
<1>2. CASE Tick
  <2>1. UNCHANGED <<stream, links, attended, sent, later, estimate, page, loads, people>>
    BY <1>2 DEF Tick, attendanceVars
  <2>2. clock' \in Nat
    BY <1>2 DEF Tick, PageTypes
  <2>. QED  BY <2>1, <2>2 DEF ServerTypes, PageTypes
<1>3. CASE SendLater
  <2>1. PICK l \in later : later' = later \ {l}
                           /\ sent' = sent \cup {[l.command EXCEPT !.since = clock]}
    BY <1>3 DEF SendLater
  <2>2. UNCHANGED <<stream, links, attended, clock, estimate, page, loads, people>>
    BY <1>3 DEF SendLater, attendanceVars
  <2>3. l.command \in CommandType /\ clock \in Nat
    BY DEF PageTypes
  <2>4. sent' \subseteq CommandType
    BY <2>1, <2>3 DEF PageTypes, CommandType
  <2>5. ServerTypes'
    BY <2>2 DEF ServerTypes
  <2>6. PageTypes'
    BY <2>1, <2>2, <2>4 DEF PageTypes
  <2>. QED  BY <2>5, <2>6
<1>4. CASE AskRegistrations
  <2>1. loads' = loads + 1 /\ page' = RegistrationRows(loads') /\ page.state = "closed"
        /\ UNCHANGED <<stream, links, attended, clock, sent, later, estimate, people>>
        /\ loads < MaxLoads
    BY <1>4 DEF AskRegistrations, attendanceVars
  <2>2. loads' \in 1 .. MaxLoads
    BY <2>1, PageAssumption DEF PageTypes
  <2>3. page' \in PageType /\ page'.state = "asked" /\ page'.newPerson = NewPerson[loads']
    BY <2>1, <2>2, AnswerIs
  <2>4. ServerTypes'
    BY <2>1 DEF ServerTypes
  <2>5. PageTypes'
    BY <2>1, <2>2, <2>3 DEF PageTypes
  <2>. QED  BY <2>4, <2>5
<1>5. CASE LoadRegistrations
  <2>1. page' = [page EXCEPT !.state = "open", !.available = LinkPeople, !.offered = LinkPeople]
        /\ page.state = "asked" /\ estimate' \in Error
        /\ UNCHANGED <<stream, links, attended, clock, sent, later, loads, people>>
    BY <1>5, OffsetIs DEF LoadRegistrations, attendanceVars
  <2>2. LinkPeople \subseteq Person
    BY DEF LinkPeople, ServerTypes
  <2>3. page' \in PageType /\ page'.state = "open" /\ page'.newPerson = page.newPerson
    BY <2>1, <2>2 DEF PageTypes, PageType
  <2>4. ServerTypes'
    BY <2>1 DEF ServerTypes
  <2>5. PageTypes'
    BY <2>1, <2>3 DEF PageTypes
  <2>. QED  BY <2>4, <2>5
<1>6. CASE Leave
  <2>1. page' = Closed /\ people' = NotLoaded /\ later' = {}
        /\ UNCHANGED <<stream, links, attended, clock, sent, estimate, loads>>
    BY <1>6 DEF Leave, attendanceVars
  <2>2. NotLoaded \in PeopleType
    BY DEF NotLoaded, PeopleType
  <2>3. ServerTypes'
    BY <2>1 DEF ServerTypes
  <2>4. PageTypes'
    BY <2>1, <2>2, ClosedIs DEF PageTypes
  <2>. QED  BY <2>3, <2>4
<1>7. CASE \E r \in Registration : LinkToNewPerson(r)
  <2>1. PICK r \in Registration : LinkToNewPerson(r)
    BY <1>7
  <2>2. CanLink(r) /\ LinkTo(r, page.newPerson[r])
        /\ sent' = sent \cup {Command("CreatePerson", page.newPerson[r], r)}
    BY <2>1 DEF LinkToNewPerson
  <2>3. loads \in 1 .. MaxLoads /\ page.newPerson = NewPerson[loads]
    BY <2>2 DEF CanLink, PageTypes
  <2>4. page.newPerson[r] \in Person
    BY <2>3, PageAssumption
  <2>5. Command("CreatePerson", page.newPerson[r], r) \in CommandType
    BY <2>4, CommandIs DEF Kind
  <2>6. sent' \subseteq CommandType
    BY <2>2, <2>5 DEF PageTypes
  <2>. QED  BY <2>2, <2>4, <2>6, LinkPageTypes
<1>8. CASE \E r \in Registration : LinkToExistingPerson(r)
  <2>1. PICK r \in Registration : LinkToExistingPerson(r)
    BY <1>8
  <2>2. PICK p \in Offered(r) : LinkTo(r, p)
    BY <2>1 DEF LinkToExistingPerson
  <2>3. p \in Person
    BY DEF Offered, PageTypes, PageType
  <2>4. CanLink(r) /\ sent' = sent
    BY <2>1 DEF LinkToExistingPerson
  <2>5. sent' \subseteq CommandType
    BY <2>4 DEF PageTypes
  <2>. QED  BY <2>2, <2>3, <2>4, <2>5, LinkPageTypes
<1>9. CASE \E r \in Registration : Unlink(r)
  <2>1. PICK r \in Registration : Unlink(r)
    BY <1>9
  <2>2. r \in DOMAIN page.rows /\ page.rows[r] # NoOne /\ page.state = "open"
        /\ sent' = sent \cup {Command("UnlinkPersonFromHappening", page.rows[r], r)}
        /\ page' = [page EXCEPT !.rows[r] = NoOne]
        /\ UNCHANGED <<stream, links, attended, clock, later, estimate, loads, people>>
    BY <2>1 DEF Unlink, attendanceVars
  <2>3. page.rows[r] \in Person
    BY <2>2, RowsAre DEF PageTypes, PageType
  <2>4. sent' \subseteq CommandType
    BY <2>2, <2>3, CommandIs DEF PageTypes, Kind
  <2>5. page' \in PageType /\ page'.state = "open" /\ page'.newPerson = page.newPerson
    BY <2>2, RowSet
  <2>6. ServerTypes'
    BY <2>2 DEF ServerTypes
  <2>7. PageTypes'
    BY <2>2, <2>4, <2>5 DEF PageTypes
  <2>. QED  BY <2>6, <2>7
<1>10. CASE \E r \in Registration : Remove(r)
  <2>1. PICK r \in Registration : Remove(r)
    BY <1>10
  <2>2. page' = [page EXCEPT !.rows = [s \in DOMAIN page.rows \ {r} |-> page.rows[s]]]
        /\ page.state = "open"
        /\ UNCHANGED <<stream, links, attended, clock, sent, later, estimate, loads, people>>
    BY <2>1 DEF Remove, attendanceVars
  <2>. DEFINE rows == [s \in DOMAIN page.rows \ {r} |-> page.rows[s]]
  <2>3. rows \in Shown
    BY RowsAre DEF PageTypes, PageType
  <2>4. page' = [page EXCEPT !.rows = rows]
    BY <2>2
  <2>. HIDE DEF rows
  <2>5. page' \in PageType /\ page'.state = "open" /\ page'.newPerson = page.newPerson
    BY <2>2, <2>3, <2>4 DEF PageTypes, PageType
  <2>6. ServerTypes'
    BY <2>2 DEF ServerTypes
  <2>7. PageTypes'
    BY <2>2, <2>5 DEF PageTypes
  <2>. QED  BY <2>6, <2>7
<1>11. CASE Hear
  <2>1. PICK p \in news : page' \in {page, [page EXCEPT !.available = @ \ {p}]}
    BY <1>11 DEF Hear
  <2>2. UNCHANGED <<stream, links, attended, clock, sent, later, estimate, loads, people>>
    BY <1>11 DEF Hear, attendanceVars
  <2>3. page' \in PageType /\ page'.state = page.state /\ page'.newPerson = page.newPerson
    BY <2>1 DEF PageTypes, PageType
  <2>4. page = Closed => page' = Closed
    BY <2>1 DEF Closed
  <2>5. ServerTypes'
    BY <2>2 DEF ServerTypes
  <2>6. PageTypes'
    BY <2>2, <2>3, <2>4 DEF PageTypes
  <2>. QED  BY <2>5, <2>6
<1>12. CASE LoadPeople \/ RefreshData
  <2>1. estimate' \in Error
        /\ UNCHANGED <<stream, links, attended, clock, sent, later, page, loads>>
    BY <1>12, OffsetIs DEF LoadPeople, RefreshData, attendanceVars
  <2>2. people' \in PeopleType
    <3>1. CASE LoadPeople
      <4>1. DOMAIN attended \subseteq Person
        BY DEF ServerTypes
      <4>. QED  BY <3>1, <4>1 DEF LoadPeople, PeopleType
    <3>2. CASE RefreshData
      BY <3>2 DEF RefreshData, PeopleType, PageTypes
    <3>. QED  BY <1>12, <3>1, <3>2
  <2>3. ServerTypes'
    BY <2>1 DEF ServerTypes
  <2>4. PageTypes'
    BY <2>1, <2>2 DEF PageTypes
  <2>. QED  BY <2>3, <2>4
<1>13. CASE GiveDelete
  <2>1. PICK p \in people.shown \cap people.free :
            /\ sent' = sent \cup {Command("DeletePerson", p, NoOne)}
            /\ people' = IF people.bound THEN [people EXCEPT !.shown = @ \ {p}] ELSE people
    BY <1>13 DEF GiveDelete
  <2>2. UNCHANGED <<stream, links, attended, clock, later, estimate, page, loads>>
    BY <1>13 DEF GiveDelete, attendanceVars
  <2>3. p \in Person
    BY DEF PageTypes, PeopleType
  <2>4. sent' \subseteq CommandType
    BY <2>1, <2>3, CommandIs DEF PageTypes, Kind
  <2>5. people' \in PeopleType
    BY <2>1 DEF PageTypes, PeopleType
  <2>6. ServerTypes'
    BY <2>2 DEF ServerTypes
  <2>7. PageTypes'
    BY <2>2, <2>4, <2>5 DEF PageTypes
  <2>. QED  BY <2>6, <2>7
<1>14. CASE OthersGive
  <2>1. PICK kind \in Others, p \in DOMAIN links, r \in Registration :
            sent' = sent \cup {[Command(kind, p, r) EXCEPT
                                   !.at = IF kind = "LinkPersonToHappening"
                                            THEN clock - Delay + Lead ELSE clock]}
    BY <1>14 DEF OthersGive
  <2>2. UNCHANGED <<stream, links, attended, clock, later, estimate, page, loads, people>>
    BY <1>14 DEF OthersGive, attendanceVars
  <2>3. Command(kind, p, r) \in CommandType /\ clock - Delay + Lead \in Int /\ clock \in Int
    <3>1. kind \in Kind /\ p \in Person /\ r \in Registration \cup {NoOne}
      BY PageAssumption DEF ServerTypes, Kind
    <3>2. clock - Delay + Lead \in Int /\ clock \in Int
      BY PageAssumption DEF PageTypes
    <3>. QED  BY <3>1, <3>2, CommandIs
  <2>4. sent' \subseteq CommandType
    BY <2>1, <2>3 DEF PageTypes, CommandType
  <2>5. ServerTypes'
    BY <2>2 DEF ServerTypes
  <2>6. PageTypes'
    BY <2>2, <2>4 DEF PageTypes
  <2>. QED  BY <2>5, <2>6
<1>15. CASE Handle
  <2>1. PICK c \in sent : HandleOf(c)
    BY <1>15, HandleIs
  <2>2. ServerTypes'
    BY <1>15, HandleIs
  <2>3. PageTypes'
    BY <2>1 DEF HandleOf, PageTypes
  <2>. QED  BY <2>2, <2>3
<1>16. CASE Start
  BY <1>16 DEF Start, StartHappening, adminVars, ServerTypes, PageTypes
<1>. QED  BY <1>1, <1>2, <1>3, <1>4, <1>5, <1>6, <1>7, <1>8, <1>9, <1>10, <1>11, <1>12, <1>13,
             <1>14, <1>15, <1>16 DEF Next

-----------------------------------------------------------------------------
(* Who is linked has been created: the inductive invariant.                *)

\* The delay allows for what the commands take, and the lead for the delay and for what
\* the clocks are wrong by.
ClocksHold ==
    /\ Within < Delay
    /\ \A e, f \in Error : e - f < Lead /\ e < Lead - Delay

Calm == past \cap {"late", "hasty"} = {}

HasCreated(p, at) ==
    \E j \in DOMAIN stream[p] : stream[p][j].type = "Created" /\ stream[p][j].at < at

\* Who is listed has been created, and not in the future.
ListedCreated ==
    \A p \in DOMAIN links : \E j \in DOMAIN stream[p] :
        stream[p][j].type = "Created" /\ \E e \in Error : stream[p][j].at <= clock + e

\* Nor is anybody about to be.
StampedBefore ==
    \A d \in sent : d.kind = "CreatePerson" => \E e \in Error : d.at <= clock + e

\* The pages offer people who are listed.
OfferedListed ==
    /\ page.available \cup page.offered \subseteq DOMAIN links
    /\ people.shown \subseteq DOMAIN links

\* The creations that are still to be handled.
Creations == {d \in sent : d.kind = "CreatePerson" /\ stream[d.person] = <<>>}

\* None is late.
InTime == \A d \in Creations : clock <= d.since + Within

\* There is one of a person, and the row of the registration that it is for shows them.
OneCreation == \A c, d \in Creations : c.person = d.person => c = d

RowOwns ==
    \A d \in Creations : \E n \in 1 .. loads, r \in Registration :
        /\ d.person = NewPerson[n][r]
        /\ n = loads /\ page.state # "closed" =>
              r \in DOMAIN page.rows /\ page.rows[r] = d.person

\* Nothing is stored of a person before they are created.
NothingBefore == \A p \in Person : p \in DOMAIN links \/ stream[p] = <<>>

\* A row shows who has been created or is about to be.
RowsCreated ==
    \A r \in DOMAIN page.rows : page.rows[r] # NoOne =>
        \/ page.rows[r] \in DOMAIN links
        \/ \E d \in Creations : d.person = page.rows[r]

\* Who is unlinked or deleted has been created.
UndoneCreated ==
    \A c \in sent : c.kind \in {"UnlinkPersonFromHappening", "DeletePerson"} =>
        c.person \in DOMAIN links

\* So has who is linked, before the link; or the link waits longer than the creation will take.
LinkReady(c) == c.person \in DOMAIN links /\ HasCreated(c.person, c.at)

SentReady == \A c \in sent : c.kind = "LinkPersonToHappening" => LinkReady(c)

WaitsFor(l, d) ==
    /\ d.person = l.command.person
    /\ d.at < l.command.at /\ d.since + Delay <= l.due

LaterReady == \A l \in later : LinkReady(l.command) \/ \E d \in Creations : WaitsFor(l, d)

AllLinkedLast == \A p \in Person : LinkedLast(stream[p])

\* What is about streams, lists and commands, and what is about the page.
SentInv ==
    InTime /\ OneCreation /\ NothingBefore /\ UndoneCreated /\ SentReady /\ AllLinkedLast

RowsInv == RowOwns /\ RowsCreated /\ LaterReady

CreatedInv == TypeInv /\ ListedCreated /\ StampedBefore /\ OfferedListed /\ (Calm => SentInv /\ RowsInv)

\* Nothing that went wrong is forgotten, but what others did.
LEMMA PastKept == ASSUME [Next]_vars PROVE past \ {"else"} \subseteq past'
<1>1. CASE UNCHANGED vars
  BY <1>1 DEF vars, adminVars
<1>2. CASE Tick \/ SendLater \/ AskRegistrations \/ LoadRegistrations \/ Leave \/ Hear
           \/ LoadPeople \/ RefreshData \/ GiveDelete \/ OthersGive \/ Handle \/ Start
  BY <1>2 DEF Tick, SendLater, AskRegistrations, LoadRegistrations, Leave, Hear, LoadPeople,
              RefreshData, GiveDelete, OthersGive, Handle, Start, adminVars
<1>3. CASE \E r \in Registration :
              LinkToNewPerson(r) \/ LinkToExistingPerson(r) \/ Unlink(r) \/ Remove(r)
  BY <1>3 DEF LinkToNewPerson, LinkToExistingPerson, Unlink, Remove
<1>. QED  BY <1>1, <1>2, <1>3 DEF Next

\* If nothing is late or hasty after a step, nothing was before.
LEMMA CalmBefore == ASSUME [Next]_vars, Calm' PROVE Calm
BY PastKept DEF Calm

\* What only adds rows and people.
Grows ==
    /\ DOMAIN links \subseteq DOMAIN links'
    /\ \A p \in Person : \A j \in DOMAIN stream[p] :
          \E k \in DOMAIN stream'[p] : stream'[p][k] = stream[p][j]
    /\ \A p \in Person : stream[p] # <<>> => stream'[p] # <<>>

\* A command adds to one stream, and at most its person to the list.
LEMMA EffectGrows ==
    ASSUME ServerTypes, NEW c \in CommandType, clock \in Nat, Effect(c)
    PROVE  /\ Grows
           /\ \A q \in Person : q # c.person => stream'[q] = stream[q]
           /\ stream'[c.person] = stream[c.person] \/ stream'[c.person] # <<>>
           /\ \/ DOMAIN links' = DOMAIN links
              \/ /\ c.kind = "CreatePerson" /\ stream[c.person] = <<>>
                 /\ stream'[c.person] = <<Row("Created", c.at)>>
                 /\ DOMAIN links' = DOMAIN links \cup {c.person}
<1>. DEFINE p == c.person
<1>1. p \in Person /\ c.at \in Int /\ stream \in [Person -> Seq(RowType)]
      /\ \A q \in Person : stream[q] \in Seq(RowType)
  BY DEF CommandType, ServerTypes
<1>2. ASSUME NEW type, NEW at \in Int, Row(type, at) \in RowType, Puts(p, type, at),
             DOMAIN links' = DOMAIN links
      PROVE  /\ Grows
             /\ \A q \in Person : q # p => stream'[q] = stream[q]
             /\ stream'[p] # <<>>
  <2>1. stream'[p] # <<>> /\ \A j \in DOMAIN stream[p] : \E k \in DOMAIN stream'[p] :
            stream'[p][k] = stream[p][j]
    BY <1>1, <1>2, PutKeeps DEF Puts
  <2>2. \A q \in Person : q # p => stream'[q] = stream[q]
    BY <1>2 DEF Puts
  <2>. QED  BY <1>2, <2>1, <2>2 DEF Grows
<1>3. CASE stream' = stream /\ links' = links
  BY <1>3 DEF Grows
<1>4. CASE /\ c.kind = "CreatePerson" /\ stream[p] = <<>>
           /\ stream' = [stream EXCEPT ![p] = <<Row("Created", c.at)>>]
           /\ links' = [q \in DOMAIN links \cup {p} |-> IF q = p THEN NoOne ELSE links[q]]
  <2>1. stream'[p] = <<Row("Created", c.at)>> /\ DOMAIN links' = DOMAIN links \cup {p}
        /\ \A q \in Person : q # p => stream'[q] = stream[q]
    BY <1>1, <1>4
  <2>2. DOMAIN stream[p] = {} /\ stream'[p] # <<>>
    BY <1>4, <2>1
  <2>. QED  BY <1>4, <2>1, <2>2 DEF Grows
<1>5. ASSUME NEW type \in {"Linked", "Unlinked", "UnlinkFailed", "Deleted"}, NEW at \in Int
      PROVE  Row(type, at) \in RowType
  BY DEF Row, RowType
<1>6. ASSUME LinksToHappening(p), Puts(p, "Linked", c.at),
             links' = IF LinkThrows(p) THEN links ELSE [links EXCEPT ![p] = c.registration]
      PROVE  Puts(p, "Linked", c.at) /\ DOMAIN links' = DOMAIN links
  BY <1>6 DEF LinkThrows
<1>. HIDE DEF p
<1>7. CASE \/ Puts(p, "Linked", c.at) /\ DOMAIN links' = DOMAIN links
           \/ Puts(p, "Unlinked", clock) /\ DOMAIN links' = DOMAIN links
           \/ Puts(p, "UnlinkFailed", clock) /\ DOMAIN links' = DOMAIN links
           \/ Puts(p, "Deleted", clock) /\ DOMAIN links' = DOMAIN links
  <2>1. Grows /\ (\A q \in Person : q # p => stream'[q] = stream[q]) /\ stream'[p] # <<>>
    BY <1>1, <1>2, <1>5, <1>7
  <2>. QED  BY <1>7, <2>1 DEF p
<1>8. \/ stream' = stream /\ links' = links
      \/ /\ c.kind = "CreatePerson" /\ stream[p] = <<>>
         /\ stream' = [stream EXCEPT ![p] = <<Row("Created", c.at)>>]
         /\ links' = [q \in DOMAIN links \cup {p} |-> IF q = p THEN NoOne ELSE links[q]]
      \/ Puts(p, "Linked", c.at) /\ DOMAIN links' = DOMAIN links
      \/ Puts(p, "Unlinked", clock) /\ DOMAIN links' = DOMAIN links
      \/ Puts(p, "UnlinkFailed", clock) /\ DOMAIN links' = DOMAIN links
      \/ Puts(p, "Deleted", clock) /\ DOMAIN links' = DOMAIN links
  BY <1>6 DEF Effect, p
<1>. QED  BY <1>3, <1>4, <1>7, <1>8 DEF p

\* Only handling a command changes what the server knows, and time goes on.
LEMMA StepIs ==
    ASSUME TypeInv, [Next]_vars
    PROVE  /\ clock \in Nat /\ clock' \in Nat /\ clock <= clock'
           /\ \/ stream' = stream /\ links' = links /\ attended' = attended
              \/ clock' = clock /\ page' = page /\ people' = people
                 /\ \E c \in sent : HandleOf(c)
<1>1. clock \in Nat /\ clock' \in Nat
  BY NextTypes DEF TypeInv, PageTypes
<1>2. CASE Handle
  BY <1>1, <1>2, HandleIs DEF HandleOf
<1>3. CASE Tick
  BY <1>1, <1>3 DEF Tick, attendanceVars
<1>4. CASE Start
  BY <1>1, <1>4 DEF Start, StartHappening, adminVars
<1>5. CASE UNCHANGED vars
  BY <1>1, <1>5 DEF vars, adminVars, attendanceVars
<1>6. CASE SendLater \/ AskRegistrations \/ LoadRegistrations \/ Leave \/ Hear
           \/ LoadPeople \/ RefreshData \/ GiveDelete \/ OthersGive
  BY <1>1, <1>6 DEF SendLater, AskRegistrations, LoadRegistrations, Leave, Hear, LoadPeople,
                    RefreshData, GiveDelete, OthersGive, attendanceVars
<1>7. CASE \E r \in Registration :
              LinkToNewPerson(r) \/ LinkToExistingPerson(r) \/ Unlink(r) \/ Remove(r)
  BY <1>1, <1>7 DEF LinkToNewPerson, LinkToExistingPerson, Unlink, Remove, LinkTo, attendanceVars
<1>. QED  BY <1>2, <1>3, <1>4, <1>5, <1>6, <1>7 DEF Next

\* Every step only adds rows and people.
LEMMA StepGrows == ASSUME TypeInv, [Next]_vars PROVE Grows
<1>1. CASE stream' = stream /\ links' = links
  BY <1>1 DEF Grows
<1>2. ASSUME NEW c \in sent, HandleOf(c) PROVE Grows
  BY <1>2, EffectGrows DEF HandleOf, TypeInv, PageTypes
<1>. QED  BY <1>1, <1>2, StepIs

\* ListedCreated is kept: a creation puts its person and its row there at once.
LEMMA ListedNext ==
    ASSUME TypeInv, ListedCreated, StampedBefore, [Next]_vars
    PROVE  ListedCreated'
<1>. SUFFICES ASSUME NEW p \in DOMAIN links'
              PROVE  \E j \in DOMAIN stream'[p] :
                        /\ stream'[p][j].type = "Created"
                        /\ \E e \in Error : stream'[p][j].at <= clock' + e
  BY DEF ListedCreated, Error
<1>1. clock \in Nat /\ clock' \in Nat /\ clock <= clock'
  BY StepIs
<1>2. ServerTypes /\ ServerTypes' /\ p \in Person
  BY NextTypes DEF TypeInv, ServerTypes
<1>3. CASE p \in DOMAIN links
  <2>1. PICK j \in DOMAIN stream[p], e \in Error :
            stream[p][j].type = "Created" /\ stream[p][j].at <= clock + e
    BY <1>3 DEF ListedCreated
  <2>2. PICK k \in DOMAIN stream'[p] : stream'[p][k] = stream[p][j]
    BY <1>2, StepGrows DEF Grows
  <2>3. stream[p][j].at \in Int
    <3>1. stream[p] \in Seq(RowType)
      BY <1>2 DEF ServerTypes
    <3>2. stream[p][j] \in RowType
      BY <3>1
    <3>. QED  BY <3>2 DEF RowType
  <2>4. stream'[p][k].at <= clock' + e
    BY <1>1, <2>1, <2>2, <2>3, ErrorIs
  <2>. QED  BY <2>1, <2>2, <2>4
<1>4. CASE p \notin DOMAIN links
  <2>1. PICK c \in sent : HandleOf(c)
    BY <1>4, StepIs
  <2>2. clock' = clock
    BY <2>1 DEF HandleOf
  <2>3. /\ c.kind = "CreatePerson" /\ stream'[c.person] = <<Row("Created", c.at)>>
        /\ p = c.person
    <3>1. c \in CommandType /\ Effect(c)
      BY <2>1 DEF HandleOf, TypeInv, PageTypes
    <3>2. \/ DOMAIN links' = DOMAIN links
          \/ /\ c.kind = "CreatePerson"
             /\ stream'[c.person] = <<Row("Created", c.at)>>
             /\ DOMAIN links' = DOMAIN links \cup {c.person}
      BY <1>1, <1>2, <3>1, EffectGrows
    <3>. QED  BY <1>4, <3>2
  <2>4. PICK e \in Error : c.at <= clock + e
    BY <2>3 DEF StampedBefore
  <2>5. 1 \in DOMAIN stream'[p] /\ stream'[p][1] = Row("Created", c.at)
    BY <2>3
  <2>. QED  BY <2>2, <2>4, <2>5 DEF Row
<1>. QED  BY <1>3, <1>4

\* New commands: creations by this page, the links that waited, and others.
LEMMA SentIs ==
    ASSUME TypeInv, [Next]_vars, NEW c \in sent', c \notin sent
    PROVE  \/ /\ c.kind = "CreatePerson" /\ c.at = clock + estimate /\ c.since = clock
              /\ \E r \in Registration : LinkToNewPerson(r)
           \/ c.kind = "LinkPersonToHappening" /\ (SendLater \/ OthersGive)
           \/ c.kind = "UnlinkPersonFromHappening"
              /\ (OthersGive \/ \E r \in Registration : Unlink(r))
           \/ c.kind = "DeletePerson" /\ (OthersGive \/ GiveDelete)
<1>1. CASE SendLater
  <2>1. PICK l \in later : sent' = sent \cup {[l.command EXCEPT !.since = clock]}
    BY <1>1 DEF SendLater
  <2>2. l.command \in CommandType /\ l.command.kind = "LinkPersonToHappening"
    BY DEF TypeInv, PageTypes
  <2>3. c.kind = "LinkPersonToHappening"
    BY <2>1, <2>2 DEF CommandType
  <2>. QED  BY <1>1, <2>3
<1>2. CASE \E r \in Registration : LinkToNewPerson(r)
  <2>1. PICK r \in Registration : LinkToNewPerson(r)
    BY <1>2
  <2>2. c = Command("CreatePerson", page.newPerson[r], r)
    BY <2>1 DEF LinkToNewPerson
  <2>. QED  BY <1>2, <2>2 DEF Command, ServerTime
<1>3. CASE \E r \in Registration : Unlink(r)
  <2>1. PICK r \in Registration : Unlink(r)
    BY <1>3
  <2>2. c = Command("UnlinkPersonFromHappening", page.rows[r], r)
    BY <2>1 DEF Unlink
  <2>. QED  BY <1>3, <2>2 DEF Command
<1>4. CASE GiveDelete
  <2>1. PICK p : c = Command("DeletePerson", p, NoOne)
    BY <1>4 DEF GiveDelete
  <2>. QED  BY <1>4, <2>1 DEF Command
<1>5. CASE OthersGive
  <2>1. PICK kind \in Others, p \in DOMAIN links, r \in Registration :
            c = [Command(kind, p, r) EXCEPT !.at = IF kind = "LinkPersonToHappening"
                                              THEN clock - Delay + Lead ELSE clock]
    BY <1>5 DEF OthersGive
  <2>2. c.kind = kind
    BY <2>1 DEF Command
  <2>. QED  BY <1>5, <2>2, PageAssumption
<1>6. CASE Handle
  BY <1>6 DEF Handle
<1>7. CASE UNCHANGED vars
  BY <1>7 DEF vars, adminVars
<1>8. CASE Tick \/ AskRegistrations \/ LoadRegistrations \/ Leave \/ Hear \/ LoadPeople
           \/ RefreshData \/ Start
  BY <1>8 DEF Tick, AskRegistrations, LoadRegistrations, Leave, Hear, LoadPeople,
              RefreshData, Start, adminVars
<1>9. CASE \E r \in Registration : LinkToExistingPerson(r) \/ Remove(r)
  BY <1>9 DEF LinkToExistingPerson, Remove
<1>. QED  BY <1>1, <1>2, <1>3, <1>4, <1>5, <1>6, <1>7, <1>8, <1>9 DEF Next

\* A time that was past is past.
LEMMA Later == \A a, b, c \in Int : a <= b => a + c <= b + c
OBVIOUS

\* StampedBefore is kept.
LEMMA StampedNext ==
    ASSUME TypeInv, StampedBefore, [Next]_vars
    PROVE  StampedBefore'
<1>. SUFFICES ASSUME NEW d \in sent', d.kind = "CreatePerson"
              PROVE  \E e \in Error : d.at <= clock' + e
  BY DEF StampedBefore, Error
<1>1. clock \in Nat /\ clock' \in Nat /\ clock <= clock'
  BY StepIs
<1>2. CASE d \in sent
  <2>1. PICK e \in Error : d.at <= clock + e
    BY <1>2 DEF StampedBefore
  <2>2. d.at \in Int
    BY <1>2 DEF TypeInv, PageTypes, CommandType
  <2>. QED  BY <1>1, <2>1, <2>2, ErrorIs
<1>3. CASE d \notin sent
  <2>1. d.at = clock + estimate
    BY <1>3, SentIs
  <2>2. estimate \in Error
    BY DEF TypeInv, PageTypes
  <2>3. estimate \in Int
    BY <2>2, ErrorIs
  <2>4. clock' \in Int /\ clock \in Int /\ clock <= clock'
    BY <1>1
  <2>5. d.at <= clock' + estimate
    BY ONLY <2>1, <2>3, <2>4, Later
  <2>. QED  BY <2>2, <2>5
<1>. QED  BY <1>2, <1>3

\* OfferedListed is kept: the pages show what the lists had.
LEMMA OfferedNext ==
    ASSUME TypeInv, OfferedListed, [Next]_vars
    PROVE  OfferedListed'
<1>1. DOMAIN links \subseteq DOMAIN links'
  BY StepGrows DEF Grows
<1>. SUFFICES /\ page'.available \cup page'.offered \subseteq DOMAIN links
              /\ people'.shown \subseteq DOMAIN links
  BY <1>1 DEF OfferedListed
<1>. USE DEF OfferedListed
<1>2. CASE UNCHANGED <<page, people>>
  BY <1>2
<1>3. CASE AskRegistrations
  <2>1. page' = RegistrationRows(loads') /\ people' = people
    BY <1>3 DEF AskRegistrations
  <2>. QED  BY <2>1 DEF RegistrationRows
<1>4. CASE LoadRegistrations
  <2>1. page' = [page EXCEPT !.state = "open", !.available = LinkPeople, !.offered = LinkPeople]
        /\ people' = people
    BY <1>4 DEF LoadRegistrations
  <2>2. page \in PageType
    BY DEF TypeInv, PageTypes
  <2>. QED  BY <2>1, <2>2 DEF LinkPeople, PageType
<1>5. CASE Leave
  BY <1>5 DEF Leave, Closed, NotLoaded
<1>6. CASE \E r \in Registration : LinkToNewPerson(r) \/ LinkToExistingPerson(r)
  <2>1. PICK r, p : r \in Registration /\ LinkTo(r, p)
    BY <1>6 DEF LinkToNewPerson, LinkToExistingPerson
  <2>2. page' = [page EXCEPT !.rows[r] = p] /\ people' = people
    BY <2>1 DEF LinkTo
  <2>3. page \in PageType
    BY DEF TypeInv, PageTypes
  <2>. QED  BY <2>2, <2>3 DEF PageType
<1>7. CASE \E r \in Registration : Unlink(r) \/ Remove(r)
  <2>1. page \in PageType
    BY DEF TypeInv, PageTypes
  <2>. QED  BY <1>7, <2>1 DEF Unlink, Remove, PageType
<1>8. CASE Hear
  <2>1. page \in PageType
    BY DEF TypeInv, PageTypes
  <2>. QED  BY <1>8, <2>1 DEF Hear, PageType
<1>9. CASE LoadPeople
  <2>1. page' = page /\ people'.shown = DOMAIN attended
    BY <1>9 DEF LoadPeople
  <2>. QED  BY <2>1 DEF TypeInv, ServerTypes
<1>10. CASE RefreshData \/ GiveDelete
  <2>1. people \in PeopleType
    BY DEF TypeInv, PageTypes
  <2>. QED  BY <1>10, <2>1 DEF RefreshData, GiveDelete, PeopleType
<1>11. CASE Tick \/ SendLater \/ OthersGive \/ Handle \/ Start \/ UNCHANGED vars
  BY <1>2, <1>11 DEF Tick, SendLater, OthersGive, Handle, Start, vars, adminVars
<1>. QED  BY <1>2, <1>3, <1>4, <1>5, <1>6, <1>7, <1>8, <1>9, <1>10, <1>11 DEF Next

-----------------------------------------------------------------------------
(* What each step makes of it.                                             *)

\* Who may be linked may be linked later.
LEMMA ReadyNext ==
    ASSUME Grows, NEW c \in CommandType, LinkReady(c)
    PROVE  LinkReady(c)'
<1>1. c.person \in Person
  BY DEF CommandType
<1>2. PICK j \in DOMAIN stream[c.person] :
          stream[c.person][j].type = "Created" /\ stream[c.person][j].at < c.at
  BY DEF LinkReady, HasCreated
<1>3. PICK k \in DOMAIN stream'[c.person] : stream'[c.person][k] = stream[c.person][j]
  BY <1>1 DEF Grows
<1>4. c.person \in DOMAIN links'
  BY DEF LinkReady, Grows
<1>. QED  BY <1>2, <1>3, <1>4 DEF LinkReady, HasCreated

\* Nothing happens to people and commands.
LEMMA QuietSent ==
    ASSUME SentInv, UNCHANGED <<stream, links, sent, clock>>
    PROVE  SentInv' /\ Creations' = Creations
<1>1. Creations' = Creations
  BY DEF Creations
<1>2. InTime' /\ OneCreation'
  BY <1>1 DEF SentInv, InTime, OneCreation
<1>3. NothingBefore' /\ UndoneCreated'
  BY DEF SentInv, NothingBefore, UndoneCreated
<1>4. SentReady'
  BY DEF SentInv, SentReady, LinkReady, HasCreated
<1>5. AllLinkedLast'
  BY DEF SentInv, AllLinkedLast, LinkedLast
<1>. QED  BY <1>1, <1>2, <1>3, <1>4, <1>5 DEF SentInv

\* A command is given that is no creation, about somebody who is there.
LEMMA MoreSent ==
    ASSUME SentInv, UNCHANGED <<stream, links, clock>>, NEW c, sent' = sent \cup {c},
           c.kind # "CreatePerson",
           c.kind = "LinkPersonToHappening" => LinkReady(c),
           c.kind \in {"UnlinkPersonFromHappening", "DeletePerson"} => c.person \in DOMAIN links
    PROVE  SentInv' /\ Creations' = Creations
<1>1. Creations' = Creations
  BY DEF Creations
<1>2. InTime' /\ OneCreation'
  BY <1>1 DEF SentInv, InTime, OneCreation
<1>3. NothingBefore' /\ UndoneCreated'
  BY DEF SentInv, NothingBefore, UndoneCreated
<1>4. SentReady'
  <2>1. \A d : LinkReady(d) => LinkReady(d)'
    BY DEF LinkReady, HasCreated
  <2>2. SUFFICES ASSUME NEW d \in sent', d.kind = "LinkPersonToHappening" PROVE LinkReady(d)
    BY <2>1 DEF SentReady
  <2>. QED  BY <2>2 DEF SentInv, SentReady
<1>5. AllLinkedLast'
  BY DEF SentInv, AllLinkedLast, LinkedLast
<1>. QED  BY <1>1, <1>2, <1>3, <1>4, <1>5 DEF SentInv

\* Nothing happens to the page.
LEMMA QuietRows ==
    ASSUME RowsInv, Creations' = Creations, UNCHANGED <<stream, links, page, loads>>,
           later' \subseteq later
    PROVE  RowsInv'
<1>1. RowOwns'
  BY DEF RowsInv, RowOwns
<1>2. RowsCreated'
  BY DEF RowsInv, RowsCreated
<1>3. LaterReady'
  <2>1. \A d : LinkReady(d) => LinkReady(d)'
    BY DEF LinkReady, HasCreated
  <2>. QED  BY <2>1 DEF RowsInv, LaterReady
<1>. QED  BY <1>1, <1>2, <1>3 DEF RowsInv

\* Who is listed may be linked by what is stamped now.
LEMMA ListedReady ==
    ASSUME ClocksHold, TypeInv, ListedCreated, NEW c \in CommandType,
           c.person \in DOMAIN links,
           \/ \E f \in Error : c.at = clock + f + Lead
           \/ c.at = clock - Delay + Lead
    PROVE  LinkReady(c)
<1>. DEFINE p == c.person
<1>1. p \in Person /\ c.at \in Int /\ clock \in Int /\ Delay \in Int /\ Lead \in Int
  BY PageAssumption DEF CommandType, TypeInv, PageTypes
<1>2. PICK j \in DOMAIN stream[p], e \in Error :
          stream[p][j].type = "Created" /\ stream[p][j].at <= clock + e
  BY DEF ListedCreated
<1>3. stream[p][j].at \in Int
  <2>1. stream[p] \in Seq(RowType)
    BY <1>1 DEF TypeInv, ServerTypes
  <2>2. stream[p][j] \in RowType
    BY <2>1
  <2>. QED  BY <2>2 DEF RowType
<1>4. e \in Int
  BY ErrorIs
<1>. DEFINE at == stream[p][j].at
<1>. HIDE DEF at
<1>5. at \in Int /\ at <= clock + e
  BY <1>2, <1>3 DEF at
<1>6. at < c.at
  <2>1. CASE \E f \in Error : c.at = clock + f + Lead
    <3>1. PICK f \in Error : c.at = clock + f + Lead
      BY <2>1
    <3>2. e - f < Lead /\ f \in Int
      BY ErrorIs DEF ClocksHold
    <3>. QED  BY <1>1, <1>4, <1>5, <3>1, <3>2
  <2>2. CASE c.at = clock - Delay + Lead
    <3>1. e < Lead - Delay
      BY DEF ClocksHold
    <3>. QED  BY <1>1, <1>4, <1>5, <2>2, <3>1
  <2>. QED  BY <2>1, <2>2
<1>. QED  BY <1>2, <1>6 DEF LinkReady, HasCreated, at

\* Time goes on: a creation that would be too late would be known to be.
LEMMA TickCreated ==
    ASSUME TypeInv, SentInv, RowsInv, Tick, Calm'
    PROVE  SentInv' /\ RowsInv'
<1>1. UNCHANGED <<stream, links, sent, later, page, loads>> /\ clock' = clock + 1
  BY DEF Tick, attendanceVars
<1>2. Creations' = Creations
  BY <1>1 DEF Creations
<1>3. ASSUME NEW d \in Creations PROVE clock' <= d.since + Within
  <2>1. ~Fails(d) /\ d \in sent
    BY DEF Creations, Fails, CreateFails
  <2>2. ~(clock' - d.since > Within)
    BY <2>1 DEF Tick, Calm
  <2>3. d.since \in Int /\ clock' \in Int /\ Within \in Int
    BY <1>1, <2>1, PageAssumption DEF TypeInv, PageTypes, CommandType
  <2>. QED  BY <2>2, <2>3
<1>4. InTime'
  BY <1>2, <1>3, <1>1 DEF InTime
<1>5. OneCreation'
  BY <1>2 DEF SentInv, OneCreation
<1>6. NothingBefore' /\ UndoneCreated'
  BY <1>1 DEF SentInv, NothingBefore, UndoneCreated
<1>7. SentReady'
  BY <1>1 DEF SentInv, SentReady, LinkReady, HasCreated
<1>8. AllLinkedLast'
  BY <1>1 DEF SentInv, AllLinkedLast, LinkedLast
<1>9. RowsInv'
  BY <1>1, <1>2, QuietRows
<1>. QED  BY <1>4, <1>5, <1>6, <1>7, <1>8, <1>9 DEF SentInv

\* When the timer of a link fires, the creation that it waits for has been handled.
LEMMA SendCreated ==
    ASSUME ClocksHold, TypeInv, SentInv, RowsInv, SendLater
    PROVE  SentInv' /\ RowsInv'
<1>1. PICK l \in later : /\ l.due <= clock
                         /\ later' = later \ {l}
                         /\ sent' = sent \cup {[l.command EXCEPT !.since = clock]}
  BY DEF SendLater
<1>2. UNCHANGED <<stream, links, clock, page, loads>>
  BY DEF SendLater, attendanceVars
<1>. DEFINE c == [l.command EXCEPT !.since = clock]
<1>3. l.command \in CommandType /\ l.due \in Int /\ clock \in Int
      /\ l.command.kind = "LinkPersonToHappening"
  BY DEF TypeInv, PageTypes
<1>4. c.kind = "LinkPersonToHappening" /\ c.person = l.command.person /\ c.at = l.command.at
  BY <1>3 DEF CommandType
<1>5. LinkReady(l.command)
  <2>1. SUFFICES ASSUME NEW d \in Creations, WaitsFor(l, d) PROVE FALSE
    BY DEF RowsInv, LaterReady
  <2>2. d.since \in Int /\ Delay \in Int /\ Within \in Int
    BY PageAssumption DEF Creations, TypeInv, PageTypes, CommandType
  <2>3. clock <= d.since + Within /\ d.since + Delay <= l.due /\ Within < Delay
    BY <2>1 DEF SentInv, InTime, WaitsFor, ClocksHold
  <2>. QED  BY <1>1, <1>3, <2>2, <2>3
<1>. HIDE DEF c
<1>6. LinkReady(c)
  BY <1>4, <1>5 DEF LinkReady
<1>7. SentInv' /\ Creations' = Creations
  <2>1. sent' = sent \cup {c}
    BY <1>1 DEF c
  <2>. QED  BY <1>2, <1>4, <1>6, <2>1, MoreSent
<1>8. RowsInv'
  BY <1>1, <1>2, <1>7, QuietRows
<1>. QED  BY <1>7, <1>8

\* A new answer shows who is listed, and nothing waits while there is no page.
LEMMA AskCreated ==
    ASSUME TypeInv, SentInv, RowsInv, AskRegistrations
    PROVE  SentInv' /\ RowsInv'
<1>1. /\ page.state = "closed" /\ loads' = loads + 1 /\ loads < MaxLoads
      /\ page' = RegistrationRows(loads')
      /\ UNCHANGED <<stream, links, clock, sent, later>>
  BY DEF AskRegistrations, attendanceVars
<1>2. loads \in Nat /\ loads' \in 1 .. MaxLoads /\ later' = {}
  BY <1>1, PageAssumption DEF TypeInv, PageTypes
<1>3. SentInv' /\ Creations' = Creations
  BY <1>1, QuietSent
<1>4. RowOwns'
  <2>1. SUFFICES ASSUME NEW d \in Creations
                 PROVE  \E n \in 1 .. loads', r \in Registration :
                           d.person = NewPerson[n][r] /\ n # loads'
    BY <1>3 DEF RowOwns
  <2>2. PICK n \in 1 .. loads, r \in Registration : d.person = NewPerson[n][r]
    BY DEF RowsInv, RowOwns
  <2>3. n \in 1 .. loads' /\ n # loads'
    BY <1>1, <1>2
  <2>. QED  BY <2>2, <2>3
<1>5. RowsCreated'
  <2>1. \A r \in DOMAIN page'.rows : page'.rows[r] = NoOne \/ page'.rows[r] \in LinkedBy(r)
    BY <1>1, <1>2, AnswerIs
  <2>2. \A r \in DOMAIN page'.rows : page'.rows[r] # NoOne => page'.rows[r] \in DOMAIN links
    BY <2>1 DEF LinkedBy
  <2>. QED  BY <1>1, <2>2 DEF RowsCreated
<1>6. LaterReady'
  BY <1>2 DEF LaterReady
<1>. QED  BY <1>3, <1>4, <1>5, <1>6 DEF RowsInv

\* The page that is left has no rows.
LEMMA LeaveCreated ==
    ASSUME TypeInv, SentInv, RowsInv, Leave
    PROVE  SentInv' /\ RowsInv'
<1>1. page' = Closed /\ later' = {} /\ UNCHANGED <<stream, links, clock, sent, loads>>
  BY DEF Leave, attendanceVars
<1>2. SentInv' /\ Creations' = Creations
  BY <1>1, QuietSent
<1>3. page'.state = "closed" /\ DOMAIN page'.rows = {}
  BY <1>1 DEF Closed
<1>4. RowOwns'
  BY <1>1, <1>2, <1>3 DEF RowsInv, RowOwns
<1>5. RowsCreated' /\ LaterReady'
  BY <1>1, <1>3 DEF RowsCreated, LaterReady
<1>. QED  BY <1>2, <1>4, <1>5 DEF RowsInv

\* The rows stay, or one without a person goes.
LEMMA RowsStay ==
    ASSUME TypeInv, SentInv, RowsInv,
           UNCHANGED <<stream, links, clock, sent, later, loads>>,
           page'.state = "closed" <=> page.state = "closed",
           DOMAIN page'.rows \subseteq DOMAIN page.rows,
           \A r \in DOMAIN page.rows :
              \/ r \in DOMAIN page'.rows /\ page'.rows[r] = page.rows[r]
              \/ page.rows[r] = NoOne,
           \A r \in DOMAIN page'.rows : page'.rows[r] = page.rows[r]
    PROVE  SentInv' /\ RowsInv'
<1>1. SentInv' /\ Creations' = Creations
  BY QuietSent
<1>2. RowOwns'
  <2>1. SUFFICES ASSUME NEW d \in Creations
                 PROVE  \E n \in 1 .. loads, r \in Registration :
                           /\ d.person = NewPerson[n][r]
                           /\ n = loads /\ page'.state # "closed" =>
                                 r \in DOMAIN page'.rows /\ page'.rows[r] = d.person
    BY <1>1 DEF RowOwns
  <2>2. PICK n \in 1 .. loads, r \in Registration :
            /\ d.person = NewPerson[n][r]
            /\ n = loads /\ page.state # "closed" => r \in DOMAIN page.rows /\ page.rows[r] = d.person
    BY DEF RowsInv, RowOwns
  <2>3. d.person # NoOne
    BY ExistingAssumption DEF Creations, TypeInv, PageTypes, CommandType
  <2>. QED  BY <2>2, <2>3
<1>3. RowsCreated'
  BY <1>1 DEF RowsInv, RowsCreated
<1>4. LaterReady'
  <2>1. \A d : LinkReady(d) => LinkReady(d)'
    BY DEF LinkReady, HasCreated
  <2>. QED  BY <1>1, <2>1 DEF RowsInv, LaterReady
<1>. QED  BY <1>1, <1>2, <1>3, <1>4 DEF RowsInv

\* A row is linked to somebody who is listed, or whose creation has just been given.
LEMMA LinkCreated ==
    ASSUME ClocksHold, TypeInv, ListedCreated, SentInv, RowsInv,
           NEW r \in Registration, NEW p \in Person, CanLink(r), LinkTo(r, p),
           Creations \subseteq Creations',
           \A d \in Creations' : d \in Creations \/
              /\ d.person = p /\ p = NewPerson[loads][r]
              /\ d.at = clock + estimate /\ d.since = clock,
           p \in DOMAIN links \/ \E d \in Creations' \ Creations : TRUE
    PROVE  RowsInv'
<1>. DEFINE c == Stamped(Command("LinkPersonToHappening", p, r))
            l == [command |-> c, due |-> clock + Delay]
<1>1. /\ c \in CommandType /\ c.person = p /\ c.at = clock + estimate + Lead
      /\ later' = later \cup {l}
      /\ r \in DOMAIN page.rows /\ page.rows[r] = NoOne
      /\ page' = [page EXCEPT !.rows[r] = p]
      /\ page.state = "open" /\ page'.state = "open"
      /\ UNCHANGED <<stream, links, clock, estimate, loads>>
  BY LinkToIs
<1>2. l.command = c /\ l.due = clock + Delay
  OBVIOUS
<1>. HIDE DEF c, l
<1>3. /\ DOMAIN page'.rows = DOMAIN page.rows /\ page'.rows[r] = p
      /\ \A s \in DOMAIN page.rows : s # r => page'.rows[s] = page.rows[s]
  BY <1>1, RowSet DEF TypeInv
<1>4. loads \in 1 .. MaxLoads /\ loads \in Nat /\ estimate \in Error /\ clock \in Int
      /\ estimate \in Int
  BY <1>1, ErrorIs, PageAssumption DEF TypeInv, PageTypes
<1>5. RowOwns'
  <2>1. SUFFICES ASSUME NEW d \in Creations'
                 PROVE  \E n \in 1 .. loads, s \in Registration :
                           /\ d.person = NewPerson[n][s]
                           /\ n = loads => s \in DOMAIN page.rows /\ page'.rows[s] = d.person
    BY <1>1, <1>3 DEF RowOwns
  <2>2. CASE d \in Creations
    <3>1. PICK n \in 1 .. loads, s \in Registration :
              /\ d.person = NewPerson[n][s]
              /\ n = loads => s \in DOMAIN page.rows /\ page.rows[s] = d.person
      BY <1>1, <2>2 DEF RowsInv, RowOwns
    <3>2. d.person # NoOne
      BY <2>2, ExistingAssumption DEF Creations, TypeInv, PageTypes, CommandType
    <3>. QED  BY <1>1, <1>3, <3>1, <3>2
  <2>3. CASE d \notin Creations
    BY <1>1, <1>3, <1>4, <2>3
  <2>. QED  BY <2>2, <2>3
<1>6. RowsCreated'
  <2>1. SUFFICES ASSUME NEW s \in DOMAIN page.rows, page'.rows[s] # NoOne
                 PROVE  \/ page'.rows[s] \in DOMAIN links
                        \/ \E d \in Creations' : d.person = page'.rows[s]
    BY <1>1, <1>3 DEF RowsCreated
  <2>2. CASE s = r
    BY <1>3, <2>2
  <2>3. CASE s # r
    BY <1>3, <2>1, <2>3 DEF RowsInv, RowsCreated
  <2>. QED  BY <2>2, <2>3
<1>7. LaterReady'
  <2>1. \A d : LinkReady(d) => LinkReady(d)'
    BY <1>1 DEF LinkReady, HasCreated
  <2>2. SUFFICES ASSUME NEW k \in later'
                 PROVE  LinkReady(k.command) \/ \E d \in Creations' : WaitsFor(k, d)
    BY <2>1 DEF LaterReady
  <2>3. CASE k \in later
    BY <2>3 DEF RowsInv, LaterReady
  <2>4. CASE k = l /\ p \in DOMAIN links
    BY <1>1, <1>2, <1>4, <2>4, ListedReady
  <2>5. CASE k = l /\ \E d \in Creations' \ Creations : TRUE
    <3>1. PICK d \in Creations' : d \notin Creations
      BY <2>5
    <3>2. d.person = p /\ d.at = clock + estimate /\ d.since = clock
      BY <3>1
    <3>3. 0 < Lead /\ Lead \in Int /\ Delay \in Int
      <4>1. 0 \in Error /\ Lead \in Int /\ Delay \in Int
        BY PageAssumption DEF Error
      <4>2. 0 - 0 < Lead
        BY <4>1 DEF ClocksHold
      <4>. QED  BY <4>1, <4>2
    <3>4. d.at < c.at /\ d.since + Delay <= l.due
      BY <1>1, <1>2, <1>4, <3>2, <3>3
    <3>5. WaitsFor(k, d)
      BY <1>1, <1>2, <2>5, <3>2, <3>4 DEF WaitsFor
    <3>. QED  BY <3>5
  <2>. QED  BY <1>1, <2>3, <2>4, <2>5
<1>. QED  BY <1>5, <1>6, <1>7 DEF RowsInv

\* Linking somebody whom the page offers, who is listed.
LEMMA ExistingCreated ==
    ASSUME ClocksHold, TypeInv, ListedCreated, OfferedListed, SentInv, RowsInv,
           NEW r \in Registration, LinkToExistingPerson(r)
    PROVE  SentInv' /\ RowsInv'
<1>1. PICK p \in Offered(r) : LinkTo(r, p)
  BY DEF LinkToExistingPerson
<1>2. CanLink(r) /\ sent' = sent
  BY DEF LinkToExistingPerson
<1>3. p \in DOMAIN links /\ p \in Person
  BY DEF Offered, OfferedListed, TypeInv, ServerTypes
<1>4. UNCHANGED <<stream, links, clock>>
  BY <1>1 DEF LinkTo, attendanceVars
<1>5. SentInv' /\ Creations' = Creations
  BY <1>2, <1>4, QuietSent
<1>6. RowsInv'
  BY <1>1, <1>2, <1>3, <1>5, LinkCreated
<1>. QED  BY <1>5, <1>6

\* Nobody is created twice: the barcode has been drawn for this row.
LEMMA NewCreated ==
    ASSUME ClocksHold, TypeInv, ListedCreated, SentInv, RowsInv,
           NEW r \in Registration, LinkToNewPerson(r)
    PROVE  SentInv' /\ RowsInv'
<1>. DEFINE p == page.newPerson[r]
            d == Command("CreatePerson", p, r)
<1>1. CanLink(r) /\ LinkTo(r, p) /\ sent' = sent \cup {d}
  BY DEF LinkToNewPerson
<1>2. UNCHANGED <<stream, links, clock, estimate, loads>>
  BY <1>1 DEF LinkTo, attendanceVars
<1>3. loads \in 1 .. MaxLoads /\ page.newPerson = NewPerson[loads] /\ page.state = "open"
      /\ page.rows[r] = NoOne
  BY <1>1 DEF CanLink, TypeInv, PageTypes
<1>4. p \in Person /\ p # NoOne /\ p = NewPerson[loads][r]
  BY <1>3, PageAssumption, ExistingAssumption
<1>5. /\ d \in CommandType /\ d.kind = "CreatePerson" /\ d.person = p
      /\ d.since = clock /\ d.at = clock + estimate
  BY <1>4, CommandIs DEF Kind, TypeInv
<1>. HIDE DEF p, d
<1>6. ASSUME NEW e \in Creations PROVE e.person # p
  <2>1. PICK n \in 1 .. loads, s \in Registration :
            /\ e.person = NewPerson[n][s]
            /\ n = loads /\ page.state # "closed" =>
                  s \in DOMAIN page.rows /\ page.rows[s] = e.person
    BY DEF RowsInv, RowOwns
  <2>2. n \in 1 .. MaxLoads
    BY <1>3, PageAssumption
  <2>3. e.person = p => n = loads /\ s = r
    <3>1. NewPerson[n][s] = NewPerson[loads][r] => n = loads /\ s = r
      BY <1>3, <2>2, NewPersonAssumption
    <3>. QED  BY <1>4, <2>1, <3>1
  <2>. QED  BY <1>3, <1>4, <2>1, <2>3
<1>7. Creations' = IF stream[p] = <<>> THEN Creations \cup {d} ELSE Creations
  BY <1>1, <1>2, <1>5 DEF Creations
<1>8. InTime'
  <2>1. clock <= d.since + Within
    BY <1>5, PageAssumption DEF TypeInv, PageTypes
  <2>. QED  BY <1>2, <1>7, <2>1 DEF SentInv, InTime
<1>9. OneCreation'
  BY <1>5, <1>6, <1>7 DEF SentInv, OneCreation
<1>10. NothingBefore' /\ UndoneCreated'
  BY <1>1, <1>2, <1>5 DEF SentInv, NothingBefore, UndoneCreated
<1>11. SentReady'
  <2>1. \A e : LinkReady(e) => LinkReady(e)'
    BY <1>2 DEF LinkReady, HasCreated
  <2>2. SUFFICES ASSUME NEW e \in sent', e.kind = "LinkPersonToHappening" PROVE LinkReady(e)
    BY <2>1 DEF SentReady
  <2>. QED  BY <1>1, <1>5, <2>2 DEF SentInv, SentReady
<1>12. AllLinkedLast'
  BY <1>2 DEF SentInv, AllLinkedLast, LinkedLast
<1>13. RowsInv'
  <2>1. p \in DOMAIN links \/ \E e \in Creations' \ Creations : TRUE
    <3>1. p \in DOMAIN links \/ stream[p] = <<>>
      BY <1>4 DEF SentInv, NothingBefore
    <3>2. d \notin Creations
      BY <1>5, <1>6
    <3>. QED  BY <1>7, <3>1, <3>2
  <2>2. Creations \subseteq Creations'
    BY <1>7
  <2>3. \A e \in Creations' : e \in Creations \/
            /\ e.person = p /\ p = NewPerson[loads][r]
            /\ e.at = clock + estimate /\ e.since = clock
    BY <1>4, <1>5, <1>7
  <2>. QED  BY <1>1, <1>4, <2>1, <2>2, <2>3, LinkCreated
<1>. QED  BY <1>8, <1>9, <1>10, <1>11, <1>12, <1>13 DEF SentInv

\* Who is unlinked has been created, unless the page was too quick.
LEMMA UnlinkCreated ==
    ASSUME TypeInv, SentInv, RowsInv, NEW r \in Registration, Unlink(r), Calm'
    PROVE  SentInv' /\ RowsInv'
<1>. DEFINE p == page.rows[r]
            c == Command("UnlinkPersonFromHappening", p, r)
<1>1. /\ r \in DOMAIN page.rows /\ p # NoOne /\ page.state = "open"
      /\ sent' = sent \cup {c} /\ past' = past \cup HastyWith(p)
      /\ page' = [page EXCEPT !.rows[r] = NoOne]
      /\ UNCHANGED <<stream, links, clock, later, loads>>
  BY DEF Unlink, attendanceVars
<1>2. p \in Person
  BY <1>1, RowsAre DEF TypeInv, PageTypes, PageType
<1>3. /\ page'.state = page.state /\ DOMAIN page'.rows = DOMAIN page.rows
      /\ page'.rows[r] = NoOne
      /\ \A s \in DOMAIN page.rows : s # r => page'.rows[s] = page.rows[s]
  BY <1>1, RowSet DEF TypeInv
<1>4. c.kind = "UnlinkPersonFromHappening" /\ c.person = p
  BY <1>2, CommandIs DEF Kind, TypeInv
<1>5. \A d \in sent : d.person # p
  BY <1>1 DEF HastyWith, Calm
<1>6. \A d \in Creations : d.person # p
  BY <1>5 DEF Creations
<1>7. p \in DOMAIN links
  BY <1>1, <1>6 DEF RowsInv, RowsCreated
<1>. HIDE DEF c
<1>8. SentInv' /\ Creations' = Creations
  BY <1>1, <1>4, <1>7, MoreSent
<1>9. RowOwns'
  <2>1. SUFFICES ASSUME NEW d \in Creations
                 PROVE  \E n \in 1 .. loads, s \in Registration :
                           /\ d.person = NewPerson[n][s]
                           /\ n = loads => s \in DOMAIN page.rows /\ page'.rows[s] = d.person
    BY <1>1, <1>3, <1>8 DEF RowOwns
  <2>2. PICK n \in 1 .. loads, s \in Registration :
            /\ d.person = NewPerson[n][s]
            /\ n = loads => s \in DOMAIN page.rows /\ page.rows[s] = d.person
    BY <1>1 DEF RowsInv, RowOwns
  <2>. QED  BY <1>3, <1>6, <2>2
<1>10. RowsCreated'
  BY <1>1, <1>3, <1>8 DEF RowsInv, RowsCreated
<1>11. LaterReady'
  <2>1. \A d : LinkReady(d) => LinkReady(d)'
    BY <1>1 DEF LinkReady, HasCreated
  <2>. QED  BY <1>1, <1>8, <2>1 DEF RowsInv, LaterReady
<1>. QED  BY <1>8, <1>9, <1>10, <1>11 DEF RowsInv

\* Who is deleted is listed.
LEMMA DeleteCreated ==
    ASSUME TypeInv, OfferedListed, SentInv, RowsInv, GiveDelete
    PROVE  SentInv' /\ RowsInv'
<1>1. PICK p \in people.shown : sent' = sent \cup {Command("DeletePerson", p, NoOne)}
  BY DEF GiveDelete
<1>2. UNCHANGED <<stream, links, clock, later, page, loads>>
  BY DEF GiveDelete, attendanceVars
<1>3. p \in DOMAIN links
  BY DEF OfferedListed
<1>. DEFINE c == Command("DeletePerson", p, NoOne)
<1>4. c.kind = "DeletePerson" /\ c.person = p
  BY DEF Command
<1>5. sent' = sent \cup {c}
  BY <1>1
<1>. HIDE DEF c
<1>6. SentInv' /\ Creations' = Creations
  BY <1>2, <1>3, <1>4, <1>5, MoreSent
<1>. QED  BY <1>2, <1>6, QuietRows

\* Other administrators are about people who are listed.
LEMMA OthersCreated ==
    ASSUME ClocksHold, TypeInv, ListedCreated, SentInv, RowsInv, OthersGive
    PROVE  SentInv' /\ RowsInv'
<1>1. PICK kind \in Others, p \in DOMAIN links, r \in Registration :
          sent' = sent \cup {[Command(kind, p, r) EXCEPT
                                 !.at = IF kind = "LinkPersonToHappening"
                                          THEN clock - Delay + Lead ELSE clock]}
  BY DEF OthersGive
<1>2. UNCHANGED <<stream, links, clock, later, page, loads>>
  BY DEF OthersGive, attendanceVars
<1>. DEFINE at == IF kind = "LinkPersonToHappening" THEN clock - Delay + Lead ELSE clock
            c == [Command(kind, p, r) EXCEPT !.at = at]
<1>3. /\ kind \in Kind /\ kind # "CreatePerson" /\ p \in Person
      /\ r \in Registration \cup {NoOne} /\ at \in Int
  BY PageAssumption DEF TypeInv, ServerTypes, PageTypes, Kind
<1>4. Command(kind, p, r) \in CommandType /\ Command(kind, p, r).kind = kind
      /\ Command(kind, p, r).person = p
  BY <1>3, CommandIs DEF TypeInv
<1>. HIDE DEF at
<1>5. c \in CommandType /\ c.kind = kind /\ c.person = p /\ c.at = at
  BY <1>3, <1>4 DEF CommandType
<1>6. sent' = sent \cup {c}
  BY <1>1 DEF at
<1>. HIDE DEF c
<1>7. kind = "LinkPersonToHappening" => LinkReady(c)
  <2>1. kind = "LinkPersonToHappening" => at = clock - Delay + Lead
    BY DEF at
  <2>. QED  BY <1>5, <2>1, ListedReady
<1>8. SentInv' /\ Creations' = Creations
  BY <1>2, <1>3, <1>5, <1>6, <1>7, MoreSent
<1>. QED  BY <1>2, <1>8, QuietRows

\* Only a creation is handled before there is somebody.
LEMMA Doer ==
    ASSUME TypeInv, SentInv, NEW c \in sent, c.kind # "CreatePerson"
    PROVE  c.person \in DOMAIN links
BY DEF TypeInv, PageTypes, CommandType, Kind, SentInv, UndoneCreated, SentReady, LinkReady

\* A creation that is over has been handled.
LEMMA CreationOver ==
    ASSUME TypeInv, ListedCreated, SentInv, NEW c \in sent, HandleOf(c),
           NEW d \in Creations, d \notin Creations'
    PROVE  d.person \in DOMAIN links' /\ stream'[d.person] = <<Row("Created", d.at)>>
<1>1. /\ d \in sent /\ d.kind = "CreatePerson" /\ stream[d.person] = <<>>
      /\ d.person \in Person /\ c \in CommandType /\ clock \in Nat
  BY DEF Creations, TypeInv, PageTypes, CommandType
<1>2. /\ \A q \in Person : q # c.person => stream'[q] = stream[q]
      /\ \/ DOMAIN links' = DOMAIN links
         \/ /\ c.kind = "CreatePerson" /\ stream[c.person] = <<>>
            /\ stream'[c.person] = <<Row("Created", c.at)>>
            /\ DOMAIN links' = DOMAIN links \cup {c.person}
  BY <1>1, EffectGrows DEF HandleOf, TypeInv
<1>3. d # c => d \in sent'
  BY <1>1 DEF HandleOf
<1>4. c.person = d.person
  <2>1. SUFFICES ASSUME c.person # d.person PROVE FALSE
    OBVIOUS
  <2>2. d \in sent' /\ stream'[d.person] = <<>>
    BY <1>1, <1>2, <1>3, <2>1
  <2>. QED  BY <1>1, <2>2 DEF Creations
<1>5. c.kind = "CreatePerson"
  <2>1. SUFFICES ASSUME c.kind # "CreatePerson" PROVE FALSE
    OBVIOUS
  <2>2. d.person \in DOMAIN links
    BY <1>4, <2>1, Doer
  <2>3. \E j \in DOMAIN stream[d.person] : TRUE
    BY <2>2 DEF ListedCreated
  <2>. QED  BY <1>1, <2>3
<1>6. c = d
  <2>1. c \in Creations
    BY <1>1, <1>4, <1>5 DEF Creations
  <2>. QED  BY <1>4, <2>1 DEF SentInv, OneCreation
<1>7. ~(stream' = stream /\ links' = links)
  BY <1>1, <1>4, <1>5 DEF HandleOf, CreateFails
<1>8. /\ stream' = [stream EXCEPT ![c.person] = <<Row("Created", c.at)>>]
      /\ links' = [q \in DOMAIN links \cup {c.person} |->
                     IF q = c.person THEN NoOne ELSE links[q]]
  BY <1>5, <1>7 DEF HandleOf, Effect
<1>9. d.person \in DOMAIN links'
  BY <1>4, <1>8
<1>10. stream \in [Person -> Seq(RowType)]
  BY DEF TypeInv, ServerTypes
<1>11. stream'[d.person] = <<Row("Created", d.at)>>
  BY <1>1, <1>6, <1>8, <1>10
<1>. QED  BY <1>9, <1>11

\* Handling a command: links find a creation that is older than they are.
LEMMA HandleCreated ==
    ASSUME TypeInv, ListedCreated, SentInv, RowsInv, NEW c \in sent, HandleOf(c), Grows
    PROVE  SentInv' /\ RowsInv'
<1>1. /\ sent' \subseteq sent /\ Effect(c)
      /\ clock' = clock /\ later' = later /\ page' = page /\ loads' = loads
  BY DEF HandleOf
<1>2. c \in CommandType /\ c.person \in Person /\ clock \in Nat /\ c.at \in Int
  BY DEF TypeInv, PageTypes, CommandType
<1>3. ServerTypes /\ stream \in [Person -> Seq(RowType)]
  BY DEF TypeInv, ServerTypes
<1>4. /\ \A q \in Person : q # c.person => stream'[q] = stream[q]
      /\ stream'[c.person] = stream[c.person] \/ stream'[c.person] # <<>>
  BY <1>1, <1>2, <1>3, EffectGrows
<1>5. Creations' \subseteq Creations
  <2>1. SUFFICES ASSUME NEW d \in sent, d.kind = "CreatePerson", stream'[d.person] = <<>>
                 PROVE  stream[d.person] = <<>>
    BY <1>1 DEF Creations
  <2>2. d.person \in Person
    BY DEF TypeInv, PageTypes, CommandType
  <2>. QED  BY <2>1, <2>2 DEF Grows
<1>6. InTime' /\ OneCreation'
  BY <1>1, <1>5 DEF SentInv, InTime, OneCreation
<1>7. NothingBefore'
  <2>1. SUFFICES ASSUME NEW q \in Person, q \notin DOMAIN links' PROVE stream'[q] = <<>>
    BY DEF NothingBefore
  <2>2. q \notin DOMAIN links /\ stream[q] = <<>>
    BY <2>1 DEF Grows, SentInv, NothingBefore
  <2>3. CASE c.person # q
    BY <1>4, <2>2, <2>3
  <2>4. CASE c.person = q
    <3>1. c.kind = "CreatePerson"
      BY <2>2, <2>4, Doer
    <3>2. stream' = stream
      BY <1>1, <2>1, <2>4, <3>1 DEF Effect
    <3>. QED  BY <2>2, <3>2
  <2>. QED  BY <2>3, <2>4
<1>8. UndoneCreated'
  BY <1>1 DEF SentInv, UndoneCreated, Grows
<1>9. SentReady'
  <2>1. SUFFICES ASSUME NEW d \in sent, d.kind = "LinkPersonToHappening" PROVE LinkReady(d)'
    BY <1>1 DEF SentReady
  <2>2. d \in CommandType /\ LinkReady(d)
    BY <2>1 DEF TypeInv, PageTypes, SentInv, SentReady
  <2>. QED  BY <2>2, ReadyNext
<1>10. AllLinkedLast'
  <2>1. SUFFICES ASSUME NEW q \in Person PROVE LinkedLast(stream'[q])
    BY DEF AllLinkedLast, LinkedLast
  <2>2. LinkedLast(stream[q]) /\ stream[q] \in Seq(RowType)
    BY <1>3 DEF SentInv, AllLinkedLast
  <2>3. CASE stream'[q] = stream[q]
    BY <2>2, <2>3
  <2>4. CASE q = c.person /\ stream' = [stream EXCEPT ![c.person] = <<Row("Created", c.at)>>]
    <3>1. stream'[q] = <<Row("Created", c.at)>>
      BY <1>3, <2>4
    <3>. QED  BY <3>1 DEF LinkedLast, Row
  <2>5. ASSUME NEW type \in {"Unlinked", "UnlinkFailed", "Deleted"},
               Puts(q, type, clock)
        PROVE  LinkedLast(stream'[q])
    <3>1. Row(type, clock) \in RowType /\ Row(type, clock).type # "Linked"
      BY <1>2 DEF Row, RowType
    <3>. QED  BY <2>2, <2>5, <3>1, PutLast DEF Puts
  <2>6. ASSUME q = c.person, c.kind = "LinkPersonToHappening", Puts(q, "Linked", c.at)
        PROVE  LinkedLast(stream'[q])
    <3>1. /\ Row("Linked", c.at) \in RowType /\ Row("Linked", c.at).at = c.at
          /\ Put(stream[q], stream'[q], Row("Linked", c.at))
      BY <1>2, <2>6 DEF Row, RowType, Puts
    <3>2. \E j \in DOMAIN stream[q] : stream[q][j].type = "Created" /\ stream[q][j].at < c.at
      BY <2>6 DEF SentInv, SentReady, LinkReady, HasCreated
    <3>. QED  BY <2>2, <3>1, <3>2, PutLast
  <2>7. CASE q # c.person
    BY <1>4, <2>3, <2>7
  <2>. QED  BY <1>1, <2>3, <2>4, <2>5, <2>6, <2>7 DEF Effect
<1>11. RowOwns'
  BY <1>1, <1>5 DEF RowsInv, RowOwns
<1>12. RowsCreated'
  <2>1. SUFFICES ASSUME NEW r \in DOMAIN page.rows, page.rows[r] # NoOne,
                        NEW d \in Creations, d.person = page.rows[r]
                 PROVE  page.rows[r] \in DOMAIN links' \/ d \in Creations'
    BY <1>1 DEF RowsInv, RowsCreated, Grows
  <2>. QED  BY <2>1, CreationOver
<1>13. LaterReady'
  <2>1. SUFFICES ASSUME NEW l \in later
                 PROVE  LinkReady(l.command)' \/ \E d \in Creations' : WaitsFor(l, d)
    BY <1>1 DEF LaterReady
  <2>2. l.command \in CommandType
    BY DEF TypeInv, PageTypes
  <2>3. CASE LinkReady(l.command)
    BY <2>2, <2>3, ReadyNext
  <2>4. ASSUME NEW d \in Creations, WaitsFor(l, d), d \notin Creations'
        PROVE  LinkReady(l.command)'
    <3>1. d.person \in DOMAIN links' /\ stream'[d.person] = <<Row("Created", d.at)>>
      BY <2>4, CreationOver
    <3>2. d.person = l.command.person /\ d.at < l.command.at
      BY <2>4 DEF WaitsFor
    <3>. DEFINE q == l.command.person
    <3>3. q \in DOMAIN links' /\ stream'[q] = <<Row("Created", d.at)>>
      BY <3>1, <3>2
    <3>4. 1 \in DOMAIN stream'[q] /\ stream'[q][1].type = "Created" /\ stream'[q][1].at = d.at
      BY <3>3 DEF Row
    <3>. QED  BY <3>2, <3>3, <3>4 DEF LinkReady, HasCreated
  <2>. QED  BY <2>3, <2>4 DEF RowsInv, LaterReady
<1>. QED  BY <1>6, <1>7, <1>8, <1>9, <1>10, <1>11, <1>12, <1>13 DEF SentInv, RowsInv

\* CreatedInv is inductive.
LEMMA CreatedNext ==
    ASSUME ClocksHold, CreatedInv, [Next]_vars
    PROVE  CreatedInv'
<1>1. TypeInv' /\ ListedCreated' /\ StampedBefore' /\ OfferedListed'
  BY NextTypes, ListedNext, StampedNext, OfferedNext DEF CreatedInv
<1>. SUFFICES ASSUME Calm' PROVE SentInv' /\ RowsInv'
  BY <1>1 DEF CreatedInv
<1>2. /\ TypeInv /\ ListedCreated /\ OfferedListed /\ SentInv /\ RowsInv
  BY CalmBefore DEF CreatedInv
<1>3. page \in PageType
  BY <1>2 DEF TypeInv, PageTypes
<1>4. CASE Tick \/ SendLater
  BY <1>2, <1>4, TickCreated, SendCreated
<1>5. CASE AskRegistrations \/ Leave
  BY <1>2, <1>5, AskCreated, LeaveCreated
<1>6. CASE LoadRegistrations \/ Hear
  <2>1. UNCHANGED <<stream, links, clock, sent, later, loads>>
    BY <1>6 DEF LoadRegistrations, Hear, attendanceVars
  <2>2. page'.rows = page.rows /\ (page'.state = "closed" <=> page.state = "closed")
    BY <1>3, <1>6 DEF LoadRegistrations, Hear, PageType
  <2>. QED  BY <1>2, <2>1, <2>2, RowsStay
<1>7. ASSUME NEW r \in Registration, Remove(r) PROVE SentInv' /\ RowsInv'
  <2>1. UNCHANGED <<stream, links, clock, sent, later, loads>> /\ page.rows[r] = NoOne
    BY <1>7 DEF Remove, attendanceVars
  <2>2. page'.rows = [s \in DOMAIN page.rows \ {r} |-> page.rows[s]]
        /\ page'.state = page.state
    BY <1>3, <1>7 DEF Remove, PageType
  <2>. QED  BY <1>2, <2>1, <2>2, RowsStay
<1>8. CASE LoadPeople \/ RefreshData \/ Start \/ UNCHANGED vars
  <2>1. UNCHANGED <<stream, links, clock, sent, later, loads, page>>
    BY <1>8 DEF LoadPeople, RefreshData, Start, StartHappening, vars, adminVars, attendanceVars
  <2>. QED  BY <1>2, <2>1, QuietSent, QuietRows
<1>9. ASSUME NEW r \in Registration,
             LinkToNewPerson(r) \/ LinkToExistingPerson(r) \/ Unlink(r)
      PROVE  SentInv' /\ RowsInv'
  BY <1>2, <1>9, NewCreated, ExistingCreated, UnlinkCreated
<1>10. CASE GiveDelete \/ OthersGive
  BY <1>2, <1>10, DeleteCreated, OthersCreated
<1>11. CASE Handle
  BY <1>2, <1>11, HandleIs, HandleCreated, StepGrows
<1>. QED  BY <1>4, <1>5, <1>6, <1>7, <1>8, <1>9, <1>10, <1>11 DEF Next

\* At first the types hold.
LEMMA InitTypes == ASSUME Init PROVE TypeInv
<1>1. ServerTypes
  <2>1. <<>> \in Seq(RowType) /\ <<Row("Created", 0)>> \in Seq(RowType)
    BY DEF Row, RowType
  <2>. QED  BY <2>1, ExistingAssumption DEF Init, AttendanceInit, ServerTypes
<1>2. PageTypes
  BY ClosedIs, PageAssumption DEF Init, PageTypes, Error, NotLoaded, PeopleType
<1>. QED  BY <1>1, <1>2 DEF TypeInv

\* At first nobody is linked, and nothing is on its way.
LEMMA InitCreated == ASSUME Init PROVE CreatedInv
<1>1. TypeInv
  BY InitTypes
<1>2. /\ stream = [p \in Person |-> IF p \in Existing THEN <<Row("Created", 0)>> ELSE <<>>]
      /\ DOMAIN links = Existing /\ clock = FirstTick /\ sent = {} /\ later = {}
      /\ page = Closed /\ people = NotLoaded
  BY DEF Init, AttendanceInit
<1>3. ListedCreated
  <2>1. SUFFICES ASSUME NEW p \in Existing
                 PROVE  \E j \in DOMAIN stream[p] :
                           stream[p][j].type = "Created" /\ \E e \in Error : stream[p][j].at <= clock + e
    BY <1>2 DEF ListedCreated
  <2>2. stream[p] = <<Row("Created", 0)>>
    BY <1>2, ExistingAssumption
  <2>3. 1 \in DOMAIN stream[p] /\ stream[p][1].type = "Created" /\ stream[p][1].at = 0
    BY <2>2 DEF Row
  <2>4. 0 \in Error /\ 0 <= clock + 0
    BY <1>2, PageAssumption DEF Error
  <2>. QED  BY <2>3, <2>4
<1>4. StampedBefore /\ OfferedListed
  BY <1>2 DEF StampedBefore, OfferedListed, Closed, NotLoaded
<1>5. Creations = {}
  BY <1>2 DEF Creations
<1>6. SentInv
  <2>1. AllLinkedLast
    <3>1. \A p \in Person : stream[p] = <<Row("Created", 0)>> \/ stream[p] = <<>>
      BY <1>2
    <3>. QED  BY <3>1 DEF AllLinkedLast, LinkedLast, Row
  <2>2. NothingBefore
    BY <1>2 DEF NothingBefore
  <2>. QED  BY <1>2, <1>5, <2>1, <2>2 DEF SentInv, InTime, OneCreation, UndoneCreated, SentReady
<1>7. RowsInv
  BY <1>2, <1>5 DEF RowsInv, RowOwns, RowsCreated, LaterReady, Closed
<1>. QED  BY <1>1, <1>3, <1>4, <1>6, <1>7 DEF CreatedInv

\* The pages and the server keep to their types, whatever the clocks do.
THEOREM AdminTypes == Spec => []TypeInv
<1>1. Init => TypeInv
  BY InitTypes
<1>2. TypeInv /\ [Next]_vars => TypeInv'
  BY NextTypes
<1>. QED  BY <1>1, <1>2, PTL DEF Spec

\* If the delay is longer than a command that is not late takes, and the lead is longer
\* than the delay and than what any two clocks differ by, then a person is created before
\* they are linked: by the list, when the commands are handled, and by any replay of the
\* stream.
THEOREM CreatedBeforeLinked ==
    ASSUME ClocksHold
    PROVE  Spec => []CreatedFirst
<1>1. Init => CreatedInv
  BY InitCreated
<1>2. CreatedInv /\ [Next]_vars => CreatedInv'
  BY CreatedNext
<1>3. CreatedInv => CreatedFirst
  <2>1. SUFFICES ASSUME CreatedInv, Calm, NEW p \in Person, NEW i \in DOMAIN stream[p],
                        stream[p][i].type = "Linked"
                 PROVE  /\ p \in DOMAIN links
                        /\ \E j \in 1 .. i - 1 : stream[p][j].type = "Created"
    BY DEF CreatedFirst, Calm
  <2>2. SentInv
    BY <2>1 DEF CreatedInv
  <2>3. stream[p] # <<>>
    OBVIOUS
  <2>4. p \in DOMAIN links
    BY <2>2, <2>3 DEF SentInv, NothingBefore
  <2>5. \E j \in 1 .. i - 1 : stream[p][j].type = "Created"
    BY <2>1, <2>2 DEF SentInv, AllLinkedLast, LinkedLast
  <2>. QED  BY <2>4, <2>5
<1>. QED  BY <1>1, <1>2, <1>3, PTL DEF Spec

-----------------------------------------------------------------------------
(* What a replay of a stream says.                                         *)

Walker == [attends : Nat, deleted : BOOLEAN]

Nobody == [attends |-> 0, deleted |-> FALSE]

\* What one row says.
LEMMA WhenIs ==
    ASSUME NEW S \in Walker, NEW row \in RowType
    PROVE  /\ When(S, row) \in Walker
           /\ row.type = "Linked" => When(S, row).attends = S.attends + 1
           /\ row.type = "Unlinked" =>
                 When(S, row).attends = IF S.attends = 0 THEN 0 ELSE S.attends - 1
           /\ row.type \in {"Created", "UnlinkFailed", "Deleted"} =>
                 When(S, row).attends = S.attends
<1>1. S.attends \in Nat /\ S.deleted \in BOOLEAN
  BY DEF Walker
<1>2. CASE row.type = "Linked"
  <2>1. When(S, row) = [S EXCEPT !.attends = @ + 1]
    BY <1>2 DEF When
  <2>. QED  BY <1>1, <1>2, <2>1 DEF Walker
<1>3. CASE row.type = "Unlinked"
  <2>1. When(S, row) = [S EXCEPT !.attends = IF @ = 0 THEN 0 ELSE @ - 1]
    BY <1>3 DEF When
  <2>. QED  BY <1>1, <1>3, <2>1 DEF Walker
<1>4. CASE row.type = "Deleted"
  <2>1. When(S, row) = [S EXCEPT !.deleted = TRUE]
    BY <1>4 DEF When
  <2>. QED  BY <1>1, <1>4, <2>1 DEF Walker
<1>5. CASE row.type \in {"Created", "UnlinkFailed"}
  <2>1. When(S, row) = S
    BY <1>5 DEF When
  <2>. QED  BY <1>1, <1>5, <2>1
<1>. QED  BY <1>2, <1>3, <1>4, <1>5 DEF RowType

Replayed(state, rows) ==
    /\ state \in [0 .. Len(rows) -> Walker] /\ state[0] = Nobody
    /\ \A n \in 1 .. Len(rows) : state[n] = When(state[n - 1], rows[n])
    /\ PersonState(rows) = state[Len(rows)]

\* The recursive function of PersonState is one.
LEMMA StateIs ==
    ASSUME NEW rows \in Seq(RowType)
    PROVE  \E state : Replayed(state, rows)
<1>. DEFINE N == Len(rows)
            step == [n \in 1 .. N |-> [S \in Walker |-> When(S, rows[n])]]
            Eq(f) == f = [n \in 0 .. N |->
                            IF n = 0 THEN [attends |-> 0, deleted |-> FALSE]
                            ELSE When(f[n - 1], rows[n])]
<1>1. N \in Nat /\ \A n \in 1 .. N : rows[n] \in RowType
  OBVIOUS
<1>2. \A n \in 1 .. N, S \in Walker : When(S, rows[n]) \in Walker
  BY <1>1, WhenIs
<1>3. Nobody \in Walker
  BY DEF Nobody, Walker
<1>4. step \in [1 .. N -> [Walker -> Walker]]
  BY <1>2
<1>5. PICK f : Lists!Recurs(f, N, Walker, Nobody, step)
  <2>1. 1 \in Nat \ {0}
    OBVIOUS
  <2>. HIDE DEF step, N
  <2>. QED  BY <1>1, <1>3, <1>4, <2>1, Lists!Recursion
<1>6. \A n \in 1 .. N, S \in Walker : step[n][S] = When(S, rows[n])
  OBVIOUS
<1>. HIDE DEF step
<1>7. Eq(f)
  <2>1. f \in [0 .. N -> Walker] /\ f[0] = Nobody
    BY <1>5 DEF Lists!Recurs
  <2>2. ASSUME NEW n \in 1 .. N
        PROVE  f[n] = When(f[n - 1], rows[n])
    <3>1. f[n] = step[n][f[n - 1]]
      BY <1>5 DEF Lists!Recurs
    <3>2. f[n - 1] \in Walker
      BY <1>1, <2>1
    <3>. QED  BY <1>6, <3>1, <3>2
  <2>3. \A n \in 0 .. N : n = 0 \/ n \in 1 .. N
    BY <1>1
  <2>. HIDE DEF N
  <2>4. \A n \in 0 .. N : f[n] = IF n = 0 THEN Nobody ELSE When(f[n - 1], rows[n])
    BY <2>1, <2>2, <2>3
  <2>. QED  BY <2>1, <2>4 DEF Nobody
<1>. DEFINE state == CHOOSE g : Eq(g)
<1>8. Eq(state)
  <2>. HIDE DEF Eq
  <2>. QED  BY <1>7
<1>9. PersonState(rows) = state[N]
  BY DEF PersonState
<1>. HIDE DEF state
<1>10. /\ state[0] = Nobody
       /\ \A n \in 1 .. N : state[n] = When(state[n - 1], rows[n])
  <2>. HIDE DEF N
  <2>1. 0 \in 0 .. N /\ \A n \in 1 .. N : n \in 0 .. N /\ n # 0
    BY <1>1
  <2>. QED  BY <1>8, <2>1 DEF Nobody
<1>11. \A n \in 0 .. N : state[n] \in Walker
  <2>. DEFINE S == {n \in 0 .. N : state[n] \in Walker}
  <2>. HIDE DEF N
  <2>1. 0 \in S
    BY <1>1, <1>3, <1>10
  <2>2. ASSUME NEW n \in 0 .. N, n \in S, n < N
        PROVE  n + 1 \in S
    <3>1. n + 1 \in 1 .. N /\ (n + 1) - 1 = n /\ state[n] \in Walker
      BY <1>1, <2>2
    <3>2. state[n + 1] = When(state[n], rows[n + 1])
      BY <1>10, <3>1
    <3>. QED  BY <1>2, <3>1, <3>2
  <2>3. 1 \in Nat \ {0}
    OBVIOUS
  <2>. HIDE DEF S
  <2>4. \A n \in 0 .. N : n \in S
    BY <1>1, <2>1, <2>2, <2>3, Lists!UpTo
  <2>. QED  BY <2>4 DEF S
<1>12. state \in [0 .. N -> Walker]
  BY <1>8, <1>11
<1>. QED  BY <1>9, <1>10, <1>12 DEF Replayed

\* A row at the end says what it says of what was before.
LEMMA StateAfter ==
    ASSUME NEW s \in Seq(RowType), NEW row \in RowType
    PROVE  /\ PersonState(s) \in Walker
           /\ PersonState(Append(s, row)) = When(PersonState(s), row)
<1>. DEFINE t == Append(s, row)
            N == Len(s)
<1>1. N \in Nat /\ t \in Seq(RowType) /\ Len(t) = N + 1 /\ t[N + 1] = row
      /\ \A n \in 1 .. N : t[n] = s[n]
  OBVIOUS
<1>2. PICK f : Replayed(f, s)
  BY StateIs
<1>. HIDE DEF t
<1>3. PICK g : Replayed(g, t)
  BY <1>1, StateIs
<1>4. /\ f \in [0 .. N -> Walker] /\ f[0] = Nobody
      /\ \A n \in 1 .. N : f[n] = When(f[n - 1], s[n])
      /\ PersonState(s) = f[N]
  BY <1>2 DEF Replayed
<1>5. /\ g[0] = Nobody
      /\ \A n \in 1 .. N + 1 : g[n] = When(g[n - 1], t[n])
      /\ PersonState(t) = g[N + 1]
  BY <1>1, <1>3 DEF Replayed
<1>. HIDE DEF N
<1>6. \A n \in 0 .. N : g[n] = f[n]
  <2>. DEFINE S == {n \in 0 .. N : g[n] = f[n]}
  <2>1. 0 \in S
    BY <1>1, <1>4, <1>5
  <2>2. ASSUME NEW n \in 0 .. N, n \in S, n < N
        PROVE  n + 1 \in S
    <3>1. n + 1 \in 1 .. N /\ n + 1 \in 1 .. N + 1 /\ (n + 1) - 1 = n /\ n + 1 \in 0 .. N
      BY <1>1, <2>2
    <3>2. f[n + 1] = When(f[n], s[n + 1])
      BY <1>4, <3>1
    <3>3. g[n + 1] = When(g[n], t[n + 1])
      BY <1>5, <3>1
    <3>. QED  BY <1>1, <2>2, <3>1, <3>2, <3>3
  <2>3. 1 \in Nat \ {0}
    OBVIOUS
  <2>. HIDE DEF S
  <2>4. \A n \in 0 .. N : n \in S
    BY <1>1, <2>1, <2>2, <2>3, Lists!UpTo
  <2>. QED  BY <2>4 DEF S
<1>7. N + 1 \in 1 .. N + 1 /\ (N + 1) - 1 = N /\ N \in 0 .. N
  BY <1>1
<1>8. g[N + 1] = When(g[N], row)
  BY <1>1, <1>5, <1>7
<1>. QED  BY <1>4, <1>5, <1>6, <1>7, <1>8 DEF t

\* A stream without rows is about nobody.
LEMMA StateOfNone == PersonState(<<>>) = Nobody
<1>1. <<>> \in Seq(RowType) /\ Len(<<>>) = 0
  OBVIOUS
<1>2. PICK f : Replayed(f, <<>>)
  BY <1>1, StateIs
<1>. QED  BY <1>1, <1>2 DEF Replayed

\* A row that moves none is the last, or one like it is.
LEMMA PutAtEnd ==
    ASSUME NEW s \in Seq(RowType), NEW t, NEW row \in RowType, Put(s, t, row),
           \A i \in DOMAIN s : t[i] = s[i]
    PROVE  t = Append(s, row)
<1>1. PICK k \in 1 .. Len(s) + 1 :
          t = [j \in 1 .. Len(s) + 1 |-> IF j < k THEN s[j] ELSE IF j = k THEN row ELSE s[j - 1]]
  BY DEF Put
<1>. DEFINE n == Len(s)
<1>2. n \in Nat /\ DOMAIN s = 1 .. n
  OBVIOUS
<1>3. \A i \in 1 .. n : t[i] = s[i]
  BY <1>2
<1>. HIDE DEF n
<1>4. t = [j \in 1 .. n + 1 |-> IF j < k THEN s[j] ELSE IF j = k THEN row ELSE s[j - 1]]
      /\ k \in 1 .. n + 1
  BY <1>1 DEF n
<1>5. t[n + 1] = row
  <2>1. CASE k = n + 1
    BY <1>2, <1>4, <2>1
  <2>2. CASE k \in 1 .. n
    <3>. DEFINE S == {i \in 0 .. n - k : s[k + i] = row}
    <3>1. 0 \in S
      <4>1. t[k] = row /\ k + 0 = k /\ 0 \in 0 .. n - k
        BY <1>2, <1>4, <2>2
      <4>. QED  BY <1>3, <2>2, <4>1
    <3>2. ASSUME NEW i \in 0 .. n - k, i \in S, i < n - k
          PROVE  i + 1 \in S
      <4>1. /\ k + (i + 1) \in 1 .. n /\ k + (i + 1) \in 1 .. n + 1
            /\ ~(k + (i + 1) < k) /\ k + (i + 1) # k /\ (k + (i + 1)) - 1 = k + i
            /\ i + 1 \in 0 .. n - k
        BY <1>2, <2>2, <3>2
      <4>2. t[k + (i + 1)] = s[k + i]
        BY <1>4, <4>1
      <4>. QED  BY <1>3, <3>2, <4>1, <4>2
    <3>3. 1 \in Nat \ {0} /\ n - k \in Nat
      BY <1>2, <2>2
    <3>4. \A i \in 0 .. n - k : i \in S
      <4>. HIDE DEF S
      <4>. QED  BY <3>1, <3>2, <3>3, Lists!UpTo
    <3>5. n - k \in 0 .. n - k /\ k + (n - k) = n
      BY <1>2, <2>2
    <3>6. s[n] = row
      BY <3>4, <3>5
    <3>7. n + 1 \in 1 .. n + 1 /\ ~(n + 1 < k) /\ n + 1 # k /\ (n + 1) - 1 = n
      BY <1>2, <2>2
    <3>8. t[n + 1] = s[n]
      BY <1>4, <3>7
    <3>. QED  BY <3>6, <3>8
  <2>3. k = n + 1 \/ k \in 1 .. n
    BY <1>2, <1>4
  <2>. QED  BY <2>1, <2>2, <2>3
<1>6. t = [j \in 1 .. n + 1 |-> IF j = n + 1 THEN row ELSE s[j]]
  <2>1. \A j \in 1 .. n + 1 : t[j] = IF j = n + 1 THEN row ELSE s[j]
    BY <1>2, <1>3, <1>5
  <2>2. t = [j \in 1 .. n + 1 |-> t[j]]
    BY <1>4
  <2>. QED  BY <2>1, <2>2
<1>7. Append(s, row) = [j \in 1 .. n + 1 |-> IF j = n + 1 THEN row ELSE s[j]]
  <2>. DEFINE q == Append(s, row)
  <2>1. q \in Seq(RowType) /\ DOMAIN q = 1 .. n + 1
    BY DEF n
  <2>2. \A j \in 1 .. n + 1 : q[j] = IF j = n + 1 THEN row ELSE s[j]
    BY <1>2 DEF n
  <2>. HIDE DEF q
  <2>3. \A u \in Seq(RowType) : u = [j \in DOMAIN u |-> u[j]]
    OBVIOUS
  <2>4. q = [j \in 1 .. n + 1 |-> q[j]]
    BY <2>1, <2>3
  <2>5. q = [j \in 1 .. n + 1 |-> IF j = n + 1 THEN row ELSE s[j]]
    BY <2>2, <2>4
  <2>. QED  BY <2>5 DEF q
<1>. QED  BY <1>6, <1>7

-----------------------------------------------------------------------------
(* The list knows what a replay says: the inductive invariant.             *)

Orderly == past \cap {"back", "fails"} = {}

Marked(p) == p \in DOMAIN links /\ links[p] # NoOne

\* Nobody attends twice.
ListTrue ==
    \A p \in Person : PersonState(stream[p]).attends = IF Marked(p) THEN 1 ELSE 0

\* A link names a registration.
LinksNamed ==
    \A c \in sent \cup {l.command : l \in later} :
        c.kind = "LinkPersonToHappening" => c.registration \in Registration

ListInv == TypeInv /\ LinksNamed /\ (Orderly => ListTrue)

\* LinksNamed is kept.
LEMMA NamedNext == ASSUME TypeInv, LinksNamed, [Next]_vars PROVE LinksNamed'
<1>1. ASSUME NEW r \in Registration, NEW p \in Person, CanLink(r), LinkTo(r, p),
             \A c \in sent' : c \in sent \/ c.kind # "LinkPersonToHappening"
      PROVE  LinksNamed'
  <2>. DEFINE c == Stamped(Command("LinkPersonToHappening", p, r))
  <2>1. c.registration = r /\ later' = later \cup {[command |-> c, due |-> clock + Delay]}
    BY <1>1, LinkToIs
  <2>. HIDE DEF c
  <2>. QED  BY <1>1, <2>1 DEF LinksNamed
<1>2. ASSUME NEW r \in Registration, LinkToNewPerson(r) PROVE LinksNamed'
  <2>. DEFINE p == page.newPerson[r]
              d == Command("CreatePerson", p, r)
  <2>1. CanLink(r) /\ LinkTo(r, p) /\ sent' = sent \cup {d}
    BY <1>2 DEF LinkToNewPerson
  <2>2. p \in Person
    BY <2>1, PageAssumption DEF CanLink, TypeInv, PageTypes
  <2>3. d.kind = "CreatePerson"
    BY DEF Command
  <2>. HIDE DEF p, d
  <2>. QED  BY <1>1, <2>1, <2>2, <2>3
<1>3. ASSUME NEW r \in Registration, LinkToExistingPerson(r) PROVE LinksNamed'
  <2>1. PICK p \in Offered(r) : LinkTo(r, p)
    BY <1>3 DEF LinkToExistingPerson
  <2>2. p \in Person
    BY DEF Offered, TypeInv, PageTypes, PageType
  <2>. QED  BY <1>1, <1>3, <2>1, <2>2 DEF LinkToExistingPerson
<1>4. ASSUME NEW c, sent' = sent \cup {c}, later' = later,
             c.kind = "LinkPersonToHappening" => c.registration \in Registration
      PROVE  LinksNamed'
  BY <1>4 DEF LinksNamed
<1>5. ASSUME NEW r \in Registration, Unlink(r) PROVE LinksNamed'
  <2>. DEFINE c == Command("UnlinkPersonFromHappening", page.rows[r], r)
  <2>1. sent' = sent \cup {c} /\ later' = later
    BY <1>5 DEF Unlink
  <2>2. c.kind = "UnlinkPersonFromHappening"
    BY DEF Command
  <2>. HIDE DEF c
  <2>. QED  BY <1>4, <2>1, <2>2
<1>6. CASE SendLater
  <2>1. PICK l \in later : later' = later \ {l}
                           /\ sent' = sent \cup {[l.command EXCEPT !.since = clock]}
    BY <1>6 DEF SendLater
  <2>2. l.command \in CommandType
    BY DEF TypeInv, PageTypes
  <2>. DEFINE c == [l.command EXCEPT !.since = clock]
  <2>3. c.kind = l.command.kind /\ c.registration = l.command.registration
    BY <2>2 DEF CommandType
  <2>. HIDE DEF c
  <2>4. sent' = sent \cup {c}
    BY <2>1 DEF c
  <2>. QED  BY <2>1, <2>3, <2>4 DEF LinksNamed
<1>7. CASE OthersGive
  <2>1. PICK kind \in Others, p \in DOMAIN links, r \in Registration :
            sent' = sent \cup {[Command(kind, p, r) EXCEPT
                                   !.at = IF kind = "LinkPersonToHappening"
                                            THEN clock - Delay + Lead ELSE clock]}
    BY <1>7 DEF OthersGive
  <2>. DEFINE at == IF kind = "LinkPersonToHappening" THEN clock - Delay + Lead ELSE clock
              c == [Command(kind, p, r) EXCEPT !.at = at]
  <2>. HIDE DEF at
  <2>2. c.registration = r
    BY DEF Command
  <2>3. sent' = sent \cup {c} /\ later' = later
    BY <1>7, <2>1 DEF OthersGive, at
  <2>. HIDE DEF c
  <2>. QED  BY <1>4, <2>2, <2>3
<1>8. CASE GiveDelete
  <2>1. PICK p : sent' = sent \cup {Command("DeletePerson", p, NoOne)}
    BY <1>8 DEF GiveDelete
  <2>. DEFINE c == Command("DeletePerson", p, NoOne)
  <2>2. c.kind = "DeletePerson"
    BY DEF Command
  <2>3. sent' = sent \cup {c} /\ later' = later
    BY <1>8, <2>1 DEF GiveDelete
  <2>. HIDE DEF c
  <2>. QED  BY <1>4, <2>2, <2>3
<1>9. CASE Handle
  <2>1. sent' \subseteq sent /\ later' = later
    BY <1>9 DEF Handle
  <2>. QED  BY <2>1 DEF LinksNamed
<1>10. CASE Leave
  <2>1. sent' = sent /\ later' = {}
    BY <1>10 DEF Leave
  <2>. QED  BY <2>1 DEF LinksNamed
<1>11. CASE \/ Tick \/ AskRegistrations \/ LoadRegistrations \/ Hear \/ LoadPeople \/ RefreshData
            \/ Start \/ UNCHANGED vars \/ \E r \in Registration : Remove(r)
  <2>1. sent' = sent /\ later' = later
    BY <1>11 DEF Tick, AskRegistrations, LoadRegistrations, Hear, LoadPeople, RefreshData,
                 Start, vars, adminVars, Remove
  <2>. QED  BY <2>1 DEF LinksNamed
<1>. QED  BY <1>2, <1>3, <1>5, <1>6, <1>7, <1>8, <1>9, <1>10, <1>11 DEF Next

\* A row at the end of the stream, and the list hears of it.
LEMMA HandleList ==
    ASSUME TypeInv, LinksNamed, ListTrue, NEW c \in sent, HandleOf(c), Orderly'
    PROVE  ListTrue'
<1>. DEFINE p == c.person
            s == stream[p]
<1>1. c \in CommandType /\ p \in Person /\ c.at \in Int /\ clock \in Int
  BY DEF TypeInv, PageTypes, CommandType
<1>2. ServerTypes /\ stream \in [Person -> Seq(RowType)] /\ s \in Seq(RowType)
  BY <1>1 DEF TypeInv, ServerTypes
<1>3. /\ ~Fails(c)
      /\ \A i \in DOMAIN stream'[p] : i \in DOMAIN s => stream'[p][i] = s[i]
  <2>1. past' = past \cup PastOf(c)
    BY DEF HandleOf
  <2>2. "back" \notin PastOf(c) /\ "fails" \notin PastOf(c)
    BY <2>1 DEF Orderly
  <2>. QED  BY <2>2 DEF PastOf, Happened
<1>4. Effect(c)
  BY DEF HandleOf
<1>5. PersonState(s).attends = IF Marked(p) THEN 1 ELSE 0
  BY <1>1 DEF ListTrue
<1>6. ASSUME NEW type \in {"Created", "Linked", "Unlinked", "UnlinkFailed", "Deleted"},
             NEW at \in Int, Puts(p, type, at)
      PROVE  /\ \A q \in Person : q # p => stream'[q] = stream[q]
             /\ PersonState(s) \in Walker
             /\ PersonState(stream'[p]) = When(PersonState(s), Row(type, at))
             /\ Row(type, at) \in RowType /\ Row(type, at).type = type
  <2>1. Row(type, at) \in RowType /\ Row(type, at).type = type
    BY <1>6 DEF Row, RowType
  <2>2. Put(s, stream'[p], Row(type, at)) /\ \A q \in Person : q # p => stream'[q] = stream[q]
    BY <1>6 DEF Puts
  <2>3. \A i \in DOMAIN s : stream'[p][i] = s[i]
    <3>1. DOMAIN stream'[p] = 1 .. Len(s) + 1
      BY <1>2, <2>1, <2>2, PutKeeps
    <3>2. DOMAIN s \subseteq 1 .. Len(s) + 1
      BY <1>2
    <3>. QED  BY <1>3, <3>1, <3>2
  <2>4. stream'[p] = Append(s, Row(type, at))
    BY <1>2, <2>1, <2>2, <2>3, PutAtEnd
  <2>. QED  BY <1>2, <2>1, <2>2, <2>4, StateAfter
<1>7. ASSUME \A q \in Person : q # p => stream'[q] = stream[q],
             \A q \in Person : q # p => (Marked(q)' <=> Marked(q)),
             PersonState(stream'[p]).attends = IF Marked(p)' THEN 1 ELSE 0
      PROVE  ListTrue'
  <2>1. SUFFICES ASSUME NEW q \in Person
                 PROVE  PersonState(stream'[q]).attends = IF Marked(q)' THEN 1 ELSE 0
    BY DEF ListTrue
  <2>2. CASE q = p
    BY <1>7, <2>2 DEF Marked
  <2>3. CASE q # p
    BY <1>7, <2>3 DEF ListTrue
  <2>. QED  BY <2>2, <2>3
<1>8. CASE stream' = stream /\ links' = links
  BY <1>8 DEF ListTrue, Marked
<1>9. CASE /\ c.kind = "CreatePerson" /\ s = <<>>
           /\ stream' = [stream EXCEPT ![p] = <<Row("Created", c.at)>>]
           /\ links' = [q \in DOMAIN links \cup {p} |-> IF q = p THEN NoOne ELSE links[q]]
  <2>1. stream'[p] = Append(<<>>, Row("Created", c.at))
        /\ \A q \in Person : q # p => stream'[q] = stream[q]
    BY <1>1, <1>2, <1>9
  <2>2. PersonState(stream'[p]) = When(Nobody, Row("Created", c.at))
    <3>1. <<>> \in Seq(RowType) /\ Row("Created", c.at) \in RowType
      BY <1>1 DEF Row, RowType
    <3>. QED  BY <2>1, <3>1, StateAfter, StateOfNone
  <2>3. PersonState(stream'[p]).attends = 0
    <3>1. Nobody \in Walker /\ Nobody.attends = 0
      BY DEF Nobody, Walker
    <3>2. Row("Created", c.at) \in RowType /\ Row("Created", c.at).type = "Created"
      BY <1>1 DEF Row, RowType
    <3>. QED  BY <2>2, <3>1, <3>2, WhenIs
  <2>4. ~Marked(p)'
    BY <1>9 DEF Marked
  <2>5. \A q \in Person : q # p => (Marked(q)' <=> Marked(q))
    BY <1>9 DEF Marked
  <2>. QED  BY <1>7, <2>1, <2>3, <2>4, <2>5
<1>10. CASE /\ c.kind = "LinkPersonToHappening" /\ LinksToHappening(p)
            /\ Puts(p, "Linked", c.at)
            /\ links' = IF LinkThrows(p) THEN links ELSE [links EXCEPT ![p] = c.registration]
  <2>1. p \in DOMAIN links /\ links[p] = NoOne
    BY <1>3, <1>10 DEF Fails, LinkThrows
  <2>2. links' = [links EXCEPT ![p] = c.registration] /\ c.registration # NoOne
    <3>1. c.registration \in Registration
      BY <1>10 DEF LinksNamed
    <3>. QED  BY <1>10, <2>1, <3>1, ExistingAssumption DEF LinkThrows
  <2>3. Marked(p)' /\ \A q \in Person : q # p => (Marked(q)' <=> Marked(q))
    BY <2>1, <2>2 DEF Marked
  <2>4. PersonState(s).attends = 0
    BY <1>5, <2>1 DEF Marked
  <2>5. /\ \A q \in Person : q # p => stream'[q] = stream[q]
        /\ PersonState(stream'[p]).attends = 0 + 1
    BY <1>1, <1>6, <1>10, <2>4, WhenIs
  <2>. QED  BY <1>7, <2>3, <2>5
<1>11. CASE /\ Unlinks(p) /\ Puts(p, "Unlinked", clock)
            /\ links' = [q \in DOMAIN links |-> IF q = p THEN NoOne ELSE links[q]]
  <2>1. PersonState(s).attends = 1
    BY <1>5, <1>11 DEF Unlinks, Attends
  <2>2. /\ \A q \in Person : q # p => stream'[q] = stream[q]
        /\ PersonState(stream'[p]).attends = 1 - 1
    <3>1. /\ \A q \in Person : q # p => stream'[q] = stream[q]
          /\ PersonState(stream'[p]).attends =
                IF PersonState(s).attends = 0 THEN 0 ELSE PersonState(s).attends - 1
      BY <1>1, <1>6, <1>11, WhenIs
    <3>. QED  BY <2>1, <3>1
  <2>3. ~Marked(p)' /\ \A q \in Person : q # p => (Marked(q)' <=> Marked(q))
    BY <1>11 DEF Marked
  <2>. QED  BY <1>7, <2>2, <2>3
<1>12. ASSUME NEW type \in {"UnlinkFailed", "Deleted"}, Puts(p, type, clock), links' = links
       PROVE  ListTrue'
  <2>1. /\ \A q \in Person : q # p => stream'[q] = stream[q]
        /\ PersonState(stream'[p]).attends = PersonState(s).attends
    BY <1>1, <1>6, <1>12, WhenIs
  <2>2. \A q : Marked(q)' <=> Marked(q)
    BY <1>12 DEF Marked
  <2>3. Marked(p)' <=> Marked(p)
    BY <1>12 DEF Marked
  <2>. QED  BY <1>5, <1>7, <2>1, <2>2, <2>3
<1>. QED  BY <1>4, <1>8, <1>9, <1>10, <1>11, <1>12 DEF Effect

\* ListInv is inductive.
LEMMA ListNext == ASSUME ListInv, [Next]_vars PROVE ListInv'
<1>1. TypeInv' /\ LinksNamed'
  BY NextTypes, NamedNext DEF ListInv
<1>. SUFFICES ASSUME Orderly' PROVE ListTrue'
  BY <1>1 DEF ListInv
<1>2. Orderly
  BY PastKept DEF Orderly
<1>3. TypeInv /\ LinksNamed /\ ListTrue
  BY <1>2 DEF ListInv
<1>4. CASE stream' = stream /\ links' = links
  BY <1>3, <1>4 DEF ListTrue, Marked
<1>5. ASSUME NEW c \in sent, HandleOf(c) PROVE ListTrue'
  BY <1>3, <1>5, HandleList
<1>. QED  BY <1>3, <1>4, <1>5, StepIs

\* At first nobody attends and nobody is linked.
LEMMA InitList == ASSUME Init PROVE ListInv
<1>1. TypeInv
  BY InitTypes
<1>2. /\ stream = [p \in Person |-> IF p \in Existing THEN <<Row("Created", 0)>> ELSE <<>>]
      /\ links = [p \in Existing |-> NoOne] /\ sent = {} /\ later = {}
  BY DEF Init, AttendanceInit
<1>3. LinksNamed
  BY <1>2 DEF LinksNamed
<1>4. ListTrue
  <2>1. \A p \in Person : ~Marked(p)
    BY <1>2 DEF Marked
  <2>2. SUFFICES ASSUME NEW p \in Person PROVE PersonState(stream[p]).attends = 0
    BY <2>1 DEF ListTrue
  <2>3. Nobody \in Walker /\ Nobody.attends = 0
    BY DEF Nobody, Walker
  <2>4. CASE p \in Existing
    <3>1. stream[p] = Append(<<>>, Row("Created", 0))
      BY <1>2, <2>4
    <3>2. /\ <<>> \in Seq(RowType) /\ Row("Created", 0) \in RowType
          /\ Row("Created", 0).type = "Created"
      BY DEF Row, RowType
    <3>3. PersonState(stream[p]) = When(Nobody, Row("Created", 0))
      BY <3>1, <3>2, StateAfter, StateOfNone
    <3>. QED  BY <2>3, <3>2, <3>3, WhenIs
  <2>5. CASE p \notin Existing
    <3>1. stream[p] = <<>>
      BY <1>2, <2>5
    <3>. QED  BY <2>3, <3>1, StateOfNone
  <2>. QED  BY <2>4, <2>5
<1>. QED  BY <1>1, <1>3, <1>4 DEF ListInv

\* As long as no row takes the place of another and no command fails, the list that is
\* told event by event has those linked who attend when their streams are replayed.
THEOREM ListAgreesHolds == Spec => []ListAgrees
<1>1. Init => ListInv
  BY InitList
<1>2. ListInv /\ [Next]_vars => ListInv'
  BY ListNext
<1>3. ListInv => ListAgrees
  <2>1. SUFFICES ASSUME ListInv, Orderly, NEW p \in Person PROVE Attends(p) = Marked(p)
    BY DEF ListAgrees, Orderly, Marked
  <2>2. PersonState(stream[p]).attends = IF Marked(p) THEN 1 ELSE 0
    BY <2>1 DEF ListInv, ListTrue
  <2>3. Attends(p) <=> Marked(p)
    BY <2>2 DEF Attends
  <2>. QED  BY <2>3 DEF Attends, Marked
<1>. QED  BY <1>1, <1>2, <1>3, PTL DEF Spec

-----------------------------------------------------------------------------
(* The rows show what will be: the inductive invariant.                    *)

Pending == sent \cup {l.command : l \in later}

\* A creation that will fail for ever, and be on its way for ever.
Doomed == \E c \in sent : c.kind = "CreatePerson" /\ stream[c.person] # <<>>

Unlinking(p) == \E c \in sent : c.kind = "UnlinkPersonFromHappening" /\ c.person = p

LinkingTo(p, r) ==
    \E c \in Pending :
        c.kind = "LinkPersonToHappening" /\ c.person = p /\ c.registration = r

\* Person p is linked to r, or will be.
HeadsFor(p, r) ==
    LinkingTo(p, r) \/ (p \in DOMAIN links /\ links[p] = r /\ ~Unlinking(p))

RowsTrue ==
    \A r \in DOMAIN page.rows : \A p \in Person : page.rows[r] = p <=> HeadsFor(p, r)

\* Nobody is linked while they are unlinked.
OneWay ==
    \A p \in Person : Unlinking(p) => p \in DOMAIN links /\ \A r : ~LinkingTo(p, r)

PagePromise == Doomed \/ (RowsTrue /\ OneWay)

Quiet == page.state # "closed" /\ past = {}

AgreeInv == TypeInv /\ ListedCreated /\ StampedBefore /\ (Quiet => PagePromise)

\* While the page stays, what goes wrong is not forgotten.
LEMMA QuietBefore == ASSUME TypeInv, [Next]_vars, Quiet', ~AskRegistrations PROVE Quiet
<1>1. CASE UNCHANGED vars
  BY <1>1 DEF vars, adminVars, Quiet
<1>2. CASE Tick \/ SendLater \/ LoadRegistrations \/ Hear
           \/ LoadPeople \/ RefreshData \/ GiveDelete \/ OthersGive \/ Handle \/ Start
  <2>1. past \subseteq past'
    BY <1>2 DEF Tick, SendLater, LoadRegistrations, Hear, LoadPeople, RefreshData, GiveDelete,
                OthersGive, Handle, Start, adminVars
  <2>2. page' = page \/ page.state = "asked" \/ Hear
    BY <1>2 DEF Tick, SendLater, LoadRegistrations, LoadPeople, RefreshData, GiveDelete,
                OthersGive, Handle, Start, adminVars
  <2>3. Hear => page'.state = page.state
    BY DEF Hear, TypeInv, PageTypes, PageType
  <2>. QED  BY <2>1, <2>2, <2>3 DEF Quiet
<1>3. CASE Leave
  BY <1>3 DEF Leave, Closed, Quiet
<1>4. CASE \E r \in Registration :
              LinkToNewPerson(r) \/ LinkToExistingPerson(r) \/ Unlink(r) \/ Remove(r)
  BY <1>4 DEF LinkToNewPerson, LinkToExistingPerson, Unlink, Remove, CanLink, Quiet
<1>. QED  BY <1>1, <1>2, <1>3, <1>4 DEF Next

\* Commands are on their way until they are handled.
LEMMA SentStays ==
    ASSUME [Next]_vars, ~Handle
    PROVE  sent \subseteq sent'
<1>1. CASE UNCHANGED vars
  BY <1>1 DEF vars, adminVars
<1>2. CASE Tick \/ SendLater \/ AskRegistrations \/ LoadRegistrations \/ Leave \/ Hear
           \/ LoadPeople \/ RefreshData \/ GiveDelete \/ OthersGive \/ Start
  BY <1>2 DEF Tick, SendLater, AskRegistrations, LoadRegistrations, Leave, Hear, LoadPeople,
              RefreshData, GiveDelete, OthersGive, Start, adminVars
<1>3. CASE \E r \in Registration :
              LinkToNewPerson(r) \/ LinkToExistingPerson(r) \/ Unlink(r) \/ Remove(r)
  BY <1>3 DEF LinkToNewPerson, LinkToExistingPerson, Unlink, Remove
<1>. QED  BY <1>1, <1>2, <1>3 DEF Next

\* What will fail for ever is never done with.
LEMMA DoomedNext == ASSUME TypeInv, Doomed, [Next]_vars PROVE Doomed'
<1>1. PICK c \in sent : c.kind = "CreatePerson" /\ stream[c.person] # <<>>
  BY DEF Doomed
<1>2. c.person \in Person
  BY DEF TypeInv, PageTypes, CommandType
<1>3. stream'[c.person] # <<>>
  BY <1>1, <1>2, StepGrows DEF Grows
<1>4. c \in sent'
  <2>1. CASE ~Handle
    BY <2>1, SentStays
  <2>2. CASE Handle
    <3>1. PICK d \in sent : sent' = IF Fails(d) THEN sent ELSE sent \ {d}
      BY <2>2, HandleIs DEF HandleOf
    <3>2. Fails(c)
      BY <1>1 DEF Fails, CreateFails
    <3>. QED  BY <3>1, <3>2
  <2>. QED  BY <2>1, <2>2
<1>. QED  BY <1>1, <1>3, <1>4 DEF Doomed

\* Links, links on their way and unlinks on their way are what they were.
SameHeads ==
    /\ links' = links
    /\ \A p : Unlinking(p)' <=> Unlinking(p)
    /\ \A p, r : LinkingTo(p, r)' <=> LinkingTo(p, r)

\* Nothing changes for anybody, and the rows that are left say what they said.
LEMMA HeadsStay ==
    ASSUME SameHeads, RowsTrue, OneWay,
           DOMAIN page'.rows \subseteq DOMAIN page.rows,
           \A r \in DOMAIN page'.rows : page'.rows[r] = page.rows[r]
    PROVE  RowsTrue' /\ OneWay'
<1>1. \A p, r : HeadsFor(p, r)' <=> HeadsFor(p, r)
  BY DEF SameHeads, HeadsFor
<1>2. RowsTrue'
  BY <1>1 DEF RowsTrue
<1>3. OneWay'
  BY DEF SameHeads, OneWay
<1>. QED  BY <1>2, <1>3

\* A command that is no link and no unlink comes or goes.
LEMMA OtherCommand ==
    ASSUME links' = links, later' = later, NEW c,
           c.kind \notin {"LinkPersonToHappening", "UnlinkPersonFromHappening"},
           sent' \subseteq sent \cup {c}, sent \subseteq sent' \cup {c}
    PROVE  SameHeads
<1>1. \A p : Unlinking(p)' <=> Unlinking(p)
  BY DEF Unlinking
<1>2. \A p, r : LinkingTo(p, r)' <=> LinkingTo(p, r)
  BY DEF LinkingTo, Pending
<1>. QED  BY <1>1, <1>2 DEF SameHeads

\* A new answer: nothing is on its way, and nobody shares a registration.
LEMMA AskAgrees ==
    ASSUME TypeInv, AskRegistrations, past' = {}
    PROVE  PagePromise'
<1>1. /\ page.state = "closed" /\ loads' = loads + 1 /\ loads < MaxLoads
      /\ page' = RegistrationRows(loads') /\ UNCHANGED <<links, sent, later>>
      /\ sent = {} /\ \A r \in Registration : \A p, q \in LinkedBy(r) : p = q
  BY DEF AskRegistrations, attendanceVars
<1>2. loads' \in 1 .. MaxLoads /\ later = {}
  BY <1>1, PageAssumption DEF TypeInv, PageTypes
<1>3. \A p, r : ~Unlinking(p)' /\ ~LinkingTo(p, r)'
  BY <1>1, <1>2 DEF Unlinking, LinkingTo, Pending
<1>4. /\ DOMAIN page'.rows = Registration
      /\ \A r \in Registration :
            \/ LinkedBy(r) = {} /\ page'.rows[r] = NoOne
            \/ LinkedBy(r) # {} /\ page'.rows[r] \in LinkedBy(r)
  BY <1>1, <1>2, AnswerIs
<1>5. ASSUME NEW r \in Registration, NEW p \in Person
      PROVE  page'.rows[r] = p <=> HeadsFor(p, r)'
  <2>1. HeadsFor(p, r)' <=> p \in LinkedBy(r)
    BY <1>1, <1>3 DEF HeadsFor, LinkedBy
  <2>2. p # NoOne
    BY ExistingAssumption
  <2>3. \A q \in LinkedBy(r) : p \in LinkedBy(r) => p = q
    BY <1>1
  <2>. QED  BY <1>4, <2>1, <2>2, <2>3
<1>6. RowsTrue' /\ OneWay'
  BY <1>3, <1>4, <1>5 DEF RowsTrue, OneWay
<1>. QED  BY <1>6 DEF PagePromise

\* What waited for its timer goes on waiting to be handled.
LEMMA SendSame == ASSUME TypeInv, SendLater PROVE SameHeads
<1>1. PICK l \in later : /\ later' = later \ {l}
                         /\ sent' = sent \cup {[l.command EXCEPT !.since = clock]}
  BY DEF SendLater
<1>2. links' = links
  BY DEF SendLater, attendanceVars
<1>. DEFINE c == [l.command EXCEPT !.since = clock]
            d == l.command
<1>3. d \in CommandType /\ d.kind = "LinkPersonToHappening"
  BY DEF TypeInv, PageTypes
<1>4. c.kind = d.kind /\ c.person = d.person /\ c.registration = d.registration
  BY <1>3 DEF CommandType
<1>5. sent' = sent \cup {c} /\ d \in Pending /\ c \in Pending'
  BY <1>1 DEF Pending
<1>. HIDE DEF c, d
<1>6. \A p : Unlinking(p)' <=> Unlinking(p)
  BY <1>3, <1>4, <1>5 DEF Unlinking
<1>7. Pending' \subseteq Pending \cup {c} /\ Pending \subseteq Pending' \cup {d}
  BY <1>1, <1>5 DEF Pending, d
<1>8. \A p, r : LinkingTo(p, r)' <=> LinkingTo(p, r)
  <2>. SUFFICES ASSUME NEW p, NEW r PROVE LinkingTo(p, r)' <=> LinkingTo(p, r)
    OBVIOUS
  <2>1. LinkingTo(p, r) => LinkingTo(p, r)'
    BY <1>4, <1>5, <1>7 DEF LinkingTo
  <2>2. LinkingTo(p, r)' => LinkingTo(p, r)
    BY <1>4, <1>5, <1>7 DEF LinkingTo
  <2>. QED  BY <2>1, <2>2
<1>. QED  BY <1>2, <1>6, <1>8 DEF SameHeads

\* Linking a row: its person heads for it, and nobody else did.
LEMMA LinkAgrees ==
    ASSUME TypeInv, RowsTrue, OneWay, NEW r \in Registration, NEW p \in Person,
           CanLink(r), LinkTo(r, p), ~Unlinking(p),
           \A c \in sent' : c \in sent \/ c.kind = "CreatePerson", sent \subseteq sent'
    PROVE  RowsTrue' /\ OneWay'
<1>. DEFINE c == Stamped(Command("LinkPersonToHappening", p, r))
            l == [command |-> c, due |-> clock + Delay]
<1>1. /\ c.kind = "LinkPersonToHappening" /\ c.person = p /\ c.registration = r
      /\ later' = later \cup {l}
      /\ r \in DOMAIN page.rows /\ page.rows[r] = NoOne
      /\ page' = [page EXCEPT !.rows[r] = p] /\ links' = links
  BY LinkToIs
<1>2. l.command = c
  OBVIOUS
<1>. HIDE DEF c, l
<1>3. /\ DOMAIN page'.rows = DOMAIN page.rows /\ page'.rows[r] = p
      /\ \A s \in DOMAIN page.rows : s # r => page'.rows[s] = page.rows[s]
  BY <1>1, RowSet DEF TypeInv
<1>4. \A q : Unlinking(q)' <=> Unlinking(q)
  BY DEF Unlinking
<1>5. ASSUME NEW q, NEW s
      PROVE  LinkingTo(q, s)' <=> LinkingTo(q, s) \/ (q = p /\ s = r)
  <2>1. Pending \subseteq Pending' /\ c \in Pending'
    BY <1>1, <1>2 DEF Pending
  <2>2. \A d \in Pending' : d \in Pending \/ d = c \/ d.kind = "CreatePerson"
    BY <1>1, <1>2 DEF Pending
  <2>3. LinkingTo(q, s) => LinkingTo(q, s)'
    BY <2>1 DEF LinkingTo
  <2>4. q = p /\ s = r => LinkingTo(q, s)'
    BY <1>1, <2>1 DEF LinkingTo
  <2>5. LinkingTo(q, s)' => LinkingTo(q, s) \/ (q = p /\ s = r)
    BY <1>1, <2>2 DEF LinkingTo
  <2>. QED  BY <2>3, <2>4, <2>5
<1>6. ASSUME NEW s \in DOMAIN page.rows, NEW q \in Person
      PROVE  page'.rows[s] = q <=> HeadsFor(q, s)'
  <2>1. HeadsFor(q, s)' <=> HeadsFor(q, s) \/ (q = p /\ s = r)
    BY <1>1, <1>4, <1>5 DEF HeadsFor
  <2>2. page.rows[s] = q <=> HeadsFor(q, s)
    BY DEF RowsTrue
  <2>3. q # NoOne
    BY ExistingAssumption
  <2>. QED  BY <1>1, <1>3, <2>1, <2>2, <2>3
<1>7. RowsTrue'
  BY <1>3, <1>6 DEF RowsTrue
<1>8. OneWay'
  BY <1>1, <1>4, <1>5 DEF OneWay
<1>. QED  BY <1>7, <1>8

\* Unlinking a row: its person heads nowhere, if nothing else is on its way.
LEMMA UnlinkAgrees ==
    ASSUME TypeInv, RowsTrue, OneWay, NEW r \in Registration, Unlink(r), past' = {}
    PROVE  RowsTrue' /\ OneWay'
<1>. DEFINE p == page.rows[r]
            c == Command("UnlinkPersonFromHappening", p, r)
<1>1. /\ r \in DOMAIN page.rows /\ p # NoOne
      /\ sent' = sent \cup {c} /\ past' = past \cup HastyWith(p)
      /\ page' = [page EXCEPT !.rows[r] = NoOne]
      /\ UNCHANGED <<links, later>>
  BY DEF Unlink, attendanceVars
<1>2. p \in Person
  BY <1>1, RowsAre DEF TypeInv, PageTypes, PageType
<1>3. /\ DOMAIN page'.rows = DOMAIN page.rows /\ page'.rows[r] = NoOne
      /\ \A s \in DOMAIN page.rows : s # r => page'.rows[s] = page.rows[s]
  BY <1>1, RowSet DEF TypeInv
<1>4. c.kind = "UnlinkPersonFromHappening" /\ c.person = p
  BY DEF Command
<1>5. \A d \in Pending : d.person # p
  BY <1>1 DEF HastyWith, Pending
<1>6. \A s : ~LinkingTo(p, s)
  BY <1>5 DEF LinkingTo
<1>7. p \in DOMAIN links /\ \A s \in DOMAIN page.rows : page.rows[s] = p => s = r
  <2>1. HeadsFor(p, r)
    BY <1>1, <1>2 DEF RowsTrue
  <2>2. \A s \in DOMAIN page.rows : page.rows[s] = p => HeadsFor(p, s)
    BY <1>2 DEF RowsTrue
  <2>. QED  BY <1>6, <2>1, <2>2 DEF HeadsFor
<1>. HIDE DEF c
<1>8. ASSUME NEW q PROVE Unlinking(q)' <=> Unlinking(q) \/ q = p
  BY <1>1, <1>4 DEF Unlinking
<1>9. ASSUME NEW q, NEW s PROVE LinkingTo(q, s)' <=> LinkingTo(q, s)
  <2>1. Pending' = Pending \cup {c}
    BY <1>1 DEF Pending
  <2>. QED  BY <1>4, <2>1 DEF LinkingTo
<1>10. ASSUME NEW s \in DOMAIN page.rows, NEW q \in Person
       PROVE  page'.rows[s] = q <=> HeadsFor(q, s)'
  <2>1. q # NoOne /\ (page.rows[s] = q <=> HeadsFor(q, s))
    BY ExistingAssumption DEF RowsTrue
  <2>2. CASE q = p
    <3>1. ~HeadsFor(q, s)'
      BY <1>6, <1>8, <1>9, <2>2 DEF HeadsFor
    <3>2. page'.rows[s] # q
      BY <1>3, <1>7, <2>1, <2>2
    <3>. QED  BY <3>1, <3>2
  <2>3. CASE q # p
    <3>1. HeadsFor(q, s)' <=> HeadsFor(q, s)
      BY <1>1, <1>8, <1>9, <2>3 DEF HeadsFor
    <3>2. page'.rows[s] = q <=> page.rows[s] = q
      BY <1>3, <2>1, <2>3
    <3>. QED  BY <2>1, <3>1, <3>2
  <2>. QED  BY <2>2, <2>3
<1>11. RowsTrue'
  BY <1>3, <1>10 DEF RowsTrue
<1>12. OneWay'
  <2>1. SUFFICES ASSUME NEW q \in Person, Unlinking(q)'
                 PROVE  q \in DOMAIN links /\ \A s : ~LinkingTo(q, s)
    BY <1>1, <1>9 DEF OneWay
  <2>. QED  BY <1>6, <1>7, <1>8, <2>1 DEF OneWay
<1>. QED  BY <1>11, <1>12

\* Linking a row to somebody whom the page offers.
LEMMA ExistingAgrees ==
    ASSUME TypeInv, RowsTrue, OneWay, NEW r \in Registration, LinkToExistingPerson(r), past' = {}
    PROVE  RowsTrue' /\ OneWay'
<1>1. PICK p \in Offered(r) : LinkTo(r, p) /\ past' = past \cup HastyWith(p)
  BY DEF LinkToExistingPerson
<1>2. CanLink(r) /\ sent' = sent
  BY DEF LinkToExistingPerson
<1>3. p \in Person
  BY DEF Offered, TypeInv, PageTypes, PageType
<1>4. ~Unlinking(p)
  BY <1>1 DEF HastyWith, Unlinking
<1>. QED  BY <1>1, <1>2, <1>3, <1>4, LinkAgrees

\* Who is created again is lost: the creation never ends.
LEMMA NewAgrees ==
    ASSUME TypeInv, ListedCreated, RowsTrue, OneWay, NEW r \in Registration, LinkToNewPerson(r)
    PROVE  PagePromise'
<1>. DEFINE p == page.newPerson[r]
            d == Command("CreatePerson", p, r)
<1>1. CanLink(r) /\ LinkTo(r, p) /\ sent' = sent \cup {d}
  BY DEF LinkToNewPerson
<1>2. p \in Person /\ stream' = stream
  BY <1>1, PageAssumption DEF CanLink, LinkTo, attendanceVars, TypeInv, PageTypes
<1>3. d.kind = "CreatePerson" /\ d.person = p
  BY DEF Command
<1>. HIDE DEF p, d
<1>4. CASE stream[p] # <<>>
  BY <1>1, <1>2, <1>3, <1>4 DEF PagePromise, Doomed
<1>5. CASE stream[p] = <<>>
  <2>1. p \notin DOMAIN links
    BY <1>5 DEF ListedCreated
  <2>2. ~Unlinking(p)
    BY <1>2, <2>1 DEF OneWay
  <2>3. RowsTrue' /\ OneWay'
    BY <1>1, <1>2, <1>3, <2>2, LinkAgrees
  <2>. QED  BY <2>3 DEF PagePromise
<1>. QED  BY <1>4, <1>5

\* What was on its way has come true.
LEMMA HandleAgrees ==
    ASSUME TypeInv, ListedCreated, RowsTrue, OneWay, NEW c \in sent, HandleOf(c), past' = {}
    PROVE  RowsTrue' /\ OneWay'
<1>. DEFINE p == c.person
            r == c.registration
<1>1. c \in CommandType /\ p \in Person /\ c.kind \in Kind
  BY DEF TypeInv, PageTypes, CommandType
<1>2. ~Fails(c) /\ ~Ignores(c)
  <2>1. past' = past \cup PastOf(c)
    BY DEF HandleOf
  <2>2. "refused" \notin PastOf(c) /\ "fails" \notin PastOf(c)
    BY <2>1
  <2>. QED  BY <2>2 DEF PastOf, Happened
<1>3. sent' = sent \ {c} /\ later' = later /\ page' = page /\ Effect(c)
  BY <1>2 DEF HandleOf
<1>5. DOMAIN page.rows \subseteq Registration
  BY RowsAre DEF TypeInv, PageTypes, PageType
<1>6. ASSUME NEW q PROVE Unlinking(q)' => Unlinking(q)
  BY <1>3 DEF Unlinking
<1>7. ASSUME NEW q, NEW s PROVE LinkingTo(q, s)' => LinkingTo(q, s)
  <2>1. Pending' \subseteq Pending
    BY <1>3 DEF Pending
  <2>. QED  BY <2>1 DEF LinkingTo
<1>8. ASSUME NEW q, NEW s, q # p
      PROVE  (Unlinking(q)' <=> Unlinking(q)) /\ (LinkingTo(q, s)' <=> LinkingTo(q, s))
  <2>1. Unlinking(q) => Unlinking(q)'
    BY <1>3, <1>8 DEF Unlinking
  <2>2. \A d \in Pending : d \in Pending' \/ d = c
    BY <1>3 DEF Pending
  <2>3. LinkingTo(q, s) => LinkingTo(q, s)'
    BY <1>8, <2>2 DEF LinkingTo
  <2>. QED  BY <1>6, <1>7, <2>1, <2>3
<1>9. ASSUME \A q \in Person : q # p /\ q \in DOMAIN links =>
                q \in DOMAIN links' /\ links'[q] = links[q],
             \A q \in Person : q # p /\ q \in DOMAIN links' => q \in DOMAIN links,
             \A s \in DOMAIN page.rows : HeadsFor(p, s)' <=> HeadsFor(p, s),
             Unlinking(p) => p \in DOMAIN links'
      PROVE  RowsTrue' /\ OneWay'
  <2>1. ASSUME NEW q \in Person, NEW s \in DOMAIN page.rows
        PROVE  HeadsFor(q, s)' <=> HeadsFor(q, s)
    <3>1. CASE q = p
      BY <1>9, <3>1 DEF HeadsFor, LinkingTo, Unlinking, Pending
    <3>2. CASE q # p
      <4>1. (Unlinking(q)' <=> Unlinking(q)) /\ (LinkingTo(q, s)' <=> LinkingTo(q, s))
        BY <1>8, <3>2
      <4>2. (q \in DOMAIN links' /\ links'[q] = s) <=> (q \in DOMAIN links /\ links[q] = s)
        BY <1>9, <3>2
      <4>. QED  BY <4>1, <4>2 DEF HeadsFor
    <3>. QED  BY <3>1, <3>2
  <2>2. RowsTrue'
    BY <1>3, <2>1 DEF RowsTrue
  <2>3. OneWay'
    <3>1. SUFFICES ASSUME NEW q \in Person, Unlinking(q)'
                   PROVE  q \in DOMAIN links' /\ \A s : ~LinkingTo(q, s)'
      BY DEF OneWay
    <3>2. q \in DOMAIN links /\ \A s : ~LinkingTo(q, s)
      BY <1>6, <3>1 DEF OneWay
    <3>. QED  BY <1>6, <1>7, <1>9, <3>1, <3>2
  <2>. QED  BY <2>2, <2>3
<1>10. CASE c.kind = "CreatePerson"
  <2>1. stream[p] = <<>>
    BY <1>2, <1>10 DEF Fails, CreateFails
  <2>2. links' = [q \in DOMAIN links \cup {p} |-> IF q = p THEN NoOne ELSE links[q]]
    BY <1>2, <1>3, <1>10, <2>1 DEF Effect, HandleOf, CreateFails
  <2>3. p \notin DOMAIN links
    BY <2>1 DEF ListedCreated
  <2>4. ~Unlinking(p)
    BY <1>1, <2>3 DEF OneWay
  <2>5. \A s : LinkingTo(p, s)' <=> LinkingTo(p, s)
    BY <1>3, <1>10 DEF LinkingTo, Pending
  <2>6. p \in DOMAIN links' /\ links'[p] = NoOne
    BY <2>2
  <2>7. \A s \in DOMAIN page.rows : HeadsFor(p, s)' <=> HeadsFor(p, s)
    <3>. SUFFICES ASSUME NEW s \in DOMAIN page.rows PROVE HeadsFor(p, s)' <=> HeadsFor(p, s)
      OBVIOUS
    <3>1. s # NoOne
      BY <1>5, ExistingAssumption
    <3>2. ~(links'[p] = s)
      BY <2>6, <3>1
    <3>3. HeadsFor(p, s)' <=> LinkingTo(p, s)'
      BY <3>2 DEF HeadsFor
    <3>4. HeadsFor(p, s) <=> LinkingTo(p, s)
      BY <2>3 DEF HeadsFor
    <3>. QED  BY <2>5, <3>3, <3>4
  <2>. QED  BY <1>9, <2>2, <2>4, <2>7
<1>11. CASE c.kind = "LinkPersonToHappening"
  <2>1. p \in DOMAIN links /\ links[p] = NoOne
    BY <1>2, <1>11 DEF Fails, Ignores, LinkThrows
  <2>2. links' = [links EXCEPT ![p] = r]
    BY <1>2, <1>3, <1>11, <2>1 DEF Effect, HandleOf, Ignores, LinkThrows
  <2>3. LinkingTo(p, r)
    BY <1>11 DEF LinkingTo, Pending
  <2>4. ~Unlinking(p)
    BY <1>1, <2>3 DEF OneWay
  <2>5. ~Unlinking(p)'
    BY <1>6, <2>4
  <2>6. links'[p] = r /\ p \in DOMAIN links'
    BY <2>1, <2>2
  <2>7. \A s \in DOMAIN page.rows : HeadsFor(p, s)' <=> HeadsFor(p, s)
    <3>. SUFFICES ASSUME NEW s \in DOMAIN page.rows PROVE HeadsFor(p, s)' <=> HeadsFor(p, s)
      OBVIOUS
    <3>1. CASE s = r
      <4>1. HeadsFor(p, s)'
        BY <2>5, <2>6, <3>1 DEF HeadsFor
      <4>2. HeadsFor(p, s)
        BY <2>3, <3>1 DEF HeadsFor
      <4>. QED  BY <4>1, <4>2
    <3>2. CASE s # r
      <4>1. LinkingTo(p, s)' <=> LinkingTo(p, s)
        <5>1. \A d \in Pending : d \in Pending' \/ d = c
          BY <1>3 DEF Pending
        <5>2. LinkingTo(p, s) => LinkingTo(p, s)'
          BY <3>2, <5>1 DEF LinkingTo
        <5>. QED  BY <1>7, <5>2
      <4>2. HeadsFor(p, s)' <=> LinkingTo(p, s)'
        BY <2>6, <3>2 DEF HeadsFor
      <4>3. HeadsFor(p, s) <=> LinkingTo(p, s)
        BY <1>5, <2>1, ExistingAssumption DEF HeadsFor
      <4>. QED  BY <4>1, <4>2, <4>3
    <3>. QED  BY <3>1, <3>2
  <2>. QED  BY <1>9, <2>1, <2>2, <2>4, <2>7
<1>12. CASE c.kind = "UnlinkPersonFromHappening"
  <2>1. links' = [q \in DOMAIN links |-> IF q = p THEN NoOne ELSE links[q]]
    BY <1>2, <1>3, <1>12 DEF Effect, HandleOf, Ignores
  <2>2. Unlinking(p)
    BY <1>12 DEF Unlinking
  <2>3. p \in DOMAIN links /\ \A s : ~LinkingTo(p, s)
    BY <1>1, <2>2 DEF OneWay
  <2>4. \A s \in DOMAIN page.rows : HeadsFor(p, s)' <=> HeadsFor(p, s)
    <3>. SUFFICES ASSUME NEW s \in DOMAIN page.rows PROVE ~HeadsFor(p, s)' /\ ~HeadsFor(p, s)
      OBVIOUS
    <3>1. s # NoOne /\ links'[p] = NoOne
      BY <1>5, <2>1, <2>3, ExistingAssumption
    <3>2. ~LinkingTo(p, s)'
      BY <1>7, <2>3
    <3>3. ~HeadsFor(p, s)'
      BY <3>1, <3>2 DEF HeadsFor
    <3>4. ~HeadsFor(p, s)
      BY <2>2, <2>3 DEF HeadsFor
    <3>. QED  BY <3>3, <3>4
  <2>. QED  BY <1>9, <2>1, <2>3, <2>4
<1>13. CASE c.kind = "DeletePerson"
  <2>1. links' = links
    BY <1>3, <1>13 DEF Effect
  <2>2. SameHeads
    BY <1>3, <1>13, <2>1, OtherCommand
  <2>. QED  BY <1>3, <2>2, HeadsStay
<1>. QED  BY <1>1, <1>10, <1>11, <1>12, <1>13 DEF Kind

\* AgreeInv is inductive.
LEMMA AgreeNext == ASSUME AgreeInv, [Next]_vars PROVE AgreeInv'
<1>. TypeInv /\ ListedCreated /\ StampedBefore
  BY DEF AgreeInv
<1>1. TypeInv' /\ ListedCreated' /\ StampedBefore'
  BY NextTypes, ListedNext, StampedNext
<1>. SUFFICES ASSUME Quiet' PROVE PagePromise'
  BY <1>1 DEF AgreeInv
<1>2. past' = {}
  BY DEF Quiet
<1>3. CASE AskRegistrations
  BY <1>2, <1>3, AskAgrees
<1>. SUFFICES ASSUME ~AskRegistrations PROVE PagePromise'
  BY <1>3
<1>4. PagePromise
  BY QuietBefore DEF AgreeInv
<1>5. CASE Doomed
  BY <1>5, DoomedNext DEF PagePromise
<1>. SUFFICES ASSUME RowsTrue, OneWay PROVE PagePromise'
  BY <1>4, <1>5 DEF PagePromise
<1>6. SUFFICES ASSUME \A r \in Registration : ~LinkToNewPerson(r) PROVE RowsTrue' /\ OneWay'
  BY NewAgrees DEF PagePromise
<1>7. page \in PageType
  BY DEF TypeInv, PageTypes
<1>8. ASSUME UNCHANGED <<links, sent, later>> PROVE SameHeads
  BY <1>8 DEF SameHeads, Unlinking, LinkingTo, Pending
<1>9. CASE UNCHANGED vars \/ Tick \/ LoadRegistrations \/ Hear \/ LoadPeople \/ RefreshData \/ Start
  <2>1. UNCHANGED <<links, sent, later>>
    BY <1>9 DEF vars, adminVars, attendanceVars, Tick, LoadRegistrations, Hear, LoadPeople,
                RefreshData, Start, StartHappening
  <2>2. page'.rows = page.rows
    BY <1>7, <1>9 DEF vars, adminVars, Tick, LoadRegistrations, Hear, LoadPeople,
                      RefreshData, Start, PageType
  <2>. QED  BY <1>8, <2>1, <2>2, HeadsStay
<1>10. CASE Leave
  BY <1>10 DEF Leave, Closed, Quiet
<1>11. CASE SendLater
  <2>1. page' = page
    BY <1>11 DEF SendLater
  <2>. QED  BY <1>11, <2>1, SendSame, HeadsStay
<1>12. ASSUME NEW r \in Registration, LinkToExistingPerson(r) \/ Unlink(r)
       PROVE  RowsTrue' /\ OneWay'
  BY <1>2, <1>12, ExistingAgrees, UnlinkAgrees
<1>13. ASSUME NEW r \in Registration, Remove(r)
       PROVE  RowsTrue' /\ OneWay'
  <2>1. UNCHANGED <<links, sent, later>>
    BY <1>13 DEF Remove, attendanceVars
  <2>2. page'.rows = [s \in DOMAIN page.rows \ {r} |-> page.rows[s]]
    BY <1>7, <1>13 DEF Remove, PageType
  <2>. QED  BY <1>8, <2>1, <2>2, HeadsStay
<1>14. CASE GiveDelete
  <2>1. PICK p : sent' = sent \cup {Command("DeletePerson", p, NoOne)}
    BY <1>14 DEF GiveDelete
  <2>. DEFINE c == Command("DeletePerson", p, NoOne)
  <2>2. c.kind = "DeletePerson"
    BY DEF Command
  <2>3. UNCHANGED <<links, later, page>>
    BY <1>14 DEF GiveDelete, attendanceVars
  <2>. HIDE DEF c
  <2>4. sent' = sent \cup {c}
    BY <2>1 DEF c
  <2>5. SameHeads
    BY <2>2, <2>3, <2>4, OtherCommand
  <2>. QED  BY <2>3, <2>5, HeadsStay
<1>15. CASE OthersGive
  BY <1>2, <1>15 DEF OthersGive
<1>16. CASE Handle
  BY <1>2, <1>16, HandleIs, HandleAgrees
<1>. QED  BY <1>6, <1>9, <1>10, <1>11, <1>12, <1>13, <1>14, <1>15, <1>16 DEF Next

\* As long as nothing has been ignored, given too soon or handled too late, and nobody else
\* has been at work since the page was asked for, its rows show who is linked, once all
\* its commands have been handled.
THEOREM RowsAgreeHolds == Spec => []RowsAgree
<1>1. Init => AgreeInv
  <2>1. Init => TypeInv /\ ListedCreated /\ StampedBefore
    BY InitCreated DEF CreatedInv
  <2>2. Init => ~Quiet
    BY DEF Init, Closed, Quiet
  <2>. QED  BY <2>1, <2>2 DEF AgreeInv
<1>2. AgreeInv /\ [Next]_vars => AgreeInv'
  BY AgreeNext
<1>3. AgreeInv => RowsAgree
  <2>1. SUFFICES ASSUME AgreeInv, page.state = "open", sent = {}, later = {}, past = {},
                        NEW r \in DOMAIN page.rows
                 PROVE  LinkedBy(r) = IF page.rows[r] = NoOne THEN {} ELSE {page.rows[r]}
    BY DEF RowsAgree
  <2>2. RowsTrue
    BY <2>1 DEF AgreeInv, Quiet, PagePromise, Doomed
  <2>3. \A p \in Person : HeadsFor(p, r) <=> p \in LinkedBy(r)
    BY <2>1 DEF HeadsFor, LinkingTo, Unlinking, Pending, LinkedBy
  <2>4. LinkedBy(r) \subseteq Person /\ page.rows[r] \in Person \cup {NoOne}
    BY <2>1, RowsAre DEF AgreeInv, TypeInv, ServerTypes, LinkedBy, PageTypes, PageType
  <2>5. \A p \in Person : p \in LinkedBy(r) <=> page.rows[r] = p
    BY <2>2, <2>3 DEF RowsTrue
  <2>6. NoOne \notin Person
    BY ExistingAssumption
  <2>. QED  BY <2>4, <2>5, <2>6
<1>. QED  BY <1>1, <1>2, <1>3, PTL DEF Spec

=============================================================================
