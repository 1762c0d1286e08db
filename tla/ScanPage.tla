------------------------------- MODULE ScanPage -------------------------------
(***************************************************************************)
(* Scanning on a contributor's page.  Two key readers, one for barcodes    *)
(* and one for NFC tags, listen to the same keys; a code that is a person's *)
(* becomes a row of the log and a command; the report on the same page     *)
(* says at which checkpoint; the server publishes what it made of it and,  *)
(* after that, the invocation returns, which the log takes for an          *)
(* acknowledgement.  The page is that of LiveReport.                       *)
(***************************************************************************)
EXTENDS LiveReport, Barcode, Functions

Ext == INSTANCE SequencesExt

CONSTANTS
    Barcodes,      \* Barcodes[p]: the id of person p, a barcode
    Tags,          \* Tags[p]: the NFC tag of those persons who have one
    TestCode,      \* the barcode that only tries out the reader
    BarcodeLength,
    TagLength,
    MaxTyped,      \* bound: keys between two readings
    MaxAcks        \* bound: acknowledgements of a command under way

ASSUME CodesAssumption ==
    /\ DOMAIN Barcodes = Person /\ DOMAIN Tags \subseteq Person
    /\ \A p \in Person : Barcodes[p] \in Seq(Word) /\ Len(Barcodes[p]) = BarcodeLength
    /\ \A p, q \in Person : Barcodes[p] = Barcodes[q] => p = q
    /\ \A p \in DOMAIN Tags : Tags[p] \in Seq(Word) /\ Len(Tags[p]) = TagLength
    /\ BarcodeLength \in Nat \ {0} /\ TagLength > BarcodeLength
    /\ \A p, q \in Person : q \in DOMAIN Tags => ~Ext!IsSuffix(Barcodes[p], Tags[q])

VARIABLES
    readers, \* the two key readers
    typed,   \* history: the keys since a Return that both took
    rows,    \* the rows of the log
    due      \* the commands of the page that have run, but for their ack

scanVars == <<readers, typed, rows, due>>

allVars == <<vars, scanVars>>

\* ScanLogRow. id: that of the command, 0 if it never was sent to a checkpoint; outcome:
\* the command whose event the row shows.
LogRow(id, p) == [id |-> id, person |-> p, status |-> "new", outcome |-> 0]

Own == {rows[i].id : i \in DOMAIN rows} \ {0}

\* An acknowledgement carries the command.
AckOf(c) == [name |-> "ack", place |-> c.place, person |-> c.person, time |-> c.at]

ScanInit ==
    /\ Init
    /\ readers = [r \in {"barcode", "nfc"} |-> Idle]
    /\ typed = <<>>
    /\ rows = <<>>
    /\ due = {}

-----------------------------------------------------------------------------
(* A key.                                                                  *)

LengthOf(r) == IF r = "barcode" THEN BarcodeLength ELSE TagLength

IsHanded(r, k) == HandsOver(readers[r], k, LengthOf(r))

\* nfcTagToPersonId: what is no tag of anybody's is passed through.
CodeRead(r) ==
    LET code == readers[r].buffer
        holders == {p \in DOMAIN Tags : Tags[p] = code}
    IN  IF r = "nfc" /\ holders # {} THEN Barcodes[CHOOSE p \in holders : TRUE] ELSE code

\* The attendees and their tags are looked up in maps that come with the data.
ReadThrows(r, k) ==
    /\ IsHanded(r, k)
    /\ answer # "loaded"
    /\ r = "nfc" \/ readers[r].buffer # TestCode

\* ScanValidator: the code is that of an attendee who is not listed as one who has quit
\* or completed.
Validates(code, p) == code # TestCode /\ Barcodes[p] = code /\ ~IsListed(p)

ReadersAfter(k) ==
    [r \in DOMAIN readers |-> IF ReadThrows(r, k) THEN readers[r] ELSE KeyRead(readers[r], k)]

\* A Return that a reader throws on leaves it the keys.
TypedAfter(k) ==
    IF k = "Shift" \/ (\E r \in DOMAIN readers : ReadThrows(r, k)) THEN typed
    ELSE IF k = "Return" THEN <<>> ELSE Append(typed, k)

\* The response is only listened to when the page has once been connected.
Listens == link = "up" \/ losses > 0

\* barcodeComplete, with checkpointForScanRequest: a row, and a command if the
\* report can tell the checkpoint. Behind the last one the command has none, and fails
\* whenever it is sent.
Scan(p) ==
    IF CanInfer(view, p) /\ Listens /\ InferredPlace(view, p) # NoPlace
      THEN /\ Send("Scan", p, InferredPlace(view, p))
           /\ rows' = Append(rows, LogRow(now + 1, p))
      ELSE /\ rows' = Append(rows, LogRow(0, p))
           /\ UNCHANGED vars

KeyUp(k) ==
    /\ k # "Return" => Len(typed) < MaxTyped
    /\ readers' = ReadersAfter(k)
    /\ typed' = TypedAfter(k)
    /\ UNCHANGED due

KeyNotRead(k) ==
    /\ KeyUp(k)
    /\ \A r \in DOMAIN readers, p \in Person :
          IsHanded(r, k) /\ ~ReadThrows(r, k) => ~Validates(CodeRead(r), p)
    /\ UNCHANGED <<vars, rows>>

KeyReads(r, k, p) ==
    /\ KeyUp(k)
    /\ IsHanded(r, k) /\ ~ReadThrows(r, k)
    /\ Validates(CodeRead(r), p)
    /\ Scan(p)

TimeOut(r) ==
    /\ readers[r].armed
    /\ readers' = [readers EXCEPT ![r] = TimedOut(@)]
    /\ UNCHANGED <<vars, typed, rows, due>>

\* StartScanViewModel.add: a start reading for everybody, at the first checkpoint
\* and with one typed time, before the page is shown something else.
AddStartScans ==
    /\ answer = "loaded" /\ Place # {} /\ Listens
    /\ now + Cardinality(Person) <= MaxCommands
    /\ now' = now + Cardinality(Person)
    /\ \E at \in Bijection(Person, now + 1 .. now') :
          sent' = sent \cup {[Command("StartScan", p, 1, at[p]) EXCEPT
                                 !.time = ToServerTimeFromInputDate(FormatTime(now + 1))]
                               : p \in Person}
    /\ UNCHANGED <<serverVars, pageVars, past, scanVars>>

-----------------------------------------------------------------------------
(* The answers of the server.                                              *)

\* The command bus delivers a command of the page while it is connected.
HandleScan(c) ==
    /\ c.at \in Own => link = "up"
    /\ Handle(c)
    /\ due' = due \cup {d \in {c} : d.at \in Own}
    /\ UNCHANGED <<readers, typed, rows>>

\* The invocation returns after the handler has published its events, and once more
\* whenever the command is sent again: notifyWhenSent.
Ack(c) ==
    /\ link = "up"
    /\ Cardinality({i \in DOMAIN wire : wire[i] = AckOf(c)}) < MaxAcks
    /\ wire' = Append(wire, AckOf(c))
    /\ UNCHANGED <<now, sent, serverVars, link, losses, answer, data, view, topic, past>>
    /\ UNCHANGED scanVars

IsAck == wire # <<>> /\ Head(wire).name = "ack"

DeliverAck ==
    /\ IsAck
    /\ wire' = Tail(wire)
    /\ LET id == Head(wire).time
       IN  /\ rows' = [i \in DOMAIN rows |->
                         IF rows[i].id = id THEN [rows[i] EXCEPT !.status = "ack"] ELSE rows[i]]
           /\ due' = {c \in due : c.at # id}
    /\ UNCHANGED <<now, sent, serverVars, link, losses, answer, data, view, topic, past>>
    /\ UNCHANGED <<readers, typed>>

ErrorEvents == {"AttendeeDoubleScan", "AttendeeScanOutPreceedsScanIn"}

SuccessEvents == {"AttendeeScanIn", "AttendeeScanOut", "AttendeePassthroughScan"}

\* findRow: the last row of the person that has been acknowledged, and no more.
IsFoundRow(i, e) ==
    LET acked == {j \in DOMAIN rows : rows[j].person = e.person /\ rows[j].status = "ack"}
    IN  i \in acked /\ \A j \in acked : j <= i

SetRowStatus(row, e) ==
    CASE e.name \in SuccessEvents -> [row EXCEPT !.status = "ok", !.outcome = e.time]
      [] e.name \in ErrorEvents   -> [row EXCEPT !.status = "error", !.outcome = e.time]
      [] OTHER                    -> row

\* A topic that has stopped reaches the log no more than the report.
DeliverEvent ==
    /\ ~IsAck
    /\ Deliver
    /\ rows' = IF topic = "stuck" THEN rows
               ELSE [i \in DOMAIN rows |->
                       IF IsFoundRow(i, Head(wire)) THEN SetRowStatus(rows[i], Head(wire))
                                                    ELSE rows[i]]
    /\ UNCHANGED <<readers, typed, due>>

ScanNext ==
    \/ \E k \in Key : KeyNotRead(k)
    \/ \E r \in DOMAIN readers, k \in Key, p \in Person : KeyReads(r, k, p)
    \/ \E r \in DOMAIN readers : TimeOut(r)
    \/ AddStartScans
    \/ \E c \in sent : HandleScan(c)
    \/ \E c \in due : Ack(c)
    \/ DeliverAck
    \/ DeliverEvent
    \/ (OthersGive \/ Answer \/ Load \/ Fail \/ Connect \/ Disconnect) /\ UNCHANGED scanVars

ScanSpec == ScanInit /\ [][ScanNext]_allVars

-----------------------------------------------------------------------------
(* Properties.                                                             *)

\* Nobody is scanned by the keys of two readings, nor twice by those of one:
\* each row of the log is for a code typed in full since the last Return, except
\* that a Return before the page's data is there leaves the keys to the next.
IsTyped(p) ==
    \/ Ext!IsSuffix(Barcodes[p], typed)
    \/ p \in DOMAIN Tags /\ Ext!IsSuffix(Tags[p], typed)

WholeReading ==
    [][/\ Len(rows') <= Len(rows) + 1
       /\ Len(rows') > Len(rows) => IsTyped(rows'[Len(rows')].person)]_allVars

\* As long as the other pages do nothing but scan: a page that lags, or has stopped
\* hearing of events, sends a reading to a checkpoint that the person has been to;
\* never to one that is ahead of where the server has them.
NeverAhead ==
    \A p \in Person :
        answer = "loaded" /\ CanInfer(view, p)
          => LET V == DataInit(dashboard)
             IN  /\ CanInfer(V, p)
                 /\ \/ InferredPlace(V, p) = NoPlace
                    \/ /\ InferredPlace(view, p) # NoPlace
                       /\ InferredPlace(view, p) <= InferredPlace(V, p)

\* Once the page has caught up it tells the checkpoint as the server's dashboard
\* would.
SamePlaceWhenCaughtUp ==
    CaughtUp => LET V == DataInit(dashboard)
                IN  \A p \in Person :
                       /\ CanInfer(view, p) = CanInfer(V, p)
                       /\ CanInfer(V, p) => InferredPlace(view, p) = InferredPlace(V, p)

\* "When we get scan answers, change log row status" (ScanViewModel): the outcome
\* that a row shows is that of its own reading.
OutcomeIsItsOwn ==
    \A i \in DOMAIN rows : rows[i].outcome # 0 => rows[i].outcome = rows[i].id

=============================================================================
