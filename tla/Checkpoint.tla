------------------------------ MODULE Checkpoint ------------------------------
(***************************************************************************)
(* The aggregate Checkpoint: the readings of the people who passed one     *)
(* checkpoint, and what scanning, removing a scan and changing its time    *)
(* turn into.  Operations are functions from the rebuilt state to the      *)
(* sequence of events they apply; CheckpointScans runs them.               *)
(***************************************************************************)
EXTENDS Naturals, Sequences

CONSTANT DoubleReadingThreshold \* DoubleReadingThresholdSeconds

ASSUME DoubleReadingThresholdAssumption == DoubleReadingThreshold \in Nat \ {0}

CheckpointType == {"Start", "Pitstop", "Passthrough", "Finish"}

ScanTimeType == {"In", "Out", "Passthrough"}

\* A row of ReadingsIn or ReadingsOut. "at" is its TimeStamp; "shown", which
\* the aggregate does not keep, is the time the person is shown to have passed.
NewReading(e) == [person |-> e.person, at |-> e.at, shown |-> e.time]

\* ScanInfo: "at" is the time of the client's command, "time" the time that it
\* gives for the scan, typed by the user or the same.
Event(type, info) == [type |-> type, person |-> info.person,
                      at |-> info.at, time |-> info.time]

-----------------------------------------------------------------------------
(* CheckpointState.                                                        *)

Blank == [in |-> <<>>, out |-> <<>>]

Readings(list, p) == {i \in DOMAIN list : list[i].person = p}

IsRead(list, p) == Readings(list, p) # {}

FirstIndex(list, p) ==
    CHOOSE i \in Readings(list, p) : \A j \in Readings(list, p) : i <= j

FirstReading(list, p) == list[FirstIndex(list, p)]

\* RemoveAll(r => r.Person == p)
Removed(list, p) ==
    LET left[n \in 0 .. Len(list)] ==
          IF n = 0 THEN <<>>
          ELSE IF list[n].person = p THEN left[n - 1]
               ELSE Append(left[n - 1], list[n])
    IN  left[Len(list)]

\* First(...).TimeStamp = e.NewTime
Changed(list, e) ==
    [list EXCEPT ![FirstIndex(list, e.person)].at = e.time,
                 ![FirstIndex(list, e.person)].shown = e.time]

ChangesIn(e) ==
    e.type \in {"AttendeeScanInTimeChanged", "AttendeePassthroughScanTimeChanged"}

ChangesOut(e) ==
    e.type \in {"AttendeeScanOutTimeChanged", "AttendeePassthroughScanTimeChanged"}

\* A change of time throws when there is no reading to change.
Throws(S, e) ==
    \/ ChangesIn(e) /\ ~IsRead(S.in, e.person)
    \/ ChangesOut(e) /\ ~IsRead(S.out, e.person)

AddsIn(e) == e.type \in {"AttendeeScanIn", "AttendeePassthroughScan"}
AddsOut(e) == e.type \in {"AttendeeScanOut", "AttendeePassthroughScan"}
RemovesIn(e) == e.type = "AttendeeScanInRemoved"
RemovesOut(e) == e.type = "AttendeeScanOutRemoved"

\* Handled by an empty When: double readings, refusals and announcements.
ChangesNothing(e) ==
    ~(AddsIn(e) \/ AddsOut(e) \/ RemovesIn(e) \/ RemovesOut(e)
      \/ ChangesIn(e) \/ ChangesOut(e))

Applied(S, e) ==
    [in  |-> CASE AddsIn(e)    -> Append(S.in, NewReading(e))
               [] RemovesIn(e) -> Removed(S.in, e.person)
               [] ChangesIn(e) -> Changed(S.in, e)
               [] OTHER        -> S.in,
     out |-> CASE AddsOut(e)    -> Append(S.out, NewReading(e))
               [] RemovesOut(e) -> Removed(S.out, e.person)
               [] ChangesOut(e) -> Changed(S.out, e)
               [] OTHER         -> S.out]

\* The state once all events of an operation are applied.
AllApplied(S, events) ==
    LET after[n \in 0 .. Len(events)] ==
          IF n = 0 THEN S ELSE Applied(after[n - 1], events[n])
    IN  after[Len(events)]

\* The states that replaying the rows goes through, until one throws.
States(rows) ==
    LET after[n \in 0 .. Len(rows)] ==
          IF n = 0 THEN <<Blank>>
          ELSE LET before == after[n - 1]
               IN  IF Len(before) < n \/ Throws(before[n], rows[n]) THEN before
                   ELSE Append(before, Applied(before[n], rows[n]))
    IN  after[Len(rows)]

Replays(rows) == Len(States(rows)) = Len(rows) + 1

\* Mutant: rows are replayed in the order in which they were stored.
StoredLast(rows, e) == Append(rows, e)

\* OrderBy(EventTimestamp): behind every row that is not younger. The rows that
\* are there are in this order already.
Stored(rows, e) ==
    LET k == CHOOSE k \in 0 .. Len(rows) :
                \A i \in 1 .. Len(rows) : i <= k <=> rows[i].at <= e.at
    IN  SubSeq(rows, 1, k) \o <<e>> \o SubSeq(rows, k + 1, Len(rows))

\* The rows of one operation: one, or the two of a passthrough's removal. Those
\* that a replay does nothing with are left out.
AllStored(rows, events) ==
    LET stored[n \in 0 .. Len(events)] ==
          IF n = 0 THEN rows
          ELSE IF ChangesNothing(events[n]) THEN stored[n - 1]
               ELSE Stored(stored[n - 1], events[n])
    IN  stored[Len(events)]

-----------------------------------------------------------------------------
(* Checkpoint: the operations.                                             *)

\* Mutant: only a reading that has just been made is taken for a double one.
IsJustRead(S, info) ==
    /\ IsRead(S.in, info.person)
    /\ info.at < FirstReading(S.in, info.person).at + DoubleReadingThreshold

\* Both readings are there already, or the one there is has just been made.
IsDouble(S, info) ==
    /\ IsRead(S.in, info.person)
    /\ \/ IsRead(S.out, info.person)
       \/ info.at < FirstReading(S.in, info.person).at + DoubleReadingThreshold

\* Mutant: an out reading is taken whatever time was typed for it.
PrecedesNever(S, info) == FALSE

PrecedesIn(S, info) == FirstReading(S.in, info.person).at > info.time

\* Mutant: whoever has an out reading is not scanned at the start again.
ScanEventOnce(type, S, info) ==
    CASE type = "Start" /\ ~IsRead(S.out, info.person) -> "AttendeeScanOut"
      [] type = "Passthrough" /\ ~IsRead(S.in, info.person) -> "AttendeePassthroughScan"
      [] type \in {"Pitstop", "Finish"} /\ ~IsRead(S.in, info.person) -> "AttendeeScanIn"
      [] type # "Start" /\ IsRead(S.in, info.person) /\ ~IsDouble(S, info)
           /\ ~PrecedesIn(S, info) -> "AttendeeScanOut"
      [] OTHER -> "AttendeeDoubleScan"

ScanEvent(type, S, info) ==
    CASE IsDouble(S, info) -> "AttendeeDoubleScan"
      [] ~IsDouble(S, info) /\ IsRead(S.in, info.person) ->
           IF PrecedesIn(S, info) THEN "AttendeeScanOutPreceedsScanIn"
                                  ELSE "AttendeeScanOut"
      [] OTHER ->
           CASE type = "Passthrough" -> "AttendeePassthroughScan"
             [] type = "Start"       -> "AttendeeScanOut"
             [] OTHER                -> "AttendeeScanIn"

\* Mutant: it is the reading out of the finish that is announced.
AddScanFinishOut(type, S, info) ==
    LET scan == ScanEvent(type, S, info)
    IN  <<Event(scan, info)>>
        \o (IF type = "Start" /\ scan = "AttendeeScanOut"
              THEN <<Event("AttendeeScannedAtStartCheckpoint", info)>> ELSE <<>>)
        \o (IF type = "Finish" /\ scan = "AttendeeScanOut"
              THEN <<Event("AttendeeScannedAtFinishCheckpoint", info)>> ELSE <<>>)

\* The announcements wake up the happening and the list of happenings.
AddScan(type, S, info) ==
    LET scan == ScanEvent(type, S, info)
    IN  (IF type = "Start" /\ S.out = <<>>
           THEN <<Event("FirstAttendeeForHappeningScanned", info)>> ELSE <<>>)
        \o <<Event(scan, info)>>
        \o (IF type = "Start" /\ scan = "AttendeeScanOut"
              THEN <<Event("AttendeeScannedAtStartCheckpoint", info)>> ELSE <<>>)
        \o (IF type = "Finish" /\ scan = "AttendeeScanIn"
              THEN <<Event("AttendeeScannedAtFinishCheckpoint", info)>> ELSE <<>>)

\* Mutant: a changed time is not compared with the other reading.
ChangeAnyScanTime(type, S, info, scanTimeType) ==
    CASE scanTimeType = "In" /\ IsRead(S.in, info.person) ->
           <<Event("AttendeeScanInTimeChanged", info)>>
      [] scanTimeType = "Out" /\ IsRead(S.out, info.person) ->
           <<Event("AttendeeScanOutTimeChanged", info)>>
      [] OTHER -> <<>>

\* info.time is the new time.
ChangeScanTime(type, S, info, scanTimeType) ==
    LET p == info.person
        OutBefore(t) == IsRead(S.out, p) /\ FirstReading(S.out, p).at < t
        InAfter(t) == IsRead(S.in, p) /\ FirstReading(S.in, p).at > t
        refusal == <<Event("AttendeeScanOutPreceedsScanIn", info)>>
    IN  CASE scanTimeType = "In" /\ IsRead(S.in, p) ->
               IF OutBefore(info.time) THEN refusal
               ELSE <<Event("AttendeeScanInTimeChanged", info)>>
          [] scanTimeType = "Out" /\ IsRead(S.out, p) ->
               IF InAfter(info.time) THEN refusal
               ELSE <<Event("AttendeeScanOutTimeChanged", info)>>
          [] scanTimeType = "Passthrough" /\ type = "Passthrough" /\ IsRead(S.in, p) ->
               <<Event("AttendeePassthroughScanTimeChanged", info)>>
          [] OTHER -> <<>>

\* Mutant: a passthrough is treated as any checkpoint.
RemoveLastScan(type, S, info) ==
    CASE IsRead(S.out, info.person) -> <<Event("AttendeeScanOutRemoved", info)>>
      [] ~IsRead(S.out, info.person) /\ IsRead(S.in, info.person) ->
           <<Event("AttendeeScanInRemoved", info)>>
      [] OTHER -> <<>>

\* Both readings of a passthrough, else the out reading before the in reading.
RemoveScan(type, S, info) ==
    LET in == IsRead(S.in, info.person)
        out == IsRead(S.out, info.person)
    IN  CASE type = "Passthrough" /\ in /\ out ->
               <<Event("AttendeeScanInRemoved", info),
                 Event("AttendeeScanOutRemoved", info)>>
          [] out /\ ~(type = "Passthrough" /\ in) ->
               <<Event("AttendeeScanOutRemoved", info)>>
          [] in /\ ~out -> <<Event("AttendeeScanInRemoved", info)>>
          [] OTHER -> <<>>

=============================================================================
