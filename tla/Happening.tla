------------------------------ MODULE Happening ------------------------------
(***************************************************************************)
(* The aggregate Happening: who has started, completed and quit one        *)
(* happening, and which scans, removals and quits it validates.  Its       *)
(* stream is a set of rows [type, person, at]; only the order of a         *)
(* person's AttendeeQuit and AttendeeQuitRemoved rows, which is that of    *)
(* the timestamps of the client's commands, makes a difference to it.      *)
(***************************************************************************)
EXTENDS Naturals

Row(type, p, at) == [type |-> type, person |-> p, at |-> at]

-----------------------------------------------------------------------------
(* HappeningState, as a replay of the rows leaves it.                      *)

Started(rows) == {e.person : e \in {f \in rows : f.type = "AttendeeStarted"}}

Completed(rows) == {e.person : e \in {f \in rows : f.type = "AttendeeCompleted"}}

\* Quitters.Add(p) ... Quitters.Remove(p): the last one counts.
Quitters(rows) ==
    {e.person : e \in
        {f \in rows :
            /\ f.type = "AttendeeQuit"
            /\ \A g \in rows : g.type = "AttendeeQuitRemoved" /\ g.person = f.person
                                 => g.at < f.at}}

-----------------------------------------------------------------------------
(* Happening: may the command go on?                                       *)

OnTheWay(rows, p) == p \notin Quitters(rows) \cup Completed(rows)

\* A start scan is not checked.
ValidatesStartScan(rows, p) == TRUE

\* Mutant: whoever is on the way may be scanned, started or not.
ValidatesScanUnstarted(rows, p) == OnTheWay(rows, p)

ValidatesScan(rows, p) == OnTheWay(rows, p) /\ p \in Started(rows)

\* Mutant: the scans of those who have completed may be removed.
ValidatesRemoveScanAlways(rows, p) == p \notin Quitters(rows)

ValidatesRemoveScan(rows, p) == OnTheWay(rows, p)

\* Mutant: those who have completed may quit.
QuitsCompleted(rows, p) == p \notin Quitters(rows)

Quits(rows, p) == OnTheWay(rows, p)

RemovesQuit(rows, p) == p \notin Completed(rows) /\ p \in Quitters(rows)

=============================================================================
