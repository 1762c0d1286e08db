------------------------------ MODULE Attendance ------------------------------
(***************************************************************************)
(* People on the server: the stream of each person, as far as it tells     *)
(* who walks in the happening, and the two lists that the pages ask for,   *)
(* LinkPeople and EditPeople.  The rows of a stream are replayed in the    *)
(* order of their timestamps: a creation, an update and a link carry the   *)
(* client's, an unlink and a deletion the server's.                        *)
(***************************************************************************)
EXTENDS Integers, Sequences

Ext == INSTANCE SequencesExt

CONSTANTS
    Person,       \* the ids, those of the people still to be created too
    Registration,
    Existing      \* the people that were there before

NoOne == "none"

ASSUME ExistingAssumption ==
    Existing \subseteq Person /\ NoOne \notin Person \cup Registration

VARIABLES
    stream,     \* stream[p]: the rows of person p
    links,      \* LinkPeople: the registration each person is linked by
    attended,   \* EditPeople: how often a person is listed as attending
    started     \* has the first walker been scanned?

attendanceVars == <<stream, links, attended, started>>

Row(type, at) == [type |-> type, at |-> at]

AttendanceInit ==
    /\ stream = [p \in Person |-> IF p \in Existing THEN <<Row("Created", 0)>> ELSE <<>>]
    /\ links = [p \in Existing |-> NoOne]
    /\ attended = [p \in Existing |-> 0]
    /\ started = FALSE

-----------------------------------------------------------------------------
(* PersonState.                                                            *)

When(S, row) ==
    CASE row.type = "Linked"   -> [S EXCEPT !.attends = @ + 1]
      [] row.type = "Unlinked" -> [S EXCEPT !.attends = IF @ = 0 THEN 0 ELSE @ - 1]
      [] row.type = "Deleted"  -> [S EXCEPT !.deleted = TRUE]
      [] OTHER                 -> S

PersonState(rows) ==
    LET state[n \in 0 .. Len(rows)] ==
          IF n = 0 THEN [attends |-> 0, deleted |-> FALSE] ELSE When(state[n - 1], rows[n])
    IN  state[Len(rows)]

Attends(p) == PersonState(stream[p]).attends > 0

Deleted(p) == PersonState(stream[p]).deleted

\* The order of rows with one timestamp is that of random keys.
Stores(p, type, at) ==
    \E i \in 1 .. Len(stream[p]) + 1 :
        /\ \A j \in 1 .. Len(stream[p]) :
              IF j < i THEN stream[p][j].at <= at ELSE at <= stream[p][j].at
        /\ stream' = [stream EXCEPT ![p] = Ext!InsertAt(@, i, Row(type, at))]

-----------------------------------------------------------------------------
(* The operations, with what the lists make of their events.               *)

\* DuplicateAggregateIdException: a command that comes again fails for ever.
CreateFails(p) == stream[p] # <<>>

CreatePerson(p, at) ==
    /\ ~CreateFails(p)
    /\ Stores(p, "Created", at)
    /\ links' = [q \in DOMAIN links \cup {p} |-> IF q = p THEN NoOne ELSE links[q]]
    /\ attended' = [q \in DOMAIN attended \cup {p} |-> IF q = p THEN 0 ELSE attended[q]]
    /\ UNCHANGED started

LinksToHappening(p) == ~Attends(p) /\ ~Deleted(p)

\* The list has no such person, or has them linked already: the event is stored,
\* but the command fails.
LinkThrows(p) == p \in DOMAIN links => links[p] # NoOne

\* The two lists are told side by side: when one throws, the other may have heard
\* or not.
LinkToHappening(p, r, at) ==
    /\ LinksToHappening(p)
    /\ Stores(p, "Linked", at)
    /\ links' = IF LinkThrows(p) THEN links ELSE [links EXCEPT ![p] = r]
    /\ \/ attended' = [q \in DOMAIN attended |-> IF q = p THEN attended[q] + 1 ELSE attended[q]]
       \/ LinkThrows(p) /\ attended' = attended
    /\ UNCHANGED started

\* The inventory lets nobody go when the happening has started.
Unlinks(p) == Attends(p) /\ ~Deleted(p)

\* Mutant: LinkPeople does not hear of it.
UnlinkUnheard(p, at) ==
    /\ ~started
    /\ Stores(p, IF Unlinks(p) THEN "Unlinked" ELSE "UnlinkFailed", at)
    /\ UNCHANGED <<links, attended, started>>

\* Who does not attend gets a row that says so, even before they are created.
UnlinkFromHappening(p, at) ==
    /\ ~started
    /\ Stores(p, IF Unlinks(p) THEN "Unlinked" ELSE "UnlinkFailed", at)
    /\ IF Unlinks(p)
         THEN /\ links' = [q \in DOMAIN links |-> IF q = p THEN NoOne ELSE links[q]]
              /\ attended' = [q \in DOMAIN attended |->
                                IF q = p /\ attended[q] > 0 THEN attended[q] - 1 ELSE attended[q]]
         ELSE UNCHANGED <<links, attended>>
    /\ UNCHANGED started

\* Nobody asks whether the person is linked. LinkPeople goes on offering them.
DeletePerson(p, at) ==
    /\ Stores(p, "Deleted", at)
    /\ attended' = [q \in DOMAIN attended \ {p} |-> attended[q]]
    /\ UNCHANGED <<links, started>>

StartHappening ==
    /\ ~started
    /\ started' = TRUE
    /\ UNCHANGED <<stream, links, attended>>

=============================================================================
