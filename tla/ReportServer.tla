----------------------------- MODULE ReportServer -----------------------------
(***************************************************************************)
(* The server that a page of one happening talks to: the aggregates        *)
(* Happening and Checkpoint execute one command at a time, the dashboard   *)
(* follows their events, and the events go out to the pages.  How requests *)
(* interleave inside the server is the subject of HappeningsInventory,     *)
(* CheckpointScans and Walk.                                               *)
(***************************************************************************)
EXTENDS Dashboard, Happening

VARIABLES
    happening, \* the rows of the happening's stream
    readings,  \* readings[c]: the state of the aggregate of checkpoint c
    dashboard  \* what the server would answer

serverVars == <<happening, readings, dashboard>>

ServerInit ==
    /\ happening = {}
    /\ readings = [c \in Place |-> Blank]
    /\ dashboard = Empty

\* A command: what it asks for, of whom and where, the timestamp that the client
\* gave it and the time of the reading.
Command(kind, p, c, at) == [kind |-> kind, person |-> p, place |-> c, at |-> at, time |-> at]

\* The events of the checkpoint, if the happening lets the command go on.
CheckpointEvents(c) ==
    LET type == TypeOf[c.place]
        S == readings[c.place]
    IN  CASE c.kind = "StartScan" -> AddScan(type, S, c)
          [] c.kind = "Scan" /\ ValidatesScan(happening, c.person) -> AddScan(type, S, c)
          [] c.kind = "RemoveScan" /\ ValidatesRemoveScan(happening, c.person) ->
               RemoveScan(type, S, c)
          [] c.kind \in {"In", "Out"} -> ChangeScanTime(type, S, c, c.kind)
          [] OTHER -> <<>>

HappeningEvents(c) ==
    CASE c.kind = "Quit" /\ Quits(happening, c.person) -> <<Event("AttendeeQuit", c)>>
      [] c.kind = "RemoveQuit" /\ RemovesQuit(happening, c.person) ->
           <<Event("AttendeeQuitRemoved", c)>>
      [] OTHER -> <<>>

EventsOf(c) == CheckpointEvents(c) \o HappeningEvents(c)

\* What the happening records, of its own events and of the announcements.
RowsOf(events) ==
    LET Types == [AttendeeScannedAtStartCheckpoint |-> "AttendeeStarted",
                  AttendeeScannedAtFinishCheckpoint |-> "AttendeeCompleted",
                  AttendeeQuit |-> "AttendeeQuit",
                  AttendeeQuitRemoved |-> "AttendeeQuitRemoved"]
        of(e) == IF e.type \in DOMAIN Types
                   THEN {Row(Types[e.type], e.person, e.at)} ELSE {}
    IN  UNION {of(events[i]) : i \in DOMAIN events}

\* RouteEventsToClientDenormalizer.
IsRouted(e) ==
    e.type \notin {"FirstAttendeeForHappeningScanned", "AttendeeScannedAtStartCheckpoint"}

\* The events of command c as they go out to the pages.
PublishedBy(c) ==
    LET published[n \in 0 .. Len(EventsOf(c))] ==
          IF n = 0 THEN <<>>
          ELSE IF IsRouted(EventsOf(c)[n])
                 THEN Append(published[n - 1], Published(c.place, EventsOf(c)[n]))
                 ELSE published[n - 1]
    IN  published[Len(EventsOf(c))]

Execute(c) ==
    /\ readings' = [readings EXCEPT ![c.place] = AllApplied(@, CheckpointEvents(c))]
    /\ happening' = happening \cup RowsOf(EventsOf(c))
    /\ dashboard' = AllProjected(dashboard, c.place, EventsOf(c))

=============================================================================
