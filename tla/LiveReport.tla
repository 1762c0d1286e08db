------------------------------ MODULE LiveReport ------------------------------
(***************************************************************************)
(* A contributor's report page beside the server: the page asks for the    *)
(* dashboard once, opens a connection, and from then on applies the events *)
(* that the server publishes to it to its own copy.  The answer and the    *)
(* events travel separately.  Nobody sends an event again, and an event    *)
(* that a subscriber throws on stops the topic of all events for good:     *)
(* jQuery.Callbacks goes on taking itself to be firing.                    *)
(*                                                                         *)
(* The server's side is the aggregates Happening and Checkpoint, one       *)
(* command at a time, and the dashboard that their events make.            *)
(***************************************************************************)
EXTENDS ReportView, ReportServer

CONSTANTS
    OthersKinds, \* the commands that other pages and scanners give
    Minute,      \* how many commands are given in a minute
    MaxCommands, \* bound: the commands that are given
    MaxLosses    \* bound: how often the connection is lost

ASSUME BoundsAssumption ==
    Minute \in Nat \ {0} /\ MaxCommands \in Nat /\ MaxLosses \in Nat

ASSUME PersonAssumption == IsFiniteSet(Person)

VARIABLES
    now,       \* how many commands have been given; the last one's timestamp
    sent,      \* the commands that the server has not executed yet
    link,      \* is the page connected?
    losses,    \* how often it was disconnected
    wire,      \* the events on their way to the page
    answer,    \* the answer on its way: asked, answered, loaded or failed
    data,      \* the dashboard that the answer holds
    view,      \* the page's own
    topic,     \* eventsFromServer: live, or stuck
    past       \* history: what has happened to the page, see Happened

pageVars == <<link, losses, wire, answer, data, view, topic>>

vars == <<now, sent, serverVars, pageVars, past>>

\* missed: an event after the answer did not reach the page. early: one came
\* before the answer. retimed: the time of a reading was changed. quitBack: a
\* quit was taken back. quitUnseen: somebody quit at a checkpoint where the
\* dashboard had no visit of theirs.
Happened == {"missed", "early", "retimed", "quitBack", "quitUnseen"}

Init ==
    /\ now = 0
    /\ sent = {}
    /\ ServerInit
    /\ link = "down"
    /\ losses = 0
    /\ wire = <<>>
    /\ answer = "asked"
    /\ data = Empty
    /\ view = Blanked
    /\ topic = "live"
    /\ past = {}

-----------------------------------------------------------------------------
(* Commands: given by others, at any time ...                              *)

SendTimed(kind, p, c, time) ==
    /\ now < MaxCommands
    /\ now' = now + 1
    /\ sent' = sent \cup {[Command(kind, p, c, now') EXCEPT !.time = time]}
    /\ UNCHANGED <<serverVars, pageVars, past>>

Send(kind, p, c) == SendTimed(kind, p, c, now + 1)

OthersGive ==
    \E kind \in OthersKinds, p \in Person, c \in Place :
        /\ (kind = "StartScan") = (TypeOf[c] = "Start")
        /\ Send(kind, p, c)

(* ... and by the user of the page, on what the page shows.                *)

\* Forms show a time without its seconds ...
FormatTime(time) == (time - 1) \div Minute

\* ... and what is typed is taken for the beginning of a minute.
ToServerTimeFromInputDate(minute) == minute * Minute + 1

SendAtMinute(kind, p, c, minute) ==
    SendTimed(kind, p, c, ToServerTimeFromInputDate(minute))

\* The user leaves the time that the form suggests, which is that of now.
SendTyped(kind, p, c) == SendAtMinute(kind, p, c, FormatTime(now + 1))

AddManualScanIn(c) == \E p \in view.waitingFor[c] : SendTyped("Scan", p, c)

AddManualScanOut(c, v) ==
    ~IsTime(v.out) /\ ~v.quit /\ SendTyped("Scan", v.person, c)

\* changeScanTimeModalOpen suggests what to change; the user chooses if both
\* times are there. "ChangePassthroughScanTime" is a name the server lacks.
ChangedTime(v) ==
    CASE v.in = v.out -> {"Unknown"}
      [] v.in # v.out /\ IsTime(v.in) /\ ~IsTime(v.out) -> {"In"}
      [] OTHER -> {"In", "Out"}

\* The form suggests the time the reading has; the user types any up to now.
GiveChangeScanTime(c, v) ==
    \E kind \in ChangedTime(v), minute \in 0 .. FormatTime(now + 1) :
        SendAtMinute(kind, v.person, c, minute)

\* completedAttendees[id], quitAttendees[id]: whoever completes or quits is pushed to the
\* end of an array, where nobody is found by their id.
IsListed(p) == FALSE

AddQuit(c, v) == ~v.quit /\ ~IsListed(v.person) /\ SendTyped("Quit", v.person, c)

RemoveQuit(c, v) == v.quit /\ ~IsListed(v.person) /\ Send("RemoveQuit", v.person, c)

GiveRemoveScan(c, v) == ~v.quit /\ ~IsListed(v.person) /\ Send("RemoveScan", v.person, c)

UserGives ==
    \E c \in Place :
        \/ AddManualScanIn(c)
        \/ \E v \in view.visits[c] :
              \/ AddManualScanOut(c, v)
              \/ GiveChangeScanTime(c, v)
              \/ AddQuit(c, v)
              \/ RemoveQuit(c, v)
              \/ GiveRemoveScan(c, v)

-----------------------------------------------------------------------------
(* The server executes a command and publishes the events.                 *)

PastOf(published) ==
    LET events == {published[i] : i \in DOMAIN published}
        Unseen(e) == e.name = "AttendeeQuit" /\ ~HasVisit(dashboard.visits[e.place], e.person)
    IN  {h \in Happened :
           \/ h = "retimed" /\ \E e \in events : ScanTimestamp(e) = NaN
           \/ h = "quitBack" /\ \E e \in events : e.name = "AttendeeQuitRemoved"
           \/ h = "quitUnseen" /\ \E e \in events : Unseen(e)
           \/ h = "missed" /\ link = "down" /\ answer # "asked" /\ events # {}}

Handle(c) ==
    /\ sent' = sent \ {c}
    /\ Execute(c)
    /\ wire' = IF link = "up" THEN wire \o PublishedBy(c) ELSE wire
    /\ past' = past \cup PastOf(PublishedBy(c))
    /\ UNCHANGED <<now, link, losses, answer, data, view, topic>>

\* DashboardQueryController.
Answer ==
    /\ answer = "asked"
    /\ answer' = "answered"
    /\ data' = dashboard
    /\ UNCHANGED <<now, sent, serverVars, link, losses, wire, view, topic, past>>

-----------------------------------------------------------------------------
(* The page.                                                               *)

Load ==
    /\ answer = "answered"
    /\ answer' = "loaded"
    /\ view' = DataInit(data)
    /\ data' = Empty
    /\ UNCHANGED <<now, sent, serverVars, link, losses, wire, topic, past>>

\* The request fails; it is not made again.
Fail ==
    /\ answer \in {"asked", "answered"}
    /\ answer' = "failed"
    /\ data' = Empty
    /\ UNCHANGED <<now, sent, serverVars, link, losses, wire, view, topic, past>>

Connect ==
    /\ link = "down"
    /\ link' = "up"
    /\ UNCHANGED <<now, sent, serverVars, losses, wire, answer, data, view, topic, past>>

\* onclose connects again. What was on its way is lost.
Disconnect ==
    /\ link = "up"
    /\ losses < MaxLosses
    /\ losses' = losses + 1
    /\ link' = "down"
    /\ wire' = <<>>
    /\ past' = IF wire = <<>> THEN past ELSE past \cup {"missed"}
    /\ UNCHANGED <<now, sent, serverVars, answer, data, view, topic>>

\* Mutant: the events that come before the data are left alone.
IgnoredBeforeData(e) == FALSE

\* searchScanCheckpoint: there are no checkpoints before the data.
CheckpointsMissing(e) == answer # "loaded" /\ IsApplied(e)

Deliver ==
    /\ wire # <<>>
    /\ wire' = Tail(wire)
    /\ LET e == Head(wire)
       IN  IF topic = "stuck" THEN UNCHANGED <<view, topic, past>>
           ELSE /\ view' = IF answer = "loaded" THEN ViewApplied(view, e) ELSE view
                /\ topic' = IF CheckpointsMissing(e) \/ AttendeeThrows(view, e)
                              THEN "stuck" ELSE "live"
                /\ past' = IF CheckpointsMissing(e) THEN past \cup {"early"} ELSE past
    /\ UNCHANGED <<now, sent, serverVars, link, losses, answer, data>>

Next ==
    \/ OthersGive
    \/ UserGives
    \/ \E c \in sent : Handle(c)
    \/ Answer
    \/ Load
    \/ Fail
    \/ Connect
    \/ Disconnect
    \/ Deliver

Spec == Init /\ [][Next]_vars

-----------------------------------------------------------------------------
(* Properties.                                                             *)

CaughtUp == answer = "loaded" /\ topic = "live" /\ wire = <<>> /\ "missed" \notin past

\* The page and the server build the same visits in two different ways: once the
\* page has caught up, loading it again would show the same rows and as many
\* people inside, and nobody who is said to have quit would not be any more, even
\* if events came that its data already held. Not so after a change of a time,
\* which the page reads from a field that is not there.
ReloadShowsTheSame ==
    CaughtUp /\ past \cap {"retimed", "quitBack", "quitUnseen"} = {} =>
        /\ \A c \in Place : Shown(view, c) = Shown(DataInit(dashboard), c)
        /\ view.hasQuit \subseteq DataInit(dashboard).hasQuit

\* Two things only stop the page from hearing of anything more until it is
\* loaded again: an event before its data, and a quit taken back.
TopicStuckOnlyBy ==
    topic = "stuck" => past \cap {"early", "quitBack"} # {}

\* Who is expected at a checkpoint has left the one before: removing a reading
\* out takes the expectation back, removing one in does not bring it back for
\* somebody who has not left. Not so behind a passthrough, whose visit is gone
\* when the event that takes the expectation back comes.
ExpectedHasLeft ==
    \A c \in Place : \A p \in dashboard.expected[c] :
        \/ TypeOf[c - 1] = "Passthrough"
        \/ \E v \in dashboard.visits[c - 1] : v.person = p /\ v.out # Null

=============================================================================
