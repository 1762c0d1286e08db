--------------------------- MODULE CommandDelivery ---------------------------
(***************************************************************************)
(* How a command gets from the browser to its handler: the store and       *)
(* forward queues of JSBus (outgoing, sent, retry, all in localStorage),    *)
(* its send loops over a SignalR connection, and the hub method            *)
(* CommandBus.Command that looks the command up, executes it, saves it and *)
(* acknowledges it.                                                        *)
(*                                                                         *)
(* One browser page talks to one server. Connections break, the page is    *)
(* reloaded, the server dies between any two awaits of the hub method, and *)
(* the Bus of a broken connection is never stopped: its send loop goes on  *)
(* next to that of its successor, over the same queues.                    *)
(*                                                                         *)
(* Timeouts (200 ms, 30 s, 60 s) are steps that may come at any time.      *)
(***************************************************************************)
EXTENDS Naturals, FiniteSets

CONSTANTS
    Message,        \* commands, by their ids
    Poison,         \* commands whose execution always fails
    Unknown,        \* commands whose name is no command type of the server
    MaxLoops,       \* bound: send loops one Bus may start
    MaxConnections, \* bound: connections the page may open
    MaxFailures     \* bound: failures, those of executing poison not counted

ASSUME MessageAssumption ==
    Poison \subseteq Message /\ Unknown \subseteq Message \ Poison

ASSUME BoundAssumption ==
    /\ MaxLoops \in Nat \ {0}
    /\ MaxConnections \in Nat \ {0}
    /\ MaxFailures \in Nat

VARIABLES
    submitted,  \* history: messages given to Bus.send
    outgoing, sent, retry, \* the queues of LocalStorageStore
    online,     \* the current connection is open
    connection, \* the number of the current or last connection
    oldBus,     \* the Bus of a broken connection is still in the page
    loops,      \* send loops of the Bus of the current connection
    sendTimer,  \* its sendTimer is set: it starts no further loop
    pending,    \* pending[l]: messages loop l's sendAll waits for
    calls,      \* executions of CommandBus.Command
    saved,      \* rows of the commands table
    executed,   \* history, up to 2: times the message's handler took effect
    failures,   \* history: failures so far
    troubled,   \* history: messages whose handling overlapped or broke off
    unseen      \* history: messages whose handler failed and nobody looked

client == <<outgoing, sent, retry, online, connection, oldBus, loops,
            sendTimer, pending>>
vars == <<submitted, client, calls, saved, executed, failures, troubled, unseen>>

Loop == 1..MaxLoops
Connection == 1..MaxConnections

\* Where a hub invocation is: under way to the lookup, found to be new,
\* executed, about to acknowledge, or returned and about to be reported.
CallPhase == {"sent", "new", "executed", "answering", "returned"}

Call == [message : Message, loop : Loop, connection : Connection,
         phase : CallPhase]

Queued == outgoing \cup sent \cup retry

Init ==
    /\ submitted = {}
    /\ outgoing = {} /\ sent = {} /\ retry = {}
    /\ online = TRUE /\ connection = 1 /\ oldBus = FALSE
    /\ loops = 1 /\ sendTimer = TRUE
    /\ pending = [l \in Loop |-> {}]
    /\ calls = {}
    /\ saved = {}
    /\ executed = [m \in Message |-> 0]
    /\ failures = 0
    /\ troubled = {}
    /\ unseen = {}

-----------------------------------------------------------------------------
(* The page: JSBus.Bus and LocalStorageStore.                              *)

\* LocalStorageQueue: the messages under one key of localStorage. Its array is
\* read, changed and written back as a whole.
Add(queue, messages) == queue \cup messages

Remove(queue, messages) == queue \ messages

\* Messages some invocation is still working on
InProgress == {c.message : c \in calls}

\* sendAll of loop l over connection c: every message is sent, and the loop
\* waits until the promises of all of them are settled.
SendBatch(l, messages, c) ==
    /\ pending' = [pending EXCEPT ![l] = messages]
    /\ calls' = calls \cup
         {[message |-> m, loop |-> l, connection |-> c, phase |-> "sent"] :
            m \in messages}
    /\ troubled' = troubled \cup (messages \cap InProgress)

\* Bus.send: the message is stored. The Bus of the current connection starts
\* another loop unless its timer is set; an old Bus only stores.
Submit(m) ==
    /\ m \notin submitted
    /\ submitted' = submitted \cup {m}
    /\ outgoing' = Add(outgoing, {m})
    /\ \/ /\ online /\ ~sendTimer /\ loops < MaxLoops
          /\ loops' = loops + 1
          /\ SendBatch(loops + 1, outgoing', connection)
       \/ /\ (online /\ sendTimer) \/ oldBus
          /\ UNCHANGED <<loops, pending, calls, troubled>>
    /\ UNCHANGED <<sent, retry, online, connection, oldBus, sendTimer, saved,
                   executed, failures, unseen>>

\* Mutant: the loop does not wait for the messages of its last batch.
SendAllUnfinished(l) ==
    /\ online /\ l <= loops /\ outgoing # {}
    /\ SendBatch(l, outgoing, connection)
    /\ UNCHANGED <<submitted, outgoing, sent, retry, online, connection, oldBus,
                   loops, sendTimer, saved, executed, failures, unseen>>

\* The timer of a loop that has finished its last batch
SendAll(l) ==
    /\ online /\ l <= loops /\ pending[l] = {} /\ outgoing # {}
    /\ SendBatch(l, outgoing, connection)
    /\ UNCHANGED <<submitted, outgoing, sent, retry, online, connection, oldBus,
                   loops, sendTimer, saved, executed, failures, unseen>>

\* The timer of a loop of an old Bus: its connection refuses every message,
\* and each is delayed.
SendAllOnOldBus ==
    /\ oldBus /\ outgoing # {}
    /\ outgoing' = Remove(outgoing, outgoing)
    /\ retry' = Add(retry, outgoing)
    /\ UNCHANGED <<submitted, sent, online, connection, oldBus, loops, sendTimer,
                   pending, calls, saved, executed, failures, troubled, unseen>>

\* Mutant: markSent does not look whether the message is still outgoing.
MarkSentAlways(m) ==
    /\ outgoing' = outgoing \ {m}
    /\ sent' = sent \cup {m}

\* The message moves from outgoing to sent, if it is still in outgoing.
MarkSent(m) ==
    /\ outgoing' = Remove(outgoing, {m})
    /\ sent' = Add(sent, {m} \cap outgoing)

\* Nothing arrived in time: the message goes back to outgoing.
RetryDelayed(m) ==
    /\ m \in retry
    /\ retry' = Remove(retry, {m})
    /\ outgoing' = Add(outgoing, {m})
    /\ UNCHANGED <<submitted, sent, online, connection, oldBus, loops, sendTimer,
                   pending, calls, saved, executed, failures, troubled, unseen>>

\* Mutant: only delayed messages are ever sent again.
NeverResent(m) == FALSE

\* Mutant: the message is taken out of the sent queue only.
ResendDropped(m) ==
    /\ m \in sent
    /\ sent' = sent \ {m}
    /\ UNCHANGED <<submitted, outgoing, retry, online, connection, oldBus, loops,
                   sendTimer, pending, calls, saved, executed, failures, troubled, unseen>>

ResendUnacknowledged(m) ==
    /\ m \in sent
    /\ sent' = Remove(sent, {m})
    /\ outgoing' = Add(outgoing, {m})
    /\ UNCHANGED <<submitted, retry, online, connection, oldBus, loops, sendTimer,
                   pending, calls, saved, executed, failures, troubled, unseen>>

-----------------------------------------------------------------------------
(* The hub method. Each step ends at an await.                             *)

Alive(c) == online /\ c.connection = connection

\* What c does next is phase p; what it reports to a closed connection is lost.
Proceed(c, p) ==
    calls' = (calls \ {c}) \cup {[c EXCEPT !.phase = p]}

Return(c) ==
    calls' = (calls \ {c}) \cup
                (IF Alive(c) THEN {[c EXCEPT !.phase = "returned"]} ELSE {})

\* Mutant: the table of saved commands is not consulted.
LookupSkipped(c) ==
    /\ c.phase = "sent"
    /\ Proceed(c, IF c.message \in Unknown THEN "answering" ELSE "new")
    /\ UNCHANGED <<submitted, client, saved, executed, failures, troubled, unseen>>

\* A command of no known type, or one saved before, is only acknowledged.
Lookup(c) ==
    /\ c.phase = "sent"
    /\ Proceed(c, IF c.message \in Unknown \cup saved THEN "answering" ELSE "new")
    /\ UNCHANGED <<submitted, client, saved, executed, failures, troubled, unseen>>

\* One more effect of m's handler: its events are in the event table.
TakeEffect(m) == executed' = [executed EXCEPT ![m] = IF @ < 2 THEN @ + 1 ELSE 2]

MayFail(m) == m \in Poison \/ failures < MaxFailures

Fail(m) == failures' = IF m \in Poison THEN failures ELSE failures + 1

Execute(c) ==
    /\ c.phase = "new"
    /\ c.message \notin Poison
    /\ TakeEffect(c.message)
    /\ Proceed(c, "executed")
    /\ UNCHANGED <<submitted, client, saved, failures, troubled, unseen>>

\* Mutant: an error that was waited for is swallowed.
ExecuteSwallows(c) ==
    /\ c.phase = "new"
    /\ MayFail(c.message)
    /\ Fail(c.message)
    /\ Proceed(c, "executed")
    /\ UNCHANGED <<submitted, client, saved, executed, troubled, unseen>>

\* The handler throws, or its task fails while RedirectToWhen waits for it,
\* before or after events of it were appended: the client is told of an error,
\* not of an acknowledgement.
ExecuteFails(c) ==
    /\ c.phase = "new"
    /\ MayFail(c.message)
    /\ Fail(c.message)
    /\ \/ UNCHANGED <<executed, troubled>>
       \/ TakeEffect(c.message) /\ troubled' = troubled \cup {c.message}
    /\ Return(c)
    /\ UNCHANGED <<submitted, client, saved, unseen>>

\* The handler's task has failed before RedirectToWhen looks at it: its events
\* were refused, there were none, or they were appended and not published. A
\* task that is cancelled or faulted already is not waited for, and the command
\* counts as handled.
FailUnseen(c) ==
    /\ c.phase = "new"
    /\ MayFail(c.message)
    /\ Fail(c.message)
    /\ UNCHANGED executed \/ TakeEffect(c.message)
    /\ unseen' = unseen \cup {c.message}
    /\ Proceed(c, "executed")
    /\ UNCHANGED <<submitted, client, saved, troubled>>

\* Mutant: the command is saved only when it can be acknowledged.
SaveNothing(c) ==
    /\ c.phase = "executed"
    /\ Proceed(c, "answering")
    /\ UNCHANGED <<submitted, client, saved, executed, failures, troubled, unseen>>

\* The insert fails when the command was saved in the meantime.
Save(c) ==
    /\ c.phase = "executed"
    /\ \/ /\ c.message \notin saved
          /\ saved' = saved \cup {c.message}
          /\ Proceed(c, "answering")
       \/ /\ c.message \in saved
          /\ Return(c)
          /\ UNCHANGED saved
    /\ UNCHANGED <<submitted, client, executed, failures, troubled, unseen>>

SaveFails(c) ==
    /\ c.phase = "executed"
    /\ failures < MaxFailures
    /\ failures' = failures + 1
    /\ troubled' = troubled \cup {c.message}
    /\ Return(c)
    /\ UNCHANGED <<submitted, client, saved, executed, unseen>>

\* Mutant: an acknowledgement reaches the sent queue only.
ForgetSent(m) ==
    /\ sent' = Remove(sent, {m})
    /\ UNCHANGED outgoing

\* The store forgets the message, wherever it has it but in retry.
Forget(m) ==
    /\ outgoing' = Remove(outgoing, {m})
    /\ sent' = Remove(sent, {m})

\* The hub calls "ack" of the connection the command came by.
Acknowledge(c) ==
    /\ c.phase = "answering"
    /\ IF Alive(c) THEN Forget(c.message) ELSE UNCHANGED <<outgoing, sent>>
    /\ Return(c)
    /\ UNCHANGED <<submitted, retry, online, connection, oldBus, loops, sendTimer,
                   pending, saved, executed, failures, troubled, unseen>>

\* The invocation's promise is resolved, an error having been sent or not. The
\* loop that has seen its last promise settled sets the Bus's timer.
Settle(c) ==
    /\ c.phase = "returned"
    /\ MarkSent(c.message)
    /\ calls' = calls \ {c}
    /\ pending' = [pending EXCEPT ![c.loop] = @ \ {c.message}]
    /\ sendTimer' = (sendTimer \/ pending'[c.loop] = {})
    /\ UNCHANGED <<submitted, retry, online, connection, oldBus, loops, saved,
                   executed, failures, troubled, unseen>>

-----------------------------------------------------------------------------
(* Connections, reloads and crashes.                                       *)

\* A call whose answer was under way on the connection that closes is gone.
Unanswered == {c \in calls : c.phase # "returned"}

\* Mutant: nobody rejects the promises of a connection that closes.
DropUnnoticed ==
    /\ online' = FALSE
    /\ oldBus' = TRUE
    /\ UNCHANGED <<outgoing, retry, pending>>

\* The promises of the connection are rejected, and the messages still
\* outgoing delayed. The Bus stays, with its loops.
DropConnection ==
    /\ LET rejected == outgoing \cap UNION {pending[l] : l \in Loop}
       IN  /\ outgoing' = Remove(outgoing, rejected)
           /\ retry' = Add(retry, rejected)
    /\ pending' = [l \in Loop |-> {}]
    /\ online' = FALSE
    /\ oldBus' = TRUE

Disconnect ==
    /\ online /\ connection < MaxConnections
    /\ DropConnection
    /\ calls' = Unanswered
    /\ UNCHANGED <<submitted, sent, connection, loops, sendTimer, saved, executed,
                   failures, troubled, unseen>>

\* The new connection has started: it gets a Bus, which begins to send.
Reconnect ==
    /\ ~online /\ connection < MaxConnections
    /\ connection' = connection + 1
    /\ online' = TRUE
    /\ loops' = 1
    /\ SendBatch(1, outgoing, connection + 1)
    /\ sendTimer' = (outgoing = {})
    /\ UNCHANGED <<submitted, outgoing, sent, retry, oldBus, saved, executed,
                   failures, unseen>>

\* The page is loaded anew: only localStorage is left of it.
Reload ==
    /\ online \/ oldBus
    /\ connection < MaxConnections
    /\ online' = FALSE /\ oldBus' = FALSE
    /\ pending' = [l \in Loop |-> {}]
    /\ calls' = Unanswered
    /\ UNCHANGED <<submitted, outgoing, sent, retry, connection, loops, sendTimer,
                   saved, executed, failures, troubled, unseen>>

\* The server dies; what it was executing is cut off.
CrashServer ==
    /\ calls # {}
    /\ calls' = {}
    /\ troubled' = troubled \cup {c.message : c \in {d \in calls : d.phase = "executed"}}
    /\ \/ /\ online /\ connection < MaxConnections
          /\ DropConnection
       \/ /\ ~online
          /\ UNCHANGED <<outgoing, retry, pending, online, oldBus>>
    /\ UNCHANGED <<submitted, sent, connection, loops, sendTimer, saved, executed,
                   failures, unseen>>

CallStep(c) ==
    \/ Lookup(c) \/ Execute(c) \/ ExecuteFails(c) \/ FailUnseen(c)
    \/ Save(c) \/ SaveFails(c) \/ Acknowledge(c) \/ Settle(c)

Next ==
    \/ \E m \in Message : Submit(m) \/ RetryDelayed(m) \/ ResendUnacknowledged(m)
    \/ \E l \in Loop : SendAll(l)
    \/ SendAllOnOldBus
    \/ \E c \in calls : CallStep(c)
    \/ Disconnect \/ Reconnect \/ Reload \/ CrashServer

Spec == Init /\ [][Next]_vars

\* Timers fire, invocations run and a broken connection is tried again.
Fairness ==
    /\ WF_vars(Reconnect)
    /\ \A l \in Loop : WF_vars(SendAll(l))
    /\ \A m \in Message :
          WF_vars(RetryDelayed(m)) /\ WF_vars(ResendUnacknowledged(m))
    /\ \A m \in Message, l \in Loop, k \in Connection :
          WF_vars(\E c \in calls :
                     /\ c.message = m /\ c.loop = l /\ c.connection = k
                     /\ CallStep(c))

FairSpec == Spec /\ Fairness

-----------------------------------------------------------------------------
(* Properties.                                                             *)

\* Types; and a loop never sends over a connection what it still waits for.
TypeOK ==
    /\ submitted \in SUBSET Message
    /\ outgoing \in SUBSET submitted
    /\ sent \in SUBSET submitted
    /\ retry \in SUBSET submitted
    /\ online \in BOOLEAN /\ oldBus \in BOOLEAN /\ sendTimer \in BOOLEAN
    /\ connection \in Connection
    /\ loops \in Loop
    /\ pending \in [Loop -> SUBSET submitted]
    /\ calls \in SUBSET Call
    /\ saved \in SUBSET submitted
    /\ executed \in [Message -> 0..2]
    /\ failures \in 0..MaxFailures
    /\ troubled \in SUBSET submitted
    /\ unseen \in SUBSET submitted
    /\ \A c, d \in calls :
          /\ c.message = d.message /\ c.loop = d.loop
          /\ c.connection = d.connection
          => c = d

\* A message is in one queue at most, whatever races there are between an
\* acknowledgement, the settling of promises, retries and the loops of old
\* and new Buses.
OneCopy ==
    /\ outgoing \cap sent = {}
    /\ outgoing \cap retry = {}
    /\ sent \cap retry = {}

\* The client forgets a command only when the server has saved it, or knows no
\* such command: no loss of a connection, a page or the server loses one.
NoLostCommand == submitted \ Queued \subseteq saved \cup Unknown

\* A command is saved only after it took effect, or after a failure of its
\* handler that RedirectToWhen did not look at: one that threw, or failed while
\* it was waited for, is never taken for handled, whatever overlaps.
SavedTookEffect == \A m \in saved : executed[m] > 0 \/ m \in unseen

\* What waiting for the handler is for: errors of it are caught, so that no
\* command counts as handled that never took effect.
HandledTookEffect == \A m \in saved : executed[m] > 0

\* A command takes effect twice only when two invocations of it overlapped, or
\* one broke off between its effect and its row in the table: an acknowledgement
\* that is lost, however often, repeats nothing.
RepeatedOnlyInTrouble == \A m \in Message : executed[m] = 2 => m \in troubled

\* A loop waits only for invocations that the server still has, so that no
\* sendAll, which waits for all its messages, blocks the loop for good.
NoLoopWaitsForNothing ==
    \A l \in Loop : \A m \in pending[l] :
        \E c \in calls : Alive(c) /\ c.message = m /\ c.loop = l

\* Every command that can succeed is handled at last: a command that fails for
\* good does not keep another from the server. An old Bus may: its loop takes
\* messages from the loop that is connected, and no fairness of timers says
\* that this ends before the page is loaded anew.
EventuallyHandled ==
    \A m \in Message \ (Poison \cup Unknown) :
        m \in submitted ~> (m \in saved \/ oldBus)

\* ... and then the client forgets it, unless an old Bus delays the message
\* before each acknowledgement.
EventuallyForgotten ==
    \A m \in Message \ Poison :
        m \in submitted ~> (m \notin Queued \/ oldBus)

-----------------------------------------------------------------------------
(* What the two sides promise together: CommandJournal.                    *)

StatusOf(m) ==
    CASE m \notin submitted -> "new"
      [] m \in submitted \ Queued -> "forgotten"
      [] m \in Queued \cap saved -> "handled"
      [] OTHER -> "accepted"

Status == [m \in Message |-> StatusOf(m)]

Journal == INSTANCE CommandJournal
             WITH status <- Status, times <- executed, waived <- unseen

\* Every step of the page, the connections and the server is a step of the
\* journal, or leaves it alone.
JournalSpec == Journal!Spec

=============================================================================
