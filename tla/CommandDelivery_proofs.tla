------------------------ MODULE CommandDelivery_proofs ------------------------
(***************************************************************************)
(* What CommandDelivery promises for any set of commands and any number of *)
(* loops, connections and failures, and that it implements CommandJournal. *)
(***************************************************************************)
EXTENDS CommandDelivery, TLAPS

-----------------------------------------------------------------------------
(* The inductive invariant.                                                *)

Types ==
    /\ submitted \in SUBSET Message
    /\ outgoing \in SUBSET submitted
    /\ sent \in SUBSET submitted
    /\ retry \in SUBSET submitted
    /\ online \in BOOLEAN /\ oldBus \in BOOLEAN /\ sendTimer \in BOOLEAN
    /\ connection \in Connection
    /\ loops \in Loop
    /\ pending \in [Loop -> SUBSET submitted]
    /\ calls \in SUBSET Call
    /\ saved \in SUBSET submitted
    /\ executed \in [Message -> 0..2]
    /\ failures \in 0..MaxFailures
    /\ troubled \in SUBSET submitted
    /\ unseen \in SUBSET submitted
    /\ \A c \in calls : c.message \in submitted

OneCall ==
    \A c, d \in calls :
        /\ c.message = d.message /\ c.loop = d.loop
        /\ c.connection = d.connection
        => c = d

\* Every invocation whose promise is not settled is one that a loop of the current
\* Bus waits for, or its connection is closed.
Awaited ==
    \A c \in calls :
        /\ c.connection <= connection
        /\ Alive(c) => c.loop <= loops /\ c.message \in pending[c.loop]
        /\ c.phase = "returned" => Alive(c)

\* What the phase of an invocation says of its message.
PhaseInv ==
    \A c \in calls :
        /\ c.phase = "new" => c.message \notin Unknown
        /\ c.phase = "executed" =>
              /\ c.message \notin Unknown
              /\ \/ c.message \notin Poison /\ executed[c.message] > 0
                 \/ c.message \in unseen
        /\ c.phase = "answering" => c.message \in saved \cup Unknown

\* A message that never was in trouble has one invocation at most, which is the one
\* that its effect comes from until it is saved.
Untroubled(m) ==
    /\ \A c, d \in calls : c.message = m /\ d.message = m => c = d
    /\ executed[m] < 2
    /\ executed[m] = 1 =>
          m \in saved \/ \E c \in calls : c.message = m /\ c.phase = "executed"
    /\ \A c \in calls : c.message = m /\ c.phase = "new" => m \notin saved /\ executed[m] = 0

UntroubledInv == \A m \in Message \ troubled : Untroubled(m)

\* Poison is saved only when a failure of it went unseen.
NoPoisonSaved == saved \cap Poison \subseteq unseen

IInv ==
    /\ Types /\ OneCall /\ Awaited /\ NoLoopWaitsForNothing
    /\ PhaseInv /\ SavedTookEffect /\ NoPoisonSaved
    /\ OneCopy /\ NoLostCommand
    /\ UntroubledInv

-----------------------------------------------------------------------------
(* Ways in which the set of invocations changes.                           *)

\* An invocation goes on to its next phase, or ends as its connection is closed.
Moves(c) ==
    \/ \E p \in CallPhase :
          /\ calls' = (calls \ {c}) \cup {[c EXCEPT !.phase = p]}
          /\ p = "returned" => Alive(c)
    \/ ~Alive(c) /\ calls' = calls \ {c}

\* All hub steps are such moves, and leave what loops wait for alone.
HubStep(c) ==
    \/ Lookup(c) \/ Execute(c) \/ ExecuteFails(c) \/ FailUnseen(c)
    \/ Save(c) \/ SaveFails(c) \/ Acknowledge(c)

\* A step of the hub is a move of one call.
LEMMA HubStepMoves ==
    ASSUME NEW c \in calls, HubStep(c)
    PROVE  /\ Moves(c)
           /\ UNCHANGED <<submitted, online, connection, oldBus, loops, sendTimer, pending>>
<1>1. CASE Lookup(c)
  BY <1>1 DEF Lookup, Proceed, Moves, CallPhase, client
<1>2. CASE Execute(c)
  BY <1>2 DEF Execute, Proceed, Moves, CallPhase, client
<1>3. CASE ExecuteFails(c)
  BY <1>3 DEF ExecuteFails, Return, Moves, CallPhase, client
<1>4. CASE Save(c)
  BY <1>4 DEF Save, Proceed, Return, Moves, CallPhase, client
<1>5. CASE SaveFails(c)
  BY <1>5 DEF SaveFails, Return, Moves, CallPhase, client
<1>6. CASE Acknowledge(c)
  BY <1>6 DEF Acknowledge, Return, Moves, CallPhase, client
<1>7. CASE FailUnseen(c)
  BY <1>7 DEF FailUnseen, Proceed, Moves, CallPhase, client
<1>. QED  BY <1>1, <1>2, <1>3, <1>4, <1>5, <1>6, <1>7 DEF HubStep

\* After a move there are the invocations that were there, but for a phase.
LEMMA MovedCalls ==
    ASSUME Types, NEW c \in calls, Moves(c)
    PROVE  /\ calls' \in SUBSET Call
           /\ \A d \in calls' : \E e \in calls :
                 /\ d.message = e.message /\ d.loop = e.loop /\ d.connection = e.connection
                 /\ d = e \/ e = c
                 /\ d.phase = "returned" /\ d # e => Alive(c)
           /\ \A e \in calls : Alive(e) => \E d \in calls' :
                 d.message = e.message /\ d.loop = e.loop /\ d.connection = e.connection
           /\ \A d, e \in calls' : d \notin calls /\ e \notin calls => d = e
<1>. USE DEF Types, Call
<1>1. CASE ~Alive(c) /\ calls' = calls \ {c}
  BY <1>1
<1>2. CASE \E p \in CallPhase : /\ calls' = (calls \ {c}) \cup {[c EXCEPT !.phase = p]}
                                /\ p = "returned" => Alive(c)
  <2>1. PICK p \in CallPhase : /\ calls' = (calls \ {c}) \cup {[c EXCEPT !.phase = p]}
                               /\ p = "returned" => Alive(c)
    BY <1>2
  <2>. DEFINE b == [c EXCEPT !.phase = p]
  <2>2. b \in Call /\ b.message = c.message /\ b.loop = c.loop
         /\ b.connection = c.connection /\ b.phase = p
    OBVIOUS
  <2>3. calls' = (calls \ {c}) \cup {b}
    BY <2>1
  <2>. HIDE DEF b
  <2>. QED  BY <2>1, <2>2, <2>3
<1>. QED  BY <1>1, <1>2 DEF Moves

\* A loop that waits for nothing sends a batch over the connection that is open.
LEMMA BatchSent ==
    ASSUME Types, OneCall, Awaited, NoLoopWaitsForNothing,
           NEW l \in Loop, NEW M \in SUBSET Message,
           NEW k \in Connection, SendBatch(l, M, k),
           online', connection' = k, connection <= k,
           loops' \in Loop, l <= loops',
           \A c \in calls :
               /\ Alive(c) => Alive(c)' /\ c.loop # l
               /\ Alive(c)' => Alive(c) /\ c.loop <= loops'
    PROVE  calls' \in SUBSET Call /\ OneCall' /\ Awaited' /\ NoLoopWaitsForNothing'
<1>. DEFINE sentCall(m) ==
              [message |-> m, loop |-> l, connection |-> k, phase |-> "sent"]
<1>1. /\ calls' = calls \cup {sentCall(m) : m \in M}
      /\ pending' = [pending EXCEPT ![l] = M]
  BY DEF SendBatch
<1>2. \A m \in M : /\ sentCall(m) \in Call
                    /\ sentCall(m).message = m /\ sentCall(m).loop = l
                    /\ sentCall(m).connection = k /\ sentCall(m).phase = "sent"
  BY DEF Call, CallPhase
<1>3. \A m, n \in M : sentCall(m).message = sentCall(n).message => sentCall(m) = sentCall(n)
  BY <1>2
<1>. HIDE DEF sentCall
<1>4. calls' \in SUBSET Call
  BY <1>1, <1>2 DEF Types
<1>5. \A c \in Call : c.connection = k => Alive(c)'
  BY DEF Alive
<1>6. \A c \in calls : c.loop = l => c.connection # k
  BY DEF Alive
<1>7. OneCall'
  BY <1>1, <1>2, <1>3, <1>6 DEF OneCall
<1>8. Awaited'
  <2>1. \A c \in calls : c.connection <= connection'
    BY DEF Awaited, Types, Call, Connection
  <2>2. \A c \in calls : Alive(c)' => c.loop <= loops' /\ c.message \in pending'[c.loop]
    BY <1>1 DEF Awaited, Types, Call
  <2>3. \A m \in M : sentCall(m).message \in pending'[l]
    BY <1>1, <1>2 DEF Types
  <2>4. \A c \in calls : c.phase = "returned" => Alive(c)'
    BY DEF Awaited
  <2>. QED  BY <1>1, <1>2, <1>5, <2>1, <2>2, <2>3, <2>4 DEF Awaited, Connection
<1>9. NoLoopWaitsForNothing'
  <2>. SUFFICES ASSUME NEW i \in Loop, NEW m \in pending'[i]
                PROVE  \E c \in calls' : Alive(c)' /\ c.message = m /\ c.loop = i
    BY DEF NoLoopWaitsForNothing
  <2>1. CASE i = l
    BY <2>1, <1>1, <1>2, <1>5 DEF Types
  <2>2. CASE i # l
    BY <2>2, <1>1 DEF Types, NoLoopWaitsForNothing
  <2>. QED  BY <2>1, <2>2
<1>. QED  BY <1>4, <1>7, <1>8, <1>9

-----------------------------------------------------------------------------
(* Invocations, and who waits for them.                                    *)

CallsInv == OneCall /\ Awaited /\ NoLoopWaitsForNothing

\* When the page has no connection no loop waits.
LEMMA OfflineIdle ==
    ASSUME Types, NoLoopWaitsForNothing, ~online
    PROVE  \A l \in Loop : pending[l] = {}
  BY DEF NoLoopWaitsForNothing, Alive

\* A move leaves the other invocations and those who wait for them alone.
LEMMA MoveKeepsCalls ==
    ASSUME Types, CallsInv, NEW c \in calls, Moves(c),
           UNCHANGED <<online, connection, loops, pending>>
    PROVE  CallsInv'
<1>. USE DEF Alive
<1>1. \A d \in calls' : \E e \in calls :
         /\ d.message = e.message /\ d.loop = e.loop /\ d.connection = e.connection
         /\ d = e \/ e = c
         /\ d.phase = "returned" /\ d # e => Alive(c)
  BY MovedCalls
<1>2. \A d, e \in calls' : d \notin calls /\ e \notin calls => d = e
  BY MovedCalls
<1>3. c \in calls' => calls' \subseteq calls
  BY DEF Moves
<1>4. OneCall'
  BY <1>1, <1>2, <1>3 DEF OneCall, CallsInv
<1>5. Awaited'
  BY <1>1 DEF Awaited, CallsInv
<1>6. NoLoopWaitsForNothing'
  BY MovedCalls DEF NoLoopWaitsForNothing, CallsInv
<1>. QED  BY <1>4, <1>5, <1>6 DEF CallsInv

\* A step keeps the types of the calls.
LEMMA CallsStep ==
    ASSUME Types, CallsInv, [Next]_vars
    PROVE  calls' \in SUBSET Call /\ CallsInv'
<1>. USE DEF CallsInv
<1>1. ASSUME NEW m \in Message, Submit(m)
      PROVE  calls' \in SUBSET Call /\ CallsInv'
  <2>1. CASE /\ online /\ ~sendTimer /\ loops < MaxLoops
             /\ loops' = loops + 1
             /\ SendBatch(loops + 1, outgoing', connection)
    <3>1. loops + 1 \in Loop /\ loops <= loops + 1
      BY <2>1, BoundAssumption DEF Types, Loop
    <3>2. online' /\ connection' = connection /\ connection \in Connection
           /\ connection <= connection
      BY <1>1, <2>1 DEF Submit, Types, Connection
    <3>3. outgoing' \in SUBSET Message
      BY <1>1 DEF Submit, Types, Add
    <3>4. \A c \in calls :
             /\ Alive(c) => Alive(c)' /\ c.loop # loops + 1
             /\ Alive(c)' => Alive(c) /\ c.loop <= loops'
      BY <2>1, <3>1, <3>2 DEF Alive, Awaited, Types, Call, Loop
    <3>. QED  BY <2>1, <3>1, <3>2, <3>3, <3>4, BatchSent
  <2>2. CASE UNCHANGED <<loops, pending, calls, troubled>>
    BY <1>1, <2>2 DEF Submit, OneCall, Awaited, NoLoopWaitsForNothing, Alive, Types
  <2>. QED  BY <1>1, <2>1, <2>2 DEF Submit
<1>2. ASSUME NEW l \in Loop, SendAll(l)
      PROVE  calls' \in SUBSET Call /\ CallsInv'
  <2>1. online' /\ connection' = connection /\ connection \in Connection
         /\ connection <= connection /\ loops' = loops /\ l <= loops'
    BY <1>2 DEF SendAll, Types, Connection
  <2>2. \A c \in calls :
           /\ Alive(c) => Alive(c)' /\ c.loop # l
           /\ Alive(c)' => Alive(c) /\ c.loop <= loops'
    BY <1>2, <2>1 DEF SendAll, Alive, Awaited
  <2>. QED  BY <1>2, <2>1, <2>2, BatchSent DEF SendAll, Types
<1>3. ASSUME Reconnect
      PROVE  calls' \in SUBSET Call /\ CallsInv'
  <2>1. connection + 1 \in Connection /\ connection' = connection + 1 /\ online'
         /\ connection <= connection + 1 /\ 1 \in Loop /\ loops' = 1
    BY <1>3, BoundAssumption DEF Reconnect, Types, Connection, Loop
  <2>2. \A c \in calls : ~Alive(c) /\ ~Alive(c)'
    BY <1>3, <2>1 DEF Reconnect, Alive, Awaited, Types, Call, Connection
  <2>. QED  BY <1>3, <2>1, <2>2, BatchSent DEF Reconnect, Types
<1>4. ASSUME NEW c \in calls, HubStep(c)
      PROVE  calls' \in SUBSET Call /\ CallsInv'
  BY <1>4, HubStepMoves, MoveKeepsCalls, MovedCalls
<1>5. ASSUME NEW c \in calls, Settle(c)
      PROVE  calls' \in SUBSET Call /\ CallsInv'
  <2>1. /\ calls' = calls \ {c}
        /\ pending' = [pending EXCEPT ![c.loop] = @ \ {c.message}]
        /\ UNCHANGED <<online, connection, loops>>
        /\ c.loop \in Loop
    BY <1>5 DEF Settle, Types, Call
  <2>2. Alive(c)
    BY <1>5 DEF Settle, Awaited
  <2>3. \A d \in calls' : Alive(d) => d.loop # c.loop \/ d.message # c.message
    BY <2>1, <2>2 DEF OneCall, Alive
  <2>4. OneCall'
    BY <2>1 DEF OneCall
  <2>5. Awaited'
    BY <2>1, <2>3 DEF Awaited, Alive, Types, Call
  <2>6. NoLoopWaitsForNothing'
    BY <2>1 DEF NoLoopWaitsForNothing, Alive, Types
  <2>. QED  BY <2>1, <2>4, <2>5, <2>6 DEF Types
<1>6. ASSUME /\ calls' \in SUBSET Unanswered /\ ~online'
             /\ UNCHANGED connection /\ pending' = [l \in Loop |-> {}]
      PROVE  calls' \in SUBSET Call /\ CallsInv'
  BY <1>6 DEF Unanswered, OneCall, Awaited, NoLoopWaitsForNothing, Alive, Types
<1>7. CASE Disconnect
  BY <1>6, <1>7 DEF Disconnect, DropConnection
<1>8. CASE Reload
  BY <1>6, <1>8 DEF Reload
<1>9. CASE CrashServer
  <2>1. calls' = {} /\ UNCHANGED connection /\ ~online'
    BY <1>9 DEF CrashServer, DropConnection
  <2>2. \A l \in Loop : pending'[l] = {}
    BY <1>9, OfflineIdle DEF CrashServer, DropConnection
  <2>. QED  BY <2>1, <2>2 DEF OneCall, Awaited, NoLoopWaitsForNothing
<1>10. CASE UNCHANGED <<online, connection, loops, pending, calls>>
  BY <1>10 DEF OneCall, Awaited, NoLoopWaitsForNothing, Alive, Types
<1>11. ASSUME NEW m \in Message, RetryDelayed(m) \/ ResendUnacknowledged(m)
       PROVE  calls' \in SUBSET Call /\ CallsInv'
  BY <1>10, <1>11 DEF RetryDelayed, ResendUnacknowledged
<1>12. CASE SendAllOnOldBus
  BY <1>10, <1>12 DEF SendAllOnOldBus
<1>13. CASE UNCHANGED vars
  BY <1>10, <1>13 DEF vars, client
<1>. QED
  BY <1>1, <1>2, <1>3, <1>4, <1>5, <1>7, <1>8, <1>9, <1>11, <1>12, <1>13
  DEF Next, CallStep, HubStep

-----------------------------------------------------------------------------
(* Types.                                                                  *)

\* One more effect, which is counted up to two.
LEMMA EffectTypes ==
    ASSUME Types, NEW m \in Message, TakeEffect(m)
    PROVE  /\ executed' \in [Message -> 0..2] /\ executed'[m] > 0
           /\ executed'[m] = 2 => executed[m] > 0
           /\ \A n \in Message : n # m => executed'[n] = executed[n]
<1>1. executed[m] \in 0..2 /\ executed \in [Message -> 0..2]
  BY DEF Types
<1>. DEFINE k == IF executed[m] < 2 THEN executed[m] + 1 ELSE 2
<1>2. k \in 0..2 /\ k > 0 /\ (k = 2 => executed[m] > 0)
  BY <1>1
<1>3. executed' = [executed EXCEPT ![m] = k]
  BY DEF TakeEffect
<1>. HIDE DEF k
<1>. QED  BY <1>1, <1>2, <1>3

\* What a batch does to them, but for the set of invocations.
LEMMA BatchTypes ==
    ASSUME Types, CallsInv, NEW l \in Loop, NEW M \in SUBSET submitted',
           NEW k, SendBatch(l, M, k), submitted \subseteq submitted'
    PROVE  /\ pending' \in [Loop -> SUBSET submitted']
           /\ troubled' \in SUBSET submitted'
           /\ \A c \in calls' : c.message \in submitted'
<1>1. \A i \in Loop : pending[i] \in SUBSET submitted'
  BY DEF Types
<1>2. pending' \in [Loop -> SUBSET submitted']
  BY <1>1 DEF SendBatch, Types
<1>3. troubled' \in SUBSET submitted'
  BY DEF SendBatch, Types
<1>4. \A c \in calls' : c.message \in submitted'
  BY DEF SendBatch, Types
<1>. QED  BY <1>2, <1>3, <1>4

\* A step keeps all types.
LEMMA TypesStep ==
    ASSUME Types, CallsInv, [Next]_vars
    PROVE  Types'
<1>1. calls' \in SUBSET Call
  BY CallsStep
<1>2. ASSUME NEW m \in Message, Submit(m)
      PROVE  Types'
  <2>1. outgoing' \in SUBSET submitted' /\ submitted \subseteq submitted'
    BY <1>2 DEF Submit, Types, Add
  <2>2. CASE /\ loops < MaxLoops /\ loops' = loops + 1
             /\ SendBatch(loops + 1, outgoing', connection)
    <3>1. loops + 1 \in Loop
      BY <2>2, BoundAssumption DEF Types, Loop
    <3>2. /\ pending' \in [Loop -> SUBSET submitted']
          /\ troubled' \in SUBSET submitted'
          /\ \A c \in calls' : c.message \in submitted'
      BY <2>1, <2>2, <3>1, BatchTypes
    <3>. QED  BY <1>1, <1>2, <2>1, <2>2, <3>1, <3>2 DEF Submit, Types
  <2>3. CASE UNCHANGED <<loops, pending, calls, troubled>>
    <3>1. pending' \in [Loop -> SUBSET submitted']
      BY <2>1, <2>3 DEF Types
    <3>. QED  BY <1>1, <1>2, <2>1, <2>3, <3>1 DEF Submit, Types
  <2>. QED  BY <1>2, <2>2, <2>3 DEF Submit
<1>3. ASSUME NEW l \in Loop, SendAll(l)
      PROVE  Types'
  BY <1>1, <1>3, BatchTypes DEF SendAll, Types
<1>4. CASE Reconnect
  <2>1. 1 \in Loop /\ connection + 1 \in Connection
    BY <1>4, BoundAssumption DEF Reconnect, Types, Loop, Connection
  <2>2. /\ pending' \in [Loop -> SUBSET submitted']
        /\ troubled' \in SUBSET submitted'
        /\ \A c \in calls' : c.message \in submitted'
    BY <1>4, <2>1, BatchTypes DEF Reconnect, Types
  <2>. QED  BY <1>1, <1>4, <2>1, <2>2 DEF Reconnect, Types
<1>5. ASSUME NEW c \in calls, HubStep(c)
      PROVE  Types'
  <2>1. c \in Call /\ c.message \in submitted /\ c.message \in Message
    BY DEF Types
  <2>2. \A d \in calls' : d.message \in submitted
    BY <1>5, HubStepMoves, MovedCalls DEF Types
  <2>3. UNCHANGED <<submitted, online, connection, oldBus, loops, sendTimer, pending>>
    BY <1>5, HubStepMoves
  <2>4. TakeEffect(c.message) => executed' \in [Message -> 0..2]
    BY <2>1, EffectTypes
  <2>5. \/ MayFail(c.message) /\ Fail(c.message)
        \/ failures < MaxFailures /\ failures' = failures + 1
        => failures' \in 0..MaxFailures
    BY BoundAssumption DEF MayFail, Fail, Types
  <2>6. /\ outgoing' \in SUBSET submitted /\ sent' \in SUBSET submitted
        /\ retry' \in SUBSET submitted /\ saved' \in SUBSET submitted
        /\ troubled' \in SUBSET submitted /\ unseen' \in SUBSET submitted
    BY <1>5, <2>1 DEF HubStep, Lookup, Execute, ExecuteFails, FailUnseen, Save, SaveFails,
                      Acknowledge, Forget, Remove, Types, client
  <2>7. executed' \in [Message -> 0..2] /\ failures' \in 0..MaxFailures
    BY <1>5, <2>4, <2>5 DEF HubStep, Lookup, Execute, ExecuteFails, FailUnseen,
                            Save, SaveFails, Acknowledge, Types
  <2>. QED  BY <1>1, <2>2, <2>3, <2>6, <2>7 DEF Types
<1>6. ASSUME NEW c \in calls, Settle(c)
      PROVE  Types'
  <2>1. c \in Call /\ c.message \in submitted
    BY DEF Types
  <2>2. outgoing' \in SUBSET submitted /\ sent' \in SUBSET submitted
    BY <1>6, <2>1 DEF Settle, MarkSent, Remove, Add, Types
  <2>3. pending' \in [Loop -> SUBSET submitted]
    BY <1>6, <2>1 DEF Settle, Types
  <2>4. sendTimer' \in BOOLEAN
    BY <1>6 DEF Settle
  <2>. QED  BY <1>1, <1>6, <2>2, <2>3, <2>4 DEF Settle, Types
<1>7. DropConnection => /\ outgoing' \in SUBSET submitted /\ retry' \in SUBSET submitted
                        /\ pending' \in [Loop -> SUBSET submitted]
                        /\ online' = FALSE /\ oldBus' = TRUE
  BY DEF DropConnection, Remove, Add, Types
<1>8. CASE Disconnect
  BY <1>1, <1>7, <1>8 DEF Disconnect, Unanswered, Types
<1>9. CASE Reload
  BY <1>1, <1>9 DEF Reload, Unanswered, Types
<1>10. CASE CrashServer
  <2>1. troubled' \in SUBSET submitted /\ calls' = {}
    BY <1>10 DEF CrashServer, Types
  <2>. QED  BY <1>1, <1>7, <1>10, <2>1 DEF CrashServer, Types
<1>11. ASSUME NEW m \in Message, RetryDelayed(m) \/ ResendUnacknowledged(m)
       PROVE  Types'
  BY <1>1, <1>11 DEF RetryDelayed, ResendUnacknowledged, Remove, Add, Types
<1>12. CASE SendAllOnOldBus
  BY <1>1, <1>12 DEF SendAllOnOldBus, Remove, Add, Types
<1>13. CASE UNCHANGED vars
  BY <1>13 DEF vars, client, Types
<1>. QED
  BY <1>2, <1>3, <1>4, <1>5, <1>6, <1>8, <1>9, <1>10, <1>11, <1>12, <1>13
  DEF Next, CallStep, HubStep

-----------------------------------------------------------------------------
(* What the server has done, and what is saved of it.                      *)

HandledInv == PhaseInv /\ SavedTookEffect /\ NoPoisonSaved

\* Steps outside the hub method change neither, and start invocations at "sent".
LEMMA OutsideHub ==
    ASSUME Types, [Next]_vars, ~\E c \in calls : HubStep(c)
    PROVE  /\ UNCHANGED <<saved, executed, unseen>>
           /\ \A d \in calls' : d \in calls \/ d.phase = "sent"
<1>1. ASSUME NEW l, NEW M, NEW k, SendBatch(l, M, k)
      PROVE  \A d \in calls' : d \in calls \/ d.phase = "sent"
  BY <1>1 DEF SendBatch
<1>2. CASE \E m \in Message : Submit(m) \/ RetryDelayed(m) \/ ResendUnacknowledged(m)
  BY <1>1, <1>2 DEF Submit, RetryDelayed, ResendUnacknowledged
<1>3. CASE \E l \in Loop : SendAll(l)
  BY <1>1, <1>3 DEF SendAll
<1>4. CASE SendAllOnOldBus \/ Disconnect \/ Reload \/ CrashServer
  BY <1>4 DEF SendAllOnOldBus, Disconnect, Reload, CrashServer, Unanswered
<1>5. CASE Reconnect
  BY <1>1, <1>5 DEF Reconnect
<1>6. CASE \E c \in calls : Settle(c)
  BY <1>6 DEF Settle
<1>7. CASE UNCHANGED vars
  BY <1>7 DEF vars, client
<1>. QED
  BY <1>2, <1>3, <1>4, <1>5, <1>6, <1>7 DEF Next, CallStep, HubStep

\* A step keeps what saved and forgotten commands have behind them.
LEMMA HandledStep ==
    ASSUME Types, HandledInv, [Next]_vars
    PROVE  HandledInv'
<1>. USE DEF HandledInv
<1>1. CASE ~\E c \in calls : HubStep(c)
  BY <1>1, OutsideHub DEF PhaseInv, SavedTookEffect, NoPoisonSaved
<1>2. ASSUME NEW c \in calls, HubStep(c)
      PROVE  HandledInv'
  <2>. USE DEF Types, Call
  <2>1. c \in Call /\ c.message \in Message
    OBVIOUS
  <2>2. /\ c.phase = "new" => c.message \notin Unknown
        /\ c.phase = "executed" =>
              /\ c.message \notin Unknown
              /\ \/ c.message \notin Poison /\ executed[c.message] > 0
                 \/ c.message \in unseen
    BY DEF PhaseInv
  <2>3. \A p \in CallPhase : [c EXCEPT !.phase = p].message = c.message
                             /\ [c EXCEPT !.phase = p].phase = p
    BY <2>1
  <2>4. CASE Lookup(c)
    BY <2>2, <2>3, <2>4
    DEF Lookup, Proceed, CallPhase, PhaseInv, SavedTookEffect, NoPoisonSaved
  <2>5. CASE Execute(c)
    <3>1. \A n \in Message : executed[n] > 0 => executed'[n] > 0
      BY <2>1, <2>5, EffectTypes DEF Execute
    <3>2. executed'[c.message] > 0
      BY <2>1, <2>5, EffectTypes DEF Execute
    <3>. QED
      BY <2>2, <2>3, <2>5, <3>1, <3>2
      DEF Execute, Proceed, CallPhase, PhaseInv, SavedTookEffect, NoPoisonSaved
  <2>6. CASE ExecuteFails(c)
    <3>1. \A n \in Message : executed[n] > 0 => executed'[n] > 0
      BY <2>1, <2>6, EffectTypes DEF ExecuteFails
    <3>. QED
      BY <2>3, <2>6, <3>1
      DEF ExecuteFails, Return, CallPhase, PhaseInv, SavedTookEffect, NoPoisonSaved
  <2>7. CASE Save(c)
    BY <2>2, <2>3, <2>7
    DEF Save, Proceed, Return, CallPhase, PhaseInv, SavedTookEffect, NoPoisonSaved
  <2>8. CASE SaveFails(c)
    BY <2>3, <2>8
    DEF SaveFails, Return, CallPhase, PhaseInv, SavedTookEffect, NoPoisonSaved
  <2>9. CASE Acknowledge(c)
    BY <2>3, <2>9
    DEF Acknowledge, Return, CallPhase, PhaseInv, SavedTookEffect, NoPoisonSaved
  <2>10. CASE FailUnseen(c)
    <3>1. \A n \in Message : executed[n] > 0 => executed'[n] > 0
      BY <2>1, <2>10, EffectTypes DEF FailUnseen
    <3>. QED
      BY <2>2, <2>3, <2>10, <3>1
      DEF FailUnseen, Proceed, CallPhase, PhaseInv, SavedTookEffect, NoPoisonSaved
  <2>. QED  BY <1>2, <2>4, <2>5, <2>6, <2>7, <2>8, <2>9, <2>10 DEF HubStep
<1>. QED  BY <1>1, <1>2

-----------------------------------------------------------------------------
(* The queues.                                                             *)

QueueInv == OneCopy /\ NoLostCommand

\* Only an acknowledgement takes a message out of all queues.
LEMMA QueueStep ==
    ASSUME Types, PhaseInv, QueueInv, [Next]_vars
    PROVE  QueueInv'
<1>. USE DEF QueueInv, OneCopy, NoLostCommand, Queued, Add, Remove, Types
<1>1. CASE UNCHANGED <<submitted, outgoing, sent, retry>> /\ saved \subseteq saved'
  BY <1>1
<1>2. ASSUME NEW m \in Message, Submit(m)
      PROVE  QueueInv'
  BY <1>2 DEF Submit
<1>3. ASSUME NEW m \in Message, RetryDelayed(m) \/ ResendUnacknowledged(m)
      PROVE  QueueInv'
  BY <1>3 DEF RetryDelayed, ResendUnacknowledged
<1>4. CASE SendAllOnOldBus
  BY <1>4 DEF SendAllOnOldBus
<1>5. ASSUME NEW c \in calls, Settle(c)
      PROVE  QueueInv'
  BY <1>5 DEF Settle, MarkSent
<1>6. ASSUME NEW c \in calls, Acknowledge(c)
      PROVE  QueueInv'
  <2>1. c.message \in saved \cup Unknown
    BY <1>6 DEF Acknowledge, PhaseInv
  <2>. QED  BY <1>6, <2>1 DEF Acknowledge, Forget
<1>7. ASSUME NEW c \in calls,
             \/ Lookup(c) \/ Execute(c) \/ ExecuteFails(c) \/ FailUnseen(c)
             \/ Save(c) \/ SaveFails(c)
      PROVE  QueueInv'
  BY <1>1, <1>7 DEF Lookup, Execute, ExecuteFails, FailUnseen, Save, SaveFails, client
<1>8. ASSUME DropConnection, UNCHANGED <<submitted, sent, saved>>
      PROVE  QueueInv'
  BY <1>8 DEF DropConnection
<1>9. CASE Disconnect \/ CrashServer
  BY <1>1, <1>8, <1>9 DEF Disconnect, CrashServer
<1>10. CASE Reload \/ Reconnect \/ \E l \in Loop : SendAll(l)
  BY <1>1, <1>10 DEF Reload, Reconnect, SendAll
<1>11. CASE UNCHANGED vars
  BY <1>1, <1>11 DEF vars, client
<1>. QED
  BY <1>2, <1>3, <1>4, <1>5, <1>6, <1>7, <1>9, <1>10, <1>11 DEF Next, CallStep

-----------------------------------------------------------------------------
(* What takes effect twice.                                                *)

\* An invocation that begins while another of its message is at work is trouble.
LEMMA BatchUntroubled ==
    ASSUME Types, UntroubledInv, NEW l, NEW M, NEW k, SendBatch(l, M, k),
           UNCHANGED <<saved, executed>>
    PROVE  UntroubledInv'
<1>. DEFINE sentCall(m) == [message |-> m, loop |-> l, connection |-> k, phase |-> "sent"]
<1>1. /\ calls' = calls \cup {sentCall(m) : m \in M}
      /\ troubled' = troubled \cup (M \cap InProgress)
  BY DEF SendBatch
<1>2. \A m \in M : sentCall(m).message = m /\ sentCall(m).phase = "sent"
  OBVIOUS
<1>. HIDE DEF sentCall
<1>. SUFFICES ASSUME NEW m \in Message, m \notin troubled'
              PROVE  Untroubled(m)'
  BY DEF UntroubledInv
<1>3. Untroubled(m)
  BY <1>1 DEF UntroubledInv
<1>4. m \notin M \/ \A c \in calls : c.message # m
  BY <1>1 DEF InProgress
<1>5. \A c, d \in calls' : c.message = m /\ d.message = m => c = d
  BY <1>1, <1>2, <1>3, <1>4 DEF Untroubled
<1>6. \A c \in calls' : c.message = m /\ c.phase = "new" => c \in calls
  BY <1>1, <1>2
<1>7. calls \subseteq calls'
  BY <1>1
<1>. QED  BY <1>3, <1>5, <1>6, <1>7 DEF Untroubled

\* Invocations may end, but for those that have taken effect and are not saved.
LEMMA EndUntroubled ==
    ASSUME UntroubledInv, calls' \subseteq calls, troubled \subseteq troubled',
           \A c \in calls : c.phase = "executed" => c \in calls' \/ c.message \in troubled',
           UNCHANGED <<saved, executed>>
    PROVE  UntroubledInv'
<1>. SUFFICES ASSUME NEW m \in Message, m \notin troubled'
              PROVE  Untroubled(m)'
  BY DEF UntroubledInv
<1>1. Untroubled(m)
  BY DEF UntroubledInv
<1>. QED  BY <1>1 DEF Untroubled

\* A step of an invocation does not concern the other messages.
LEMMA OtherUntroubled ==
    ASSUME Types, NEW c \in calls, HubStep(c),
           NEW m \in Message, m # c.message, Untroubled(m)
    PROVE  Untroubled(m)'
<1>1. c \in Call /\ c.message \in Message
  BY DEF Types, Call
<1>2. \A d \in calls' : d \in calls \/ d.message = c.message
  BY HubStepMoves, MovedCalls
<1>3. calls \ {c} \subseteq calls'
  BY HubStepMoves DEF Moves
<1>4. executed'[m] = executed[m]
  BY <1>1, EffectTypes
  DEF HubStep, Lookup, Execute, ExecuteFails, FailUnseen, Save, SaveFails, Acknowledge
<1>5. m \in saved' <=> m \in saved
  BY DEF HubStep, Lookup, Execute, ExecuteFails, FailUnseen, Save, SaveFails, Acknowledge
<1>. QED  BY <1>2, <1>3, <1>4, <1>5 DEF Untroubled

\* The only invocation of a message that was never in trouble goes its way.
LEMMA OnlyUntroubled ==
    ASSUME Types, NEW c \in calls, HubStep(c),
           Untroubled(c.message), c.message \notin troubled'
    PROVE  Untroubled(c.message)'
<1>. DEFINE m == c.message
<1>1. c \in Call /\ m \in Message
  BY DEF Types, Call
<1>2. executed[m] \in 0..1
  BY <1>1 DEF Types, Untroubled
<1>3. executed[m] = 1 /\ c.phase # "executed" => m \in saved
  BY <1>1 DEF Untroubled
<1>4. \A p \in CallPhase : /\ [c EXCEPT !.phase = p].message = m
                           /\ [c EXCEPT !.phase = p].phase = p
  BY <1>1 DEF Call
<1>5. \A d, e \in calls' : d.message = m /\ e.message = m => d = e
  <2>1. \A d \in calls : d.message = m => d = c
    BY DEF Untroubled
  <2>. QED  BY <2>1, HubStepMoves DEF Moves
<1>6. CASE Lookup(c)
  <2>1. \A d \in calls' : d.message = m => d.phase = IF m \in Unknown \cup saved
                                                      THEN "answering" ELSE "new"
    BY <1>4, <1>6 DEF Lookup, Proceed, CallPhase, Untroubled
  <2>. QED  BY <1>2, <1>3, <1>5, <1>6, <2>1 DEF Lookup, Untroubled
<1>7. CASE Execute(c)
  <2>1. executed[m] = 0
    BY <1>7 DEF Execute, Untroubled
  <2>2. executed'[m] = 1
    BY <1>1, <1>7, <2>1, EffectTypes DEF Execute
  <2>3. [c EXCEPT !.phase = "executed"] \in calls'
    BY <1>7 DEF Execute, Proceed
  <2>4. \A d \in calls' : d.message = m => d.phase = "executed"
    BY <1>4, <1>7 DEF Execute, Proceed, CallPhase, Untroubled
  <2>5. \E d \in calls' : d.message = m /\ d.phase = "executed"
    BY <1>4, <2>3 DEF CallPhase
  <2>. HIDE DEF m
  <2>6. Untroubled(m)'
    BY <1>5, <2>2, <2>4, <2>5 DEF Untroubled
  <2>. QED  BY <2>6 DEF m
<1>8. CASE ExecuteFails(c)
  <2>1. executed' = executed /\ saved' = saved /\ executed[m] = 0
    BY <1>8 DEF ExecuteFails, Untroubled
  <2>2. \A d \in calls' : d.message = m => d.phase = "returned"
    BY <1>4, <1>8 DEF ExecuteFails, Return, CallPhase, Untroubled
  <2>. QED  BY <1>5, <2>1, <2>2 DEF Untroubled
<1>9. CASE Save(c)
  <2>1. \A d \in calls' : d.message = m => d.phase \in {"answering", "returned"}
    BY <1>4, <1>9 DEF Save, Proceed, Return, CallPhase, Untroubled
  <2>2. m \in saved' /\ executed' = executed
    BY <1>9 DEF Save
  <2>. QED  BY <1>2, <1>5, <2>1, <2>2 DEF Untroubled
<1>10. CASE SaveFails(c)
  BY <1>10 DEF SaveFails
<1>11. CASE Acknowledge(c)
  <2>1. \A d \in calls' : d.message = m => d.phase = "returned"
    BY <1>4, <1>11 DEF Acknowledge, Return, CallPhase, Untroubled
  <2>. QED  BY <1>2, <1>3, <1>5, <1>11, <2>1 DEF Acknowledge, Untroubled
<1>12. CASE FailUnseen(c)
  <2>1. saved' = saved /\ executed[m] = 0 /\ (executed' = executed \/ executed'[m] = 1)
    <3>1. saved' = saved /\ executed[m] = 0
      BY <1>12 DEF FailUnseen, Untroubled
    <3>. QED  BY <1>1, <1>12, <3>1, EffectTypes DEF FailUnseen
  <2>2. [c EXCEPT !.phase = "executed"] \in calls'
    BY <1>12 DEF FailUnseen, Proceed
  <2>3. \A d \in calls' : d.message = m => d.phase = "executed"
    BY <1>4, <1>12 DEF FailUnseen, Proceed, CallPhase, Untroubled
  <2>4. \E d \in calls' : d.message = m /\ d.phase = "executed"
    BY <1>4, <2>2 DEF CallPhase
  <2>. HIDE DEF m
  <2>5. Untroubled(m)'
    BY <1>5, <2>1, <2>3, <2>4 DEF Untroubled
  <2>. QED  BY <2>5 DEF m
<1>. QED  BY <1>6, <1>7, <1>8, <1>9, <1>10, <1>11, <1>12 DEF HubStep

\* A step keeps a command without trouble at one call.
LEMMA UntroubledStep ==
    ASSUME Types, UntroubledInv, [Next]_vars
    PROVE  UntroubledInv'
<1>1. ASSUME NEW c \in calls, HubStep(c)
      PROVE  UntroubledInv'
  <2>1. troubled \subseteq troubled'
    BY <1>1 DEF HubStep, Lookup, Execute, ExecuteFails, FailUnseen, Save, SaveFails,
                Acknowledge
  <2>. SUFFICES ASSUME NEW m \in Message, m \notin troubled'
                PROVE  Untroubled(m)'
    BY DEF UntroubledInv
  <2>2. Untroubled(m)
    BY <2>1 DEF UntroubledInv
  <2>. QED  BY <1>1, <2>2, OtherUntroubled, OnlyUntroubled
<1>2. ASSUME NEW c \in calls, Settle(c)
      PROVE  UntroubledInv'
  BY <1>2, EndUntroubled DEF Settle
<1>3. CASE Disconnect \/ Reload
  BY <1>3, EndUntroubled DEF Disconnect, Reload, Unanswered
<1>4. CASE CrashServer
  BY <1>4, EndUntroubled DEF CrashServer
<1>5. CASE UNCHANGED <<calls, saved, executed, troubled>>
  BY <1>5, EndUntroubled
<1>6. ASSUME NEW m \in Message, Submit(m)
      PROVE  UntroubledInv'
  BY <1>5, <1>6, BatchUntroubled DEF Submit
<1>7. ASSUME NEW l \in Loop, SendAll(l)
      PROVE  UntroubledInv'
  BY <1>7, BatchUntroubled DEF SendAll
<1>8. CASE Reconnect
  BY <1>8, BatchUntroubled DEF Reconnect
<1>9. ASSUME NEW m \in Message, RetryDelayed(m) \/ ResendUnacknowledged(m)
      PROVE  UntroubledInv'
  BY <1>5, <1>9 DEF RetryDelayed, ResendUnacknowledged
<1>10. CASE SendAllOnOldBus \/ UNCHANGED vars
  BY <1>5, <1>10 DEF SendAllOnOldBus, vars, client
<1>. QED
  BY <1>1, <1>2, <1>3, <1>4, <1>6, <1>7, <1>8, <1>9, <1>10 DEF Next, CallStep, HubStep

-----------------------------------------------------------------------------
(* The invariant holds.                                                    *)

\* The invariant holds at first.
LEMMA InitInv ==
    ASSUME Init
    PROVE  IInv
<1>. USE DEF Init
<1>1. Types
  <2>1. 1 \in Loop /\ 1 \in Connection /\ 0 \in 0..MaxFailures
    BY BoundAssumption DEF Loop, Connection
  <2>2. pending \in [Loop -> SUBSET submitted] /\ executed \in [Message -> 0..2]
    OBVIOUS
  <2>. QED  BY <2>1, <2>2 DEF Types
<1>2. OneCall /\ Awaited /\ NoLoopWaitsForNothing /\ PhaseInv
  BY DEF OneCall, Awaited, NoLoopWaitsForNothing, PhaseInv
<1>3. SavedTookEffect /\ NoPoisonSaved /\ OneCopy /\ NoLostCommand
  BY DEF SavedTookEffect, NoPoisonSaved, OneCopy, NoLostCommand
<1>4. UntroubledInv
  BY DEF UntroubledInv, Untroubled
<1>. QED  BY <1>1, <1>2, <1>3, <1>4 DEF IInv

\* A step keeps the invariant.
LEMMA NextInv == IInv /\ [Next]_vars => IInv'
<1>. SUFFICES ASSUME IInv, [Next]_vars
              PROVE  IInv'
  OBVIOUS
<1>1. Types /\ CallsInv /\ HandledInv /\ QueueInv /\ UntroubledInv
  BY DEF IInv, CallsInv, HandledInv, QueueInv
<1>2. Types' /\ CallsInv' /\ HandledInv' /\ QueueInv' /\ UntroubledInv'
  BY <1>1, TypesStep, CallsStep, HandledStep, QueueStep, UntroubledStep DEF HandledInv
<1>. QED  BY <1>2 DEF IInv, CallsInv, HandledInv, QueueInv

\* The invariant holds in every state.
LEMMA Invariance == Spec => []IInv
  BY InitInv, NextInv, PTL DEF Spec

-----------------------------------------------------------------------------
(* What follows for every execution.                                       *)

\* Type correctness, and that a loop never sends over a connection what it still
\* waits for, however many loops and connections there are.
THEOREM TypeCorrect == Spec => []TypeOK
<1>1. IInv => TypeOK
  BY DEF IInv, Types, OneCall, TypeOK
<1>. QED  BY <1>1, Invariance, PTL

\* No message is in two queues.
THEOREM OneCopyOnly == Spec => []OneCopy
<1>1. IInv => OneCopy
  BY DEF IInv
<1>. QED  BY <1>1, Invariance, PTL

\* Whatever breaks, the page forgets only what the server has saved or does not know.
THEOREM NothingLost == Spec => []NoLostCommand
<1>1. IInv => NoLostCommand
  BY DEF IInv
<1>. QED  BY <1>1, Invariance, PTL

\* No command is saved that had no effect, but for those of which a failure went
\* unseen: every failure that is thrown or waited for keeps its command from counting
\* as handled.
THEOREM SavedAfterEffect == Spec => []SavedTookEffect
<1>1. IInv => SavedTookEffect
  BY DEF IInv
<1>. QED  BY <1>1, Invariance, PTL

\* Only invocations that overlap or break off repeat an effect.
THEOREM RepeatedInTrouble == Spec => []RepeatedOnlyInTrouble
<1>1. IInv => RepeatedOnlyInTrouble
  BY DEF IInv, UntroubledInv, Untroubled, RepeatedOnlyInTrouble
<1>. QED  BY <1>1, Invariance, PTL

\* No loop is blocked by a promise that nobody will settle.
THEOREM NobodyBlocked == Spec => []NoLoopWaitsForNothing
<1>1. IInv => NoLoopWaitsForNothing
  BY DEF IInv
<1>. QED  BY <1>1, Invariance, PTL

-----------------------------------------------------------------------------
(* CommandDelivery implements CommandJournal.                              *)

\* What Status says of a command, case by case.
LEMMA StatusIs ==
    ASSUME Types, NEW m \in Message
    PROVE  /\ m \notin submitted <=> StatusOf(m) = "new"
           /\ m \in submitted \ Queued <=> StatusOf(m) = "forgotten"
           /\ m \in Queued \cap saved <=> StatusOf(m) = "handled"
           /\ m \in Queued \ saved <=> StatusOf(m) = "accepted"
<1>1. Queued \subseteq submitted
  BY DEF Types, Queued
<1>2. CASE m \notin submitted
  BY <1>1, <1>2 DEF StatusOf
<1>3. CASE m \in submitted \ Queued
  BY <1>3 DEF StatusOf
<1>4. CASE m \in Queued \cap saved
  BY <1>1, <1>4 DEF StatusOf
<1>5. CASE m \in Queued \ saved
  BY <1>1, <1>5 DEF StatusOf
<1>. QED  BY <1>1, <1>2, <1>3, <1>4, <1>5

\* What a step leaves as it is.
LEMMA StatusKept ==
    ASSUME UNCHANGED <<submitted, Queued, saved>>
    PROVE  Status' = Status
  BY DEF Status, StatusOf

\* One message changes.
LEMMA StatusBecomes ==
    ASSUME NEW m \in Message, NEW s, StatusOf(m)' = s,
           \A n \in Message : n # m => StatusOf(n)' = StatusOf(n)
    PROVE  Status' = [Status EXCEPT ![m] = s]
  BY DEF Status

\* Where neither changes the journal does not notice.
LEMMA JournalStutters ==
    ASSUME UNCHANGED <<submitted, Queued, saved, executed, unseen>>
    PROVE  UNCHANGED Journal!vars
  BY StatusKept DEF Journal!vars

\* A command that takes effect does so in the journal.
LEMMA EffectIsEffect ==
    ASSUME Types, NEW m \in Message, m \in submitted, m \notin Unknown,
           TakeEffect(m), UNCHANGED <<submitted, Queued, saved, unseen>>
    PROVE  Journal!TakeEffect(m)
<1>1. Status[m] # "new"
  BY StatusIs DEF Status
<1>. QED
  BY <1>1, StatusKept
  DEF TakeEffect, Journal!TakeEffect, Journal!Executable, Journal!CountEffect

\* A failure nobody saw is one that the journal waives.
LEMMA UnseenIsWaived ==
    ASSUME Types, NEW m \in Message, m \in submitted, m \notin Unknown,
           UNCHANGED executed \/ TakeEffect(m), unseen' = unseen \cup {m},
           UNCHANGED <<submitted, Queued, saved>>
    PROVE  Journal!Waive(m)
<1>1. Status[m] # "new"
  BY StatusIs DEF Status
<1>. QED
  BY <1>1, StatusKept
  DEF TakeEffect, Journal!Waive, Journal!Executable, Journal!CountEffect

\* A step of the hub is a step of the journal, or none.
LEMMA HubStepInJournal ==
    ASSUME IInv, NEW c \in calls, HubStep(c)
    PROVE  Journal!Next \/ UNCHANGED Journal!vars
<1>. DEFINE m == c.message
<1>1. Types /\ m \in Message /\ m \in submitted
  BY DEF IInv, Types, Call
<1>2. CASE Lookup(c)
  BY <1>2, JournalStutters DEF Lookup, client, Queued
<1>3. CASE Execute(c)
  <2>1. m \notin Unknown
    BY <1>3 DEF Execute, IInv, PhaseInv
  <2>2. UNCHANGED <<submitted, Queued, saved, unseen>>
    BY <1>3 DEF Execute, client, Queued
  <2>. QED  BY <1>1, <1>3, <2>1, <2>2, EffectIsEffect DEF Execute, Journal!Next
<1>4. CASE ExecuteFails(c)
  <2>1. m \notin Unknown
    BY <1>4 DEF ExecuteFails, IInv, PhaseInv
  <2>2. UNCHANGED <<submitted, Queued, saved, unseen>>
    BY <1>4 DEF ExecuteFails, client, Queued
  <2>. QED
    BY <1>1, <1>4, <2>1, <2>2, EffectIsEffect, JournalStutters
    DEF ExecuteFails, Journal!Next
<1>5. CASE Save(c)
  <2>1. UNCHANGED <<submitted, Queued, executed, unseen>>
    BY <1>5 DEF Save, client, Queued
  <2>2. CASE m \in saved \/ m \notin Queued
    <3>1. \A n \in Message : StatusOf(n)' = StatusOf(n)
      BY <1>1, <1>5, <2>1, <2>2 DEF Save, StatusOf
    <3>. QED  BY <2>1, <3>1 DEF Status, Journal!vars
  <2>3. CASE m \notin saved /\ m \in Queued
    <3>1. m \in unseen \/ (m \notin Poison /\ executed[m] > 0)
      BY <1>5 DEF Save, IInv, PhaseInv
    <3>2. Status[m] = "accepted"
      BY <1>1, <2>3, StatusIs DEF Status
    <3>3. saved' = saved \cup {m}
      BY <1>5, <2>3 DEF Save
    <3>4. StatusOf(m)' = "handled"
      BY <1>1, <2>1, <2>3, <3>3 DEF StatusOf
    <3>5. \A n \in Message : n # m => StatusOf(n)' = StatusOf(n)
      BY <2>1, <3>3 DEF StatusOf
    <3>6. Status' = [Status EXCEPT ![m] = "handled"]
      BY <1>1, <3>4, <3>5, StatusBecomes
    <3>. QED
      BY <1>1, <2>1, <3>1, <3>2, <3>6 DEF Journal!Next, Journal!Handle, Journal!Become
  <2>. QED  BY <2>2, <2>3
<1>6. CASE SaveFails(c)
  BY <1>6, JournalStutters DEF SaveFails, client, Queued
<1>7. CASE Acknowledge(c)
  <2>1. UNCHANGED <<submitted, saved, executed, unseen, retry>>
    BY <1>7 DEF Acknowledge
  <2>2. m \in saved \cup Unknown
    BY <1>7 DEF Acknowledge, IInv, PhaseInv
  <2>3. Queued' = Queued \/ (m \notin Queued' /\ Queued' = Queued \ {m})
    BY <1>7, <1>1 DEF Acknowledge, Forget, Remove, Queued
  <2>4. CASE Queued' = Queued
    BY <2>1, <2>4, JournalStutters
  <2>5. CASE m \in Queued /\ Queued' = Queued \ {m}
    <3>1. Status[m] = "handled" \/ (Status[m] = "accepted" /\ m \in Unknown)
      BY <1>1, <2>2, <2>5, StatusIs DEF Status
    <3>2. StatusOf(m)' = "forgotten"
      BY <1>1, <2>1, <2>5 DEF StatusOf
    <3>3. \A n \in Message : n # m => StatusOf(n)' = StatusOf(n)
      BY <2>1, <2>5 DEF StatusOf
    <3>4. Status' = [Status EXCEPT ![m] = "forgotten"]
      BY <1>1, <3>2, <3>3, StatusBecomes
    <3>. QED
      BY <1>1, <2>1, <3>1, <3>4 DEF Journal!Next, Journal!Forget, Journal!Become
  <2>. QED  BY <2>3, <2>4, <2>5
<1>8. CASE FailUnseen(c)
  <2>1. m \notin Unknown
    BY <1>8 DEF FailUnseen, IInv, PhaseInv
  <2>2. UNCHANGED <<submitted, Queued, saved>>
    BY <1>8 DEF FailUnseen, client, Queued
  <2>. QED  BY <1>1, <1>8, <2>1, <2>2, UnseenIsWaived DEF FailUnseen, Journal!Next
<1>. QED  BY <1>2, <1>3, <1>4, <1>5, <1>6, <1>7, <1>8 DEF HubStep

\* A step is a step of the journal, or none.
LEMMA JournalStep ==
    ASSUME IInv, [Next]_vars
    PROVE  Journal!Next \/ UNCHANGED Journal!vars
<1>1. ASSUME NEW c \in calls, HubStep(c)
      PROVE  Journal!Next \/ UNCHANGED Journal!vars
  BY <1>1, HubStepInJournal
<1>2. ASSUME NEW m \in Message, Submit(m)
      PROVE  Journal!Next
  <2>1. Types /\ m \notin submitted /\ m \notin saved
    BY <1>2 DEF Submit, IInv, Types
  <2>2. /\ submitted' = submitted \cup {m} /\ Queued' = Queued \cup {m}
        /\ UNCHANGED <<saved, executed, unseen>>
    BY <1>2 DEF Submit, Queued, Add
  <2>3. Status[m] = "new"
    BY <2>1, StatusIs DEF Status
  <2>4. StatusOf(m)' = "accepted"
    BY <2>1, <2>2 DEF StatusOf
  <2>5. \A n \in Message : n # m => StatusOf(n)' = StatusOf(n)
    BY <2>2 DEF StatusOf
  <2>6. Status' = [Status EXCEPT ![m] = "accepted"]
    BY <2>4, <2>5, StatusBecomes
  <2>. QED  BY <2>2, <2>3, <2>6 DEF Journal!Next, Journal!Accept, Journal!Become
<1>. SUFFICES ASSUME ~\E c \in calls : HubStep(c), ~\E m \in Message : Submit(m)
              PROVE  UNCHANGED Journal!vars
  BY <1>1, <1>2
<1>3. UNCHANGED <<saved, executed, unseen>>
  BY OutsideHub DEF IInv
<1>4. UNCHANGED <<submitted, Queued>>
  <2>. USE DEF Queued, Add, Remove
  <2>1. CASE \E m \in Message : RetryDelayed(m) \/ ResendUnacknowledged(m)
    BY <2>1 DEF RetryDelayed, ResendUnacknowledged
  <2>2. CASE \E c \in calls : Settle(c)
    BY <2>2 DEF Settle, MarkSent
  <2>3. CASE SendAllOnOldBus
    BY <2>3 DEF SendAllOnOldBus
  <2>4. DropConnection /\ UNCHANGED sent => UNCHANGED Queued
    BY DEF DropConnection
  <2>5. CASE Disconnect \/ CrashServer
    BY <2>4, <2>5 DEF Disconnect, CrashServer
  <2>6. CASE Reload \/ Reconnect \/ (\E l \in Loop : SendAll(l)) \/ UNCHANGED vars
    BY <2>6 DEF Reload, Reconnect, SendAll, vars, client
  <2>. QED  BY <2>1, <2>2, <2>3, <2>5, <2>6 DEF Next, CallStep, HubStep
<1>. QED  BY <1>3, <1>4, JournalStutters

\* Whatever the page, the connections and the server do, with any number of commands,
\* loops, connections and failures, is what the journal allows: a failure that nobody
\* saw is waived, and nothing else counts as handled without an effect.
THEOREM ImplementsJournal == Spec => JournalSpec
<1>1. Init => Journal!Init
  BY DEF Init, Journal!Init, Status, StatusOf
<1>2. IInv /\ [Next]_vars => [Journal!Next]_(Journal!vars)
  BY JournalStep
<1>. QED  BY <1>1, <1>2, Invariance, PTL DEF Spec, JournalSpec, Journal!Spec

=============================================================================
