---------------------------- MODULE CommandJournal ----------------------------
(***************************************************************************)
(* What sending a command promises: it takes effect at least once before   *)
(* it counts as handled, unless a failure of it went unseen, and it is     *)
(* forgotten only after that, unless it is refused because nobody knows    *)
(* it. CommandDelivery implements this.                                    *)
(***************************************************************************)
EXTENDS Naturals

CONSTANTS
    Message,
    Poison,     \* commands that never succeed
    Unknown     \* commands that are refused

VARIABLES
    status,     \* status[m]: "new", "accepted", "handled" or "forgotten"
    times,      \* times[m], up to 2: how often m took effect
    waived      \* commands of which a failure went unseen

vars == <<status, times, waived>>

Init ==
    /\ status = [m \in Message |-> "new"]
    /\ times = [m \in Message |-> 0]
    /\ waived = {}

Become(m, s) ==
    /\ status' = [status EXCEPT ![m] = s]
    /\ UNCHANGED <<times, waived>>

Accept(m) == status[m] = "new" /\ Become(m, "accepted")

CountEffect(m) == times' = [times EXCEPT ![m] = IF @ < 2 THEN @ + 1 ELSE 2]

\* Only a command that was accepted, and that somebody knows, is executed.
Executable(m) == status[m] # "new" /\ m \notin Unknown

\* At least once: it may take effect again, even after it was handled.
TakeEffect(m) ==
    /\ Executable(m)
    /\ CountEffect(m)
    /\ UNCHANGED <<status, waived>>

\* A failure, before or after the effect, that nobody notices.
Waive(m) ==
    /\ Executable(m)
    /\ UNCHANGED times \/ CountEffect(m)
    /\ waived' = waived \cup {m}
    /\ UNCHANGED status

Handle(m) ==
    /\ status[m] = "accepted"
    /\ m \in waived \/ (m \notin Poison /\ times[m] > 0)
    /\ Become(m, "handled")

Forget(m) ==
    /\ \/ status[m] = "handled"
       \/ status[m] = "accepted" /\ m \in Unknown
    /\ Become(m, "forgotten")

Next ==
    \E m \in Message :
        Accept(m) \/ TakeEffect(m) \/ Waive(m) \/ Handle(m) \/ Forget(m)

Spec == Init /\ [][Next]_vars

=============================================================================
