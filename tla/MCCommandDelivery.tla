-------------------------- MODULE MCCommandDelivery --------------------------
(* Small instances of CommandDelivery: m1 is an ordinary command, m2 another  *)
(* one or poison, m3 is unknown to the server.                                *)
EXTENDS CommandDelivery

CONSTANTS m1, m2, m3

\* What the steps and the liveness properties look at: a view for these.
NoHistory == <<submitted, client, calls, saved, failures>>

=============================================================================
