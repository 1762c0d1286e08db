----------------------------- MODULE MCAdminPages -----------------------------
(* Two registrations, one of them listed first, a person who was there and two *)
(* or three to be created. A tick is 500 ms.                                    *)
EXTENDS AdminPages, TLC

MCErrors == {-1}

MCNewPerson == <<("r1" :> "n1" @@ "r2" :> "n2")>>

\* Where three things have gone wrong the properties say little more.
LittleTrouble == Cardinality(past) <= 2 /\ Cardinality(sent) + Cardinality(later) <= 2

=============================================================================
