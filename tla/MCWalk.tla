-------------------------------- MODULE MCWalk --------------------------------
(* A small instance of Walk: one walker, a start and a finish.               *)
EXTENDS Walk

MCTypeOf == [start |-> "Start", finish |-> "Finish"]

=============================================================================
