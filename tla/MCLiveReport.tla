----------------------------- MODULE MCLiveReport -----------------------------
(* A small instance of LiveReport: one checkpoint of each type.                *)
EXTENDS LiveReport

MCTypeOf == <<"Start", "Pitstop", "Passthrough", "Finish">>

\* Bound: commands that wait for the server at the same time.
FewWait == Cardinality(sent) <= 1

=============================================================================
