------------------------ MODULE MCHappeningsInventory ------------------------
(* A small instance of HappeningsInventory: three requests, two happenings,  *)
(* one of which is typed in two ways.                                        *)
EXTENDS HappeningsInventory, TLC

MCKey == {"satkua", "SATKUA", "satkub"}

MCFold == [k \in MCKey |-> IF k = "satkub" THEN "satkub" ELSE "satkua"]

Created(k, isDefault, at) ==
    [type |-> "HappeningInventoryItemCreated", key |-> k,
     isDefault |-> isDefault, at |-> at]

\* Nothing yet, or satkua and satkub created one after the other, the first
\* as the default.
MCInitialStreams ==
    {{}, {Created("satkua", TRUE, 1), Created("satkub", FALSE, 2)}}

Symmetry == Permutations(Request)

=============================================================================
