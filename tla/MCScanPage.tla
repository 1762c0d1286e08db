------------------------------ MODULE MCScanPage ------------------------------
(* A small instance of ScanPage: one person with a barcode of one key and a    *)
(* tag of two.                                                                 *)
EXTENDS ScanPage, TLC

CONSTANT p1

MCTypeOf == <<"Start", "Pitstop", "Finish">>

MCBarcodes == (p1 :> <<"a">>)
MCTags == (p1 :> <<"b", "b">>)
MCTestCode == <<"t">>

\* Bounds: commands that wait for the server at the same time, rows of the log.
FewWait == Cardinality(sent) <= 1
FewRows == Len(rows) <= 2

=============================================================================
