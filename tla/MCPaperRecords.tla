--------------------------- MODULE MCPaperRecords ---------------------------
(* A small instance of PaperRecords; see PaperRecords.cfg. *)
EXTENDS PaperRecords, TLC

VisitorSymmetry == Permutations(Visitors)
=============================================================================
