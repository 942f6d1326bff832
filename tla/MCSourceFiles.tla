--------------------------- MODULE MCSourceFiles ---------------------------
(* Instances of SourceFiles for TLC.                                       *)
EXTENDS SourceFiles, TLC
CONSTANTS d1, q1, q2
=============================================================================
