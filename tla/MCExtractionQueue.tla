------------------------- MODULE MCExtractionQueue -------------------------
(***************************************************************************)
(* Small instances of ExtractionQueue.  d1, d2 are uploads, s1 a document  *)
(* the sweep found.  Workers and requests are interchangeable.             *)
(***************************************************************************)
EXTENDS ExtractionQueue, TLC

Symmetry == Permutations(Workers) \cup Permutations(Requests)
=============================================================================
