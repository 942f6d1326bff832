--------------------------- MODULE MCMatrixReview ---------------------------
(* Instances of MatrixReview for TLC. *)
EXTENDS MatrixReview, TLC

TwoItems == {1, 2}

Say(i, verdict) == [item |-> i, verdict |-> verdict]

\* Both binding; the first dropped; chunks disagreeing about the first and the
\* second no longer found.
ThreeExtractions ==
  {{Say(1, "row"), Say(2, "row")},
   {Say(1, "dropped"), Say(2, "row")},
   {Say(1, "row"), Say(1, "filtered")}}

AnyRequest == Permutations(Requests)
=============================================================================
