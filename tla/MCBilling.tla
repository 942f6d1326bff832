----------------------------- MODULE MCBilling -----------------------------
(* Instances of Billing for TLC.                                           *)
EXTENDS Billing, TLC

Symmetry == Permutations(Handlers) \cup Permutations(Purchases)
              \cup Permutations(Matrices)
=============================================================================
