-------------------------- MODULE MCDurableHandoff --------------------------
(* A bounded instance of DurableHandoff for TLC. *)
EXTENDS DurableHandoff, TLC

Symmetry == Permutations(Candidates)
=============================================================================
