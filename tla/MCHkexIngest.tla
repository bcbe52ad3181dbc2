---------------------------- MODULE MCHkexIngest ----------------------------
(* A bounded instance of HkexIngest for TLC. *)
EXTENDS HkexIngest, TLC

Symmetry == Permutations(Invocations) \cup Permutations(Documents) \cup Permutations(Ranks)
=============================================================================
