-------------------------- MODULE MCSandboxBackend --------------------------
(* Bounded instances of SandboxBackend for TLC. *)
EXTENDS SandboxBackend, TLC

Symmetry == Permutations(Processes) \cup Permutations(Destroyers)
=============================================================================
