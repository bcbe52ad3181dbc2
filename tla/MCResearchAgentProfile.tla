------------------------ MODULE MCResearchAgentProfile ------------------------
(* Bounded instances of ResearchAgentProfile for TLC. *)
EXTENDS ResearchAgentProfile, TLC

(* Calls and requests are interchangeable: nothing orders them. *)
CallSymmetry == Permutations(Calls) \cup Permutations(Requests)
=============================================================================
