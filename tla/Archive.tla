------------------------------- MODULE Archive -------------------------------
(***************************************************************************)
(* What a handoff promises to the keeper of the archive and to whoever     *)
(* waits for the sandbox, with nothing of stages, clients, retried         *)
(* questions or compensations: the fate of an output is decided once, an   *)
(* output that was persisted or rejected is not touched again, and a       *)
(* handoff that ends clean has left no sandbox and nothing unaccounted     *)
(* for, now or later.                                                      *)
(***************************************************************************)
CONSTANT Candidates

VARIABLES
    live,      \* the sandbox runs
    fate,      \* what was decided on each candidate
    archive,   \* candidates with a record
    litter,    \* candidates with an object but no record
    late,      \* candidates whose object came after its put was given up
    over       \* "no", "clean" or "dirty"

promise == <<live, fate, archive, litter, late, over>>

Init ==
    /\ live \in BOOLEAN
    /\ fate = [c \in Candidates |-> "none"]
    /\ archive = {} /\ litter = {} /\ late = {}
    /\ over = "no"

(* Nothing stored of another candidate changes, and no record goes. *)
Touches(c) ==
    /\ archive' \ {c} = archive \ {c}
    /\ litter' \ {c} = litter \ {c}
    /\ archive \subseteq archive'

Work(c) ==
    /\ over = "no" /\ fate[c] = "none"
    /\ Touches(c)
    /\ UNCHANGED <<live, fate, late, over>>

Decide(c, how) ==
    /\ over = "no" /\ fate[c] = "none"
    /\ fate' = [fate EXCEPT ![c] = how]
    /\ Touches(c)
    /\ how = "persisted" => c \in archive'
    /\ how = "rejected" => c \notin archive' \cup litter'
    /\ UNCHANGED <<live, late, over>>

(* A record that comes late is one that nobody has denied or relied on. *)
ComeLate(c) ==
    /\ over # "clean" /\ fate[c] \in {"none", "cleanup_required"}
    /\ archive' = archive \cup {c}
    /\ litter' = litter \ {c}
    /\ UNCHANGED <<live, fate, late, over>>

(* An object that comes late is accounted for as such. *)
Stray(c) ==
    /\ late' = late \cup {c}
    /\ litter' = litter \ {c}
    /\ UNCHANGED <<live, fate, archive, over>>

Stop ==
    /\ live /\ live' = FALSE
    /\ UNCHANGED <<fate, archive, litter, late, over>>

End(how) ==
    /\ over = "no" /\ over' = how
    /\ live' = live \/ (live /\ live' = FALSE)
    /\ how = "clean" =>
          /\ ~live' /\ litter = {}
          /\ \A c \in Candidates : fate[c] \in {"persisted", "rejected"}
    /\ UNCHANGED <<fate, archive, litter, late>>

Next ==
    \/ \E c \in Candidates :
          \/ Work(c) \/ ComeLate(c) \/ Stray(c)
          \/ \E how \in {"persisted", "rejected", "cleanup_required"} : Decide(c, how)
    \/ Stop \/ End("clean") \/ End("dirty")

Spec == Init /\ [][Next]_promise
=============================================================================
