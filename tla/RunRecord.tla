------------------------------ MODULE RunRecord ------------------------------
(***************************************************************************)
(* What the terminal record of a run promises to whoever schedules and     *)
(* bills it, with nothing of signals, timers, kills or destroys: there is  *)
(* one record, its usage is what was used when it was written, a run that  *)
(* is recorded as closed uses no more, and one that is released has and    *)
(* will have no compute.                                                   *)
(***************************************************************************)
EXTENDS Naturals

VARIABLES
    compute,   \* "none", "alive" or "gone"
    coming,    \* compute is still being created
    active,    \* the run's stream may still be producing or be read
    used,      \* output of the run
    verdict,   \* "none" until the run is recorded; "open", "closed" or "released"
    billed     \* the usage in the record

run == <<compute, coming, active, used, verdict, billed>>

Init ==
    /\ compute = "none" /\ ~coming /\ ~active
    /\ used = 0
    /\ verdict = "none" /\ billed = 0

(* Compute is asked for only on behalf of a run that has no record. *)
Begin ==
    /\ compute = "none" /\ ~coming /\ verdict = "none"
    /\ coming' = TRUE
    /\ UNCHANGED <<compute, active, used, verdict, billed>>

(* Compute that arrives after the record is never put to use. *)
Arrive ==
    /\ coming
    /\ coming' = FALSE /\ compute' = "alive"
    /\ active' \in BOOLEAN
    /\ active' => verdict = "none"
    /\ UNCHANGED <<used, verdict, billed>>

NeverArrives ==
    /\ coming /\ coming' = FALSE
    /\ UNCHANGED <<compute, active, used, verdict, billed>>

Use ==
    /\ active
    /\ used' = used + 1
    /\ UNCHANGED <<compute, coming, active, verdict, billed>>

Quiet ==
    /\ active /\ active' = FALSE
    /\ UNCHANGED <<compute, coming, used, verdict, billed>>

Go ==
    /\ compute = "alive" /\ compute' = "gone"
    /\ UNCHANGED <<coming, active, used, verdict, billed>>

(* The record may be written with the news that compute has gone or will   *)
(* not come.                                                               *)
Write(v) ==
    /\ verdict = "none" /\ verdict' = v
    /\ billed' = used
    /\ compute' = compute \/ (compute = "alive" /\ compute' = "gone")
    /\ coming' = coming \/ (coming /\ coming' = FALSE)
    /\ v # "open" => ~active
    /\ v = "released" => compute' # "alive" /\ ~coming'
    /\ UNCHANGED <<active, used>>

Next ==
    \/ Begin \/ Arrive \/ NeverArrives \/ Use \/ Quiet \/ Go
    \/ \E v \in {"open", "closed", "released"} : Write(v)

Spec == Init /\ [][Next]_run
=============================================================================
