------------------------------- MODULE RunGate -------------------------------
(***************************************************************************)
(* What the guard of a run promises to its clients, with nothing of        *)
(* tokens, receipts, timers or lost answers: a number of calls fixed by    *)
(* the first request, none while the run is being closed, one request at   *)
(* a time that closes it and nobody else to reopen it, and a run that is   *)
(* told to be destroyed is closed for good.                                *)
(***************************************************************************)
EXTENDS Naturals, FiniteSets

CONSTANT Requests

VARIABLES
    phase,    \* "open", "closing" or "closed"
    limit,    \* the calls the run may make; 0 until the first request
    calls,    \* the requests admitted against the limit
    closers,  \* the request that is closing the run, or nobody
    told      \* the requests that were told the run is destroyed

gate == <<phase, limit, calls, closers, told>>

Init ==
    /\ phase = "open"
    /\ limit = 0
    /\ calls = {} /\ closers = {} /\ told = {}

(* The first request fixes the limit, whatever becomes of it. *)
Limited == IF limit = 0 THEN limit' \in Nat \ {0} ELSE UNCHANGED limit

TurnAway == Limited /\ UNCHANGED <<phase, calls, closers, told>>

Admit(r) ==
    /\ phase = "open"
    /\ Limited
    /\ r \notin calls
    /\ calls' = calls \cup {r}
    /\ Cardinality(calls') <= limit'
    /\ UNCHANGED <<phase, closers, told>>

(* A closer that is never heard of again leaves the run closing. *)
Close(r) ==
    /\ phase = "open" /\ closers = {}
    /\ Limited
    /\ phase' = "closing"
    /\ closers' \in {{}, {r}}
    /\ UNCHANGED <<calls, told>>

Reopen(r) ==
    /\ phase = "closing" /\ closers = {r}
    /\ phase' = "open"
    /\ closers' = {}
    /\ UNCHANGED <<limit, calls, told>>

Shut(r) ==
    /\ phase = "closing" /\ closers = {r}
    /\ phase' = "closed"
    /\ \/ closers' = {} /\ told' = told \cup {r}
       \/ UNCHANGED <<closers, told>>
    /\ UNCHANGED <<limit, calls>>

GiveUp ==
    /\ closers' = {}
    /\ UNCHANGED <<phase, limit, calls, told>>

Next ==
    \/ TurnAway \/ GiveUp
    \/ \E r \in Requests : Admit(r) \/ Close(r) \/ Reopen(r) \/ Shut(r)

Spec == Init /\ [][Next]_gate
=============================================================================
