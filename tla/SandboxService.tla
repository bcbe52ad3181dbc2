--------------------------- MODULE SandboxService ---------------------------
(***************************************************************************)
(* What a sandbox lease promises to whoever holds it, with nothing of how  *)
(* the backend keeps the promise: a lease is opened once and closed for    *)
(* good, one process at a time has it while it is open, a kill that was    *)
(* accepted lets no further process in, and the sandbox of an open lease   *)
(* has the holder's process in it or none.                                 *)
(***************************************************************************)
CONSTANTS Processes,  \* process ids
          NoProcess   \* no process has the lease

VARIABLES
    phase,   \* of the lease: "unissued", "open" or "closed"
    holder,  \* the process that has the lease
    doomed,  \* a kill has been accepted, or the lease was destroyed
    inside   \* the processes alive in the sandbox

promise == <<phase, holder, doomed, inside>>

Init ==
    /\ phase = "unissued"
    /\ holder = NoProcess
    /\ doomed = FALSE
    /\ inside = {}

Issue ==
    /\ phase = "unissued"
    /\ phase' = "open"
    /\ UNCHANGED <<holder, doomed, inside>>

Admit(p) ==
    /\ phase = "open" /\ ~doomed /\ holder = NoProcess
    /\ inside = {}
    /\ holder' = p
    /\ UNCHANGED <<phase, doomed, inside>>

(* The holder's process starts.  In a closed lease a start that was given  *)
(* up on may still take effect.                                            *)
Enter(p) ==
    /\ phase = "closed" \/ (phase = "open" /\ holder = p)
    /\ inside' = inside \cup {p}
    /\ UNCHANGED <<phase, holder, doomed>>

Exit ==
    /\ inside' \in SUBSET inside
    /\ UNCHANGED <<phase, holder, doomed>>

(* The holder gives an open lease back with nothing left in the sandbox. *)
Leave ==
    /\ phase = "open" /\ ~doomed
    /\ inside = {}
    /\ holder' = NoProcess
    /\ UNCHANGED <<phase, doomed, inside>>

Kill ==
    /\ phase = "open" /\ holder # NoProcess
    /\ doomed' = TRUE
    /\ UNCHANGED <<phase, holder, inside>>

(* A lease closes by a kill or a destroy, whatever is in the sandbox. *)
Close ==
    /\ phase = "open"
    /\ phase' = "closed"
    /\ holder' = NoProcess
    /\ doomed' = TRUE
    /\ UNCHANGED inside

Next ==
    \/ Issue \/ Leave \/ Kill \/ Close \/ Exit
    \/ \E p \in Processes : Admit(p) \/ Enter(p)

Spec == Init /\ [][Next]_promise
=============================================================================
