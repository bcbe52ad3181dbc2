-------------------------- MODULE TerminalLifecycle --------------------------
(***************************************************************************)
(* runSandboxTerminalLifecycle (packages/agent-runtime): one run of a      *)
(* sandbox from create to its terminal record, against a backend that may  *)
(* answer late or never, an execution stream that may end in any way or    *)
(* not at all, a control signal that may abort at any moment, and the      *)
(* lifecycle's own timers.                                                 *)
(*                                                                         *)
(* A Promise.race is won by the event that settles first while the         *)
(* lifecycle waits in it, so the event and the branch it selects are one   *)
(* step; events that happen elsewhere are only remembered, and the race    *)
(* after an unconfirmed soft kill looks at them in the code's order.       *)
(*                                                                         *)
(* Timers are ordered as the fixed policy orders them: soft timeout 180 s, *)
(* hard timeout 600 s, kill, destroy and close waits 15 s each, so the     *)
(* hard timeout can only meet the race that follows a soft kill.           *)
(* Terminal states are kept apart as far as the branches do: "controlled"  *)
(* is any control reason, "killed" a kill reason the stream itself reports.*)
(***************************************************************************)
EXTENDS Naturals

CONSTANTS MaxOutput,   \* bound on the output events of the stream
          NoRecord

ASSUME OutputAssumption == MaxOutput \in Nat

VARIABLES
    pc,          \* where the lifecycle awaits
    control,     \* the control signal was aborted
    creation,    \* the backend's create promise
    sandbox,     \* the compute behind the lease
    handle,      \* backend.execute returned a handle
    execution,   \* consumeExecution: running, or the state it observed
    closed,      \* the handle's closed promise resolved
    meter,       \* output events counted so far
    decision,    \* terminal cause and kill status decided so far
    cleanup,     \* what destroyLease reported
    destroys,    \* destroy requests sent for the lease
    abandoned,   \* a background continuation waits for the create promise
    record,      \* the terminal record handed to record_terminal
    cause        \* history: the first thing that could end the execution

vars == <<pc, control, creation, sandbox, handle, execution, closed, meter, decision,
          cleanup, destroys, abandoned, record, cause>>

Outcomes == {"completed", "execution_failed", "stream_interrupted", "killed"}
TerminalStates == Outcomes \cup {"controlled", "soft_timeout", "hard_timeout", "create_failed"}
Confirmations == {"confirmed", "already_terminal"}
KillStatuses == Confirmations \cup {"not_requested", "failed", "unconfirmed"}

Record == [terminal_state : TerminalStates, kill_status : KillStatuses,
           release_safe : BOOLEAN, execution_closed : BOOLEAN,
           output_event_count : 0..MaxOutput]

ASSUME NoRecordAssumption == NoRecord \notin Record

Settled == execution \in Outcomes
Recorded == pc \in {"recording", "recorded", "record_failed"}

TypeOK ==
    /\ pc \in {"start", "create", "createControl", "race", "softKill", "afterSoft", "kill",
               "destroy", "closing", "recording", "recorded", "record_failed"}
    /\ control \in BOOLEAN /\ handle \in BOOLEAN /\ closed \in BOOLEAN /\ abandoned \in BOOLEAN
    /\ creation \in {"none", "inflight", "created", "failed"}
    /\ sandbox \in {"none", "alive", "gone"}
    /\ execution \in Outcomes \cup {"none", "running"}
    /\ meter \in 0..MaxOutput
    /\ decision \in [terminal_state : TerminalStates, kill_status : KillStatuses]
    /\ cleanup \in {"none", "safe", "unsafe"}
    /\ destroys \in Nat
    /\ record \in Record \cup {NoRecord}
    /\ cause \in TerminalStates \cup {"none"}
    /\ Recorded <=> record # NoRecord

Init ==
    /\ pc = "start" /\ control \in BOOLEAN
    /\ creation = "none" /\ sandbox = "none"
    /\ handle = FALSE /\ execution = "none" /\ closed = FALSE /\ meter = 0
    /\ decision = [terminal_state |-> "create_failed", kill_status |-> "not_requested"]
    /\ cleanup = "none" /\ destroys = 0 /\ abandoned = FALSE
    /\ record = NoRecord /\ cause = "none"

-----------------------------------------------------------------------------
(* Steps the branches share *)

(* recordTerminal is called with the record; it settles later. *)
Records(terminal, kill, safe, quiet) ==
    /\ pc' = "recording"
    /\ record' = [terminal_state |-> terminal, kill_status |-> kill,
                  release_safe |-> safe, execution_closed |-> quiet,
                  output_event_count |-> meter]

(* A cause and a kill status are decided: the stream is left to close and  *)
(* destroyLease is called.                                                 *)
Decide(terminal, kill) ==
    /\ decision' = [terminal_state |-> terminal, kill_status |-> kill]
    /\ pc' = "destroy"
    /\ destroys' = destroys + 1

(* Mutant of RequestKill: destroy is called at once, its effect trusted. *)
RequestKill_Skipped(terminal) == Decide(terminal, "not_requested")

(* requestKill is called; the cause it is for is kept in decision. *)
RequestKill(terminal) ==
    /\ decision' = [decision EXCEPT !.terminal_state = terminal]
    /\ pc' = "kill"
    /\ UNCHANGED destroys

SoftKill ==
    /\ decision' = [decision EXCEPT !.terminal_state = "soft_timeout"]
    /\ pc' = "softKill"
    /\ UNCHANGED destroys

Stays == UNCHANGED <<pc, decision, destroys>>

Happens(event) == cause' = IF cause = "none" THEN event ELSE cause

-----------------------------------------------------------------------------
(* Creation *)

(* Mutant of PreAborted: a run aborted before its start returns unrecorded. *)
PreAborted_Unrecorded ==
    /\ pc = "start" /\ control
    /\ pc' = "recorded"
    /\ UNCHANGED <<control, creation, sandbox, handle, execution, closed, meter, decision,
                   cleanup, destroys, abandoned, record, cause>>

PreAborted ==
    /\ pc = "start" /\ control
    /\ Records("controlled", "not_requested", TRUE, TRUE)
    /\ UNCHANGED <<control, creation, sandbox, handle, execution, closed, meter, decision,
                   cleanup, destroys, abandoned, cause>>

Create ==
    /\ pc = "start" /\ ~control
    /\ pc' = "create" /\ creation' = "inflight"
    /\ UNCHANGED <<control, sandbox, handle, execution, closed, meter, decision, cleanup,
                   destroys, abandoned, record, cause>>

(* The lease is there: execute it, unless execute, or taking the iterator  *)
(* of the handle it returned, throws.                                      *)
Execute ==
    \/ /\ handle' = TRUE /\ execution' = "running" /\ pc' = "race"
       /\ UNCHANGED <<decision, destroys, cause>>
    \/ /\ handle' \in BOOLEAN /\ execution' = "execution_failed"
       /\ Decide("execution_failed", "not_requested")
       /\ Happens("execution_failed")

(* Mutant of CreateSucceeds: the lease of an abandoned create is ignored. *)
CreateSucceeds_Leaks ==
    /\ creation = "inflight"
    /\ creation' = "created" /\ sandbox' = "alive"
    /\ \/ pc = "create" /\ Execute
       \/ /\ pc = "createControl"
          /\ Decide("controlled", "not_requested")
          /\ UNCHANGED <<handle, execution, cause>>
       \/ /\ abandoned
          /\ UNCHANGED <<pc, decision, destroys, handle, execution, cause>>
    /\ UNCHANGED <<control, closed, meter, cleanup, abandoned, record>>

CreateSucceeds ==
    /\ creation = "inflight"
    /\ creation' = "created" /\ sandbox' = "alive"
    /\ \/ pc = "create" /\ Execute
       \/ /\ pc = "createControl"
          /\ Decide("controlled", "not_requested")
          /\ UNCHANGED <<handle, execution, cause>>
       \/ /\ abandoned
          /\ destroys' = destroys + 1
          /\ UNCHANGED <<pc, decision, handle, execution, cause>>
    /\ UNCHANGED <<control, closed, meter, cleanup, abandoned, record>>

(* A create that fails, or is not answered by its deadline: nobody can     *)
(* tell what the backend still owns.                                       *)
CreateEnds(terminal) == Records(terminal, "not_requested", FALSE, TRUE)

WaitsForCreate == pc \in {"create", "createControl"}
CreateTerminal == IF pc = "create" THEN "create_failed" ELSE "controlled"

CreateFails ==
    /\ creation = "inflight"
    /\ creation' = "failed"
    /\ \/ WaitsForCreate /\ CreateEnds(CreateTerminal)
       \/ abandoned /\ UNCHANGED <<pc, record>>
    /\ UNCHANGED <<control, sandbox, handle, execution, closed, meter, decision, cleanup,
                   destroys, abandoned, cause>>

CreateDeadline ==
    /\ WaitsForCreate
    /\ CreateEnds(CreateTerminal)
    /\ abandoned' = TRUE
    /\ UNCHANGED <<control, creation, sandbox, handle, execution, closed, meter, decision,
                   cleanup, destroys, cause>>

-----------------------------------------------------------------------------
(* Events that race for the terminal cause *)

(* The control signal aborts; the listener of an ended race is gone. *)
ControlAborts ==
    /\ ~control /\ control' = TRUE
    /\ \/ /\ pc = "create" /\ pc' = "createControl"
          /\ UNCHANGED <<decision, destroys>>
       \/ pc \in {"race", "afterSoft"} /\ RequestKill("controlled")
       \/ pc \notin {"create", "race", "afterSoft"} /\ Stays
    /\ IF handle THEN Happens("controlled") ELSE UNCHANGED cause
    /\ UNCHANGED <<creation, sandbox, handle, execution, closed, meter, cleanup, abandoned,
                   record>>

(* Mutant of ExecutionSettles: after a soft kill the stream's own end is    *)
(* taken for the cause.                                                    *)
ExecutionSettles_ForgetsSoft(outcome) ==
    /\ execution = "running" /\ execution' = outcome
    /\ \/ pc = "race" /\ outcome = "stream_interrupted" /\ RequestKill(outcome)
       \/ pc = "race" /\ outcome # "stream_interrupted" /\ Decide(outcome, "not_requested")
       \/ pc = "afterSoft" /\ Decide(outcome, decision.kill_status)
       \/ pc \notin {"race", "afterSoft"} /\ Stays
    /\ Happens(outcome)
    /\ UNCHANGED <<control, creation, sandbox, handle, closed, meter, cleanup, abandoned,
                   record>>

(* consumeExecution returns: an exit, a failed event, or the stream ends   *)
(* or breaks without either.                                               *)
ExecutionSettles(outcome) ==
    /\ execution = "running" /\ execution' = outcome
    /\ \/ pc = "race" /\ outcome = "stream_interrupted" /\ RequestKill(outcome)
       \/ pc = "race" /\ outcome # "stream_interrupted" /\ Decide(outcome, "not_requested")
       \/ pc = "afterSoft" /\ Decide("soft_timeout", decision.kill_status)
       \/ pc \notin {"race", "afterSoft"} /\ Stays
    /\ Happens(outcome)
    /\ UNCHANGED <<control, creation, sandbox, handle, closed, meter, cleanup, abandoned,
                   record>>

SoftDeadline ==
    /\ pc = "race"
    /\ SoftKill
    /\ Happens("soft_timeout")
    /\ UNCHANGED <<control, creation, sandbox, handle, execution, closed, meter, cleanup,
                   abandoned, record>>

HardDeadline ==
    /\ pc = "afterSoft"
    /\ RequestKill("hard_timeout")
    /\ UNCHANGED <<control, creation, sandbox, handle, execution, closed, meter, cleanup,
                   abandoned, record, cause>>

(* The soft kill is answered, fails, or outlasts the grace.  Unconfirmed,  *)
(* it leaves the run to whatever has settled meanwhile, or settles next.   *)
SoftKillEnds(status) ==
    /\ pc = "softKill"
    /\ \/ /\ status \in Confirmations \/ Settled
          /\ Decide("soft_timeout", status)
       \/ /\ status \notin Confirmations /\ ~Settled /\ control
          /\ RequestKill("controlled")
       \/ /\ status \notin Confirmations /\ ~Settled /\ ~control
          /\ decision' = [decision EXCEPT !.kill_status = status]
          /\ pc' = "afterSoft"
          /\ UNCHANGED destroys
    /\ UNCHANGED <<control, creation, sandbox, handle, execution, closed, meter, cleanup,
                   abandoned, record, cause>>

KillEnds(status) ==
    /\ pc = "kill"
    /\ Decide(decision.terminal_state, status)
    /\ UNCHANGED <<control, creation, sandbox, handle, execution, closed, meter, cleanup,
                   abandoned, record, cause>>

KillAnswered == \E s \in {"confirmed", "already_terminal", "failed"} : SoftKillEnds(s) \/ KillEnds(s)
KillGrace == SoftKillEnds("unconfirmed") \/ KillEnds("unconfirmed")

-----------------------------------------------------------------------------
(* Cleanup and the record *)

(* destroyLease returned; a stream that was handed out is waited for. *)
Cleaned(result, box) ==
    /\ pc = "destroy"
    /\ cleanup' = result /\ sandbox' = box
    /\ \/ handle /\ pc' = "closing" /\ UNCHANGED record
       \/ /\ ~handle
          /\ Records(decision.terminal_state, decision.kill_status, result = "safe", TRUE)
    /\ UNCHANGED <<control, creation, handle, execution, closed, meter, decision, destroys,
                   abandoned, cause>>

DestroyAnswered ==
    \/ Cleaned("safe", "gone")                                \* (already_)destroyed
    \/ \E box \in {sandbox, "gone"} : Cleaned("unsafe", box)  \* failed or rejected

(* Mutant of DestroyGrace: a destroy that was not answered counts as done. *)
DestroyGrace_Trusts == Cleaned("safe", sandbox)

DestroyGrace == Cleaned("unsafe", sandbox)

(* Mutant of StreamClosed: only the producer is waited for. *)
StreamClosed_ProducerOnly ==
    /\ pc = "closing" /\ closed
    /\ Records(decision.terminal_state, decision.kill_status, cleanup = "safe", TRUE)
    /\ UNCHANGED <<control, creation, sandbox, handle, execution, closed, meter, decision,
                   cleanup, destroys, abandoned, cause>>

(* Producer and consumer are both done: the usage is frozen. *)
StreamClosed ==
    /\ pc = "closing" /\ closed /\ Settled
    /\ Records(decision.terminal_state, decision.kill_status, cleanup = "safe", TRUE)
    /\ UNCHANGED <<control, creation, sandbox, handle, execution, closed, meter, decision,
                   cleanup, destroys, abandoned, cause>>

(* Mutant of CloseGrace: the wait for the consumer has no bound. *)
CloseGrace_Unbounded ==
    /\ pc = "closing" /\ ~closed /\ Settled
    /\ Records(decision.terminal_state, decision.kill_status, FALSE, FALSE)
    /\ UNCHANGED <<control, creation, sandbox, handle, execution, closed, meter, decision,
                   cleanup, destroys, abandoned, cause>>

CloseGrace ==
    /\ pc = "closing" /\ ~(closed /\ Settled)
    /\ Records(decision.terminal_state, decision.kill_status, FALSE, FALSE)
    /\ UNCHANGED <<control, creation, sandbox, handle, execution, closed, meter, decision,
                   cleanup, destroys, abandoned, cause>>

(* record_terminal resolves, or TERMINAL_RECORD_FAILED is thrown. *)
RecordSettles ==
    /\ pc = "recording"
    /\ pc' \in {"recorded", "record_failed"}
    /\ UNCHANGED <<control, creation, sandbox, handle, execution, closed, meter, decision,
                   cleanup, destroys, abandoned, record, cause>>

-----------------------------------------------------------------------------
(* The backend's side of the stream and of the compute *)

Output ==
    /\ execution = "running" /\ meter < MaxOutput
    /\ meter' = meter + 1
    /\ UNCHANGED <<pc, control, creation, sandbox, handle, execution, closed, decision,
                   cleanup, destroys, abandoned, record, cause>>

ProducerCloses ==
    /\ handle /\ ~closed
    /\ closed' = TRUE
    /\ UNCHANGED <<pc, control, creation, sandbox, handle, execution, meter, decision,
                   cleanup, destroys, abandoned, record, cause>>

(* A late or background destroy lands, or somebody else destroys. *)
SandboxGoes ==
    /\ sandbox = "alive"
    /\ sandbox' = "gone"
    /\ UNCHANGED <<pc, control, creation, handle, execution, closed, meter, decision,
                   cleanup, destroys, abandoned, record, cause>>

Timer ==
    \/ CreateDeadline \/ SoftDeadline \/ HardDeadline
    \/ KillGrace \/ DestroyGrace \/ CloseGrace

Environment ==
    \/ CreateSucceeds \/ CreateFails \/ ControlAborts
    \/ \E outcome \in Outcomes : ExecutionSettles(outcome)
    \/ KillAnswered \/ DestroyAnswered
    \/ Output \/ ProducerCloses \/ SandboxGoes \/ RecordSettles

Lifecycle == PreAborted \/ Create \/ StreamClosed

Next == Lifecycle \/ Timer \/ Environment

Spec == Init /\ [][Next]_vars

(* Timers fire and the lifecycle's own continuations run; neither the      *)
(* backend nor the stream nor the recorder owes an answer.                 *)
Fairness == WF_vars(Lifecycle) /\ WF_vars(Timer)
FairSpec == Spec /\ Fairness

-----------------------------------------------------------------------------
(* Properties *)

(* A record that releases the run is true from then on: its compute is     *)
(* gone, none is still being created, and neither the producer nor the     *)
(* consumer of its stream is active.                                       *)
ReleaseSafeMeansGone ==
    record # NoRecord /\ record.release_safe =>
        /\ sandbox # "alive" /\ creation # "inflight"
        /\ handle => closed /\ Settled

(* The usage of a record that reports the execution closed is final: no    *)
(* output is counted after it.                                             *)
UsageIsFinal ==
    record # NoRecord /\ record.execution_closed => record.output_event_count = meter

\* The terminal state that the first cause, or its escalation, leads to.
FollowsCause(terminal) ==
    \/ terminal = cause
    \/ cause = "soft_timeout" /\ terminal \in {"controlled", "hard_timeout"}

(* The first cause wins, but for the escalation of a soft kill the backend *)
(* did not confirm: only then may a control signal or the hard timeout     *)
(* replace the soft timeout.                                               *)
FirstCauseWins ==
    record # NoRecord /\ cause # "none" => FollowsCause(record.terminal_state)

(* Once the run is recorded, every lease it was ever given, the one that   *)
(* appears after the create deadline included, has been sent one destroy.  *)
EachLeaseDestroyedOnce ==
    Recorded => destroys = (IF creation = "created" THEN 1 ELSE 0)

(* Compute whose stream is still running is not destroyed before a kill    *)
(* was requested.                                                          *)
KillBeforeDestroy ==
    [][destroys' > destroys /\ handle /\ execution' = "running" =>
          decision'.kill_status # "not_requested"]_vars

(* The run comes to its record although the backend may never answer and   *)
(* the stream may never end.                                               *)
ComesToRecord == <>Recorded

-----------------------------------------------------------------------------
(* Refinement *)

Active == handle /\ ~(closed /\ Settled)

Verdict ==
    IF record = NoRecord THEN "none"
    ELSE IF record.release_safe THEN "released"
    ELSE IF record.execution_closed THEN "closed" ELSE "open"

Billed == IF record = NoRecord THEN 0 ELSE record.output_event_count

Promise == INSTANCE RunRecord
             WITH compute <- sandbox, coming <- creation = "inflight", active <- Active,
                  used <- meter, verdict <- Verdict, billed <- Billed

(* With late creates, unanswered destroys and streams that never end, each *)
(* branch of the lifecycle writes the record that RunRecord promises.      *)
ImplementsRunRecord == Promise!Spec

-----------------------------------------------------------------------------
(* The invariant behind the safety properties *)

Executing == pc \in {"race", "softKill", "afterSoft", "kill"}
Cleaning == pc \in {"destroy", "closing"}

CreateInv ==
    /\ pc = "start" => creation = "none"
    /\ WaitsForCreate => creation = "inflight"
    /\ Executing \/ Cleaning => creation = "created"
    /\ abandoned => Recorded
    /\ creation = "inflight" => WaitsForCreate \/ Recorded
    /\ creation # "created" => sandbox = "none" /\ ~handle /\ destroys = 0
    /\ creation # "created" => cleanup = "none"
    /\ creation = "created" => sandbox # "none"

DestroyInv ==
    /\ WaitsForCreate \/ Executing => destroys = 0
    /\ Cleaning => destroys = 1
    /\ cleanup = "safe" => sandbox = "gone"

StreamInv ==
    /\ ~handle => execution # "running" /\ meter = 0
    /\ pc = "closing" => handle
    /\ Executing => handle
    /\ pc = "afterSoft" => decision.kill_status \in {"failed", "unconfirmed"}
    /\ record # NoRecord /\ record.execution_closed => execution # "running"

(* Why FirstCauseWins holds: an execution that has left the race has a     *)
(* cause, and what is decided follows from it.                             *)
CauseInv ==
    /\ pc \in {"start", "create", "createControl", "race"} => cause = "none"
    /\ handle /\ pc # "race" => cause # "none"
    /\ pc \in {"softKill", "afterSoft"} =>
         decision.terminal_state = "soft_timeout" /\ cause = "soft_timeout"
    /\ (pc = "kill" \/ Cleaning) /\ cause # "none" => FollowsCause(decision.terminal_state)
    /\ FirstCauseWins

LifecycleInv ==
    /\ TypeOK /\ CreateInv /\ DestroyInv /\ StreamInv
    /\ ReleaseSafeMeansGone /\ UsageIsFinal /\ EachLeaseDestroyedOnce
=============================================================================
