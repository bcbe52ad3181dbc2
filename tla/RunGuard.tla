------------------------------ MODULE RunGuard ------------------------------
(***************************************************************************)
(* The run-token bridge of apps/sandbox-bridge for one run identity: the   *)
(* RunGuard Durable Object (run-guard.ts) and the bridge requests that     *)
(* call it and the sandbox (createSandboxBridgeHandler in bridge.ts).      *)
(*                                                                         *)
(* Every request presents one signed token and asks for one operation, is  *)
(* admitted or refused by the guard's claim, and then works on the         *)
(* sandbox; exec reports a receipt to the guard, destroy and kill (one     *)
(* operation here: they differ in the wording of the answer) finish or     *)
(* abort the latch their claim has set.  A guard call may be lost, its     *)
(* answer may be lost, and a request may be cut off at any await.          *)
(*                                                                         *)
(* The Durable Object runs claim, finish-destroy and abort-destroy as one  *)
(* step: nothing but storage is awaited between their get and their put.   *)
(* /record-exec awaits the request's body in between, so other requests    *)
(* are served there; BodyMayArriveLate says if they may change the state   *)
(* it is about to write back.                                              *)
(***************************************************************************)
EXTENDS Naturals, FiniteSets

CONSTANTS Requests,            \* the HTTP requests
          Tokens,              \* signed tokens of this run identity, distinct claims
          Budget,              \* max_calls of a token
          Scopes,              \* the operations a token's scopes cover
          BodyMayArriveLate,   \* a receipt may be written although a claim, finish or
                               \* abort came between its request's headers and body
          Absent, NoReceipt

Operations == {"create", "destroy", "exec", "file", "status"}

ASSUME TokenAssumption ==
    /\ Budget \in [Tokens -> Nat \ {0}]
    /\ Scopes \in [Tokens -> SUBSET Operations]
ASSUME RequestAssumption == IsFiniteSet(Requests)
ASSUME BodyAssumption == BodyMayArriveLate \in BOOLEAN

VARIABLES
    state,      \* the guard's stored state
    op, token,  \* what each request asks for and presents
    at,         \* where each request is: a point of the handler, or its answer
    seen,       \* the state a /record-exec handler has read and not yet written back
    spent,      \* history: the requests admitted against the call budget
    running,    \* the sandbox's container is up
    late        \* destroys that outlived withTimeout and may still land

vars == <<state, op, token, at, seen, spent, running, late>>

GuardState ==
    [token : Tokens,                        \* exp, max_calls and scopes it was set up with
     call_count : Nat,
     destroying : BOOLEAN,
     terminal : BOOLEAN,
     exec_receipt : Requests \cup {NoReceipt}]

ASSUME AbsentAssumption == Absent \notin GuardState

DestroyPoints == {"destroy", "finish", "abort"}
Points == DestroyPoints \cup {"probe", "file", "exec", "record", "recording"}
Answers == {"ok", "terminal", "destroyed", "destroy_failed",
            "refused", "operation_failed", "cut_off"}

(* Types, and the guard has a state as soon as a claim was answered, so    *)
(* that finish-destroy, abort-destroy and record-exec never meet           *)
(* RUN_NOT_INITIALIZED.                                                    *)
TypeOK ==
    /\ state \in GuardState \cup {Absent}
    /\ op \in [Requests -> Operations]
    /\ token \in [Requests -> Tokens]
    /\ at \in [Requests -> {"idle"} \cup Points \cup Answers]
    /\ seen \in [Requests -> GuardState \cup {Absent}]
    /\ spent \subseteq Requests
    /\ running \in BOOLEAN
    /\ late \subseteq Requests
    /\ \A r \in Requests : at[r] \in Points => state # Absent
    /\ \A r \in Requests : at[r] = "recording" => seen[r] # Absent

Init ==
    /\ state = Absent
    /\ op \in [Requests -> Operations]
    /\ token \in [Requests -> Tokens]
    /\ \A r \in Requests : op[r] \in Scopes[token[r]]  \* authorize: INVALID_SCOPE otherwise
    /\ at = [r \in Requests |-> "idle"]
    /\ seen = [r \in Requests |-> Absent]
    /\ spent = {}
    /\ running = FALSE
    /\ late = {}

-----------------------------------------------------------------------------
(* applyRunGuardClaim *)

InitialState(t) ==
    [token |-> t, call_count |-> 0, destroying |-> FALSE, terminal |-> FALSE,
     exec_receipt |-> NoReceipt]

Current(r) == IF state = Absent THEN InitialState(token[r]) ELSE state

Exact(s, r) == s.token = token[r]
Control(r) == op[r] \in {"destroy", "status"}

(* Control operations are answered from the state without spending a call. *)
ReadsBack(s, r) ==
    /\ Control(r)
    /\ s.terminal \/ (~Exact(s, r) /\ op[r] = "status")

Latches(s, r) == op[r] = "destroy" /\ ~s.destroying /\ ~s.terminal

(* Mutant of Counts: the budget check is off by one. *)
Counts_OffByOne(s, r) ==
    /\ Exact(s, r) /\ op[r] # "destroy"
    /\ ~s.destroying /\ ~s.terminal
    /\ s.call_count <= Budget[s.token]

(* Mutant of Counts: only a terminal run refuses calls, not a closing one. *)
Counts_WhileDestroying(s, r) ==
    /\ Exact(s, r) /\ op[r] # "destroy"
    /\ ~s.terminal
    /\ s.call_count < Budget[s.token]

Counts(s, r) ==
    /\ Exact(s, r) /\ op[r] # "destroy"
    /\ ~s.destroying /\ ~s.terminal
    /\ s.call_count < Budget[s.token]

Become(r, point) == at' = [at EXCEPT ![r] = point]

(* The claim committed; its answer leads the request on, or is lost.  (One *)
(* lost before it committed changes nothing and is left out.)              *)
Answered(r, point) == \E p \in {point, "operation_failed"} : Become(r, p)

Claim(r) ==
    LET s == Current(r) IN
    /\ at[r] = "idle"
    /\ \/ /\ ReadsBack(s, r)
          /\ Answered(r, IF s.terminal THEN "terminal" ELSE "probe")
          /\ state' = s
          /\ spent' = spent
       \/ /\ Latches(s, r)
          /\ Answered(r, "destroy")
          /\ state' = [s EXCEPT !.destroying = TRUE]
          /\ spent' = spent
       \/ /\ Counts(s, r)
          /\ Answered(r, IF op[r] \in {"create", "status"} THEN "probe" ELSE op[r])
          /\ state' = [s EXCEPT !.call_count = @ + 1]
          /\ spent' = spent \cup {r}
       \/ /\ ~ReadsBack(s, r) /\ ~Latches(s, r) /\ ~Counts(s, r)
          /\ Answered(r, "refused")
          /\ state' = s
          /\ spent' = spent
    /\ UNCHANGED <<op, token, seen, running, late>>

-----------------------------------------------------------------------------
(* The bridge's work on the sandbox after an admitted claim *)

(* The claim is spent although argv, timeout, cwd or path is then refused. *)
RejectInput(r) ==
    /\ at[r] \in {"exec", "file"}
    /\ Become(r, "refused")
    /\ UNCHANGED <<state, op, token, seen, spent, running, late>>

(* A readiness probe, a command or a file operation starts the container   *)
(* if it is down (create is nothing but the probe), and may fail either    *)
(* before or after it did.                                                 *)
CallSandbox(r) ==
    /\ at[r] \in {"probe", "exec", "file"}
    /\ \/ /\ running' = TRUE
          /\ Become(r, IF at[r] = "exec" THEN "record" ELSE "ok")
       \/ /\ running' \in {running, TRUE}
          /\ Become(r, "operation_failed")
    /\ UNCHANGED <<state, op, token, seen, spent, late>>

DestroyResolves(r) ==
    /\ at[r] = "destroy"
    /\ running' = FALSE
    /\ Become(r, "finish")
    /\ UNCHANGED <<state, op, token, seen, spent, late>>

DestroyRejects(r) ==
    /\ at[r] = "destroy"
    /\ running' \in {running, FALSE}
    /\ Become(r, "abort")
    /\ UNCHANGED <<state, op, token, seen, spent, late>>

(* Mutant of DestroyTimesOut: sandbox.destroy() is awaited without a timer. *)
DestroyTimesOut_NoTimer(r) ==
    /\ at[r] = "destroy" /\ r \in late
    /\ Become(r, "abort")
    /\ UNCHANGED <<state, op, token, seen, spent, running, late>>

DestroyTimesOut(r) ==
    /\ at[r] = "destroy"
    /\ late' = late \cup {r}
    /\ Become(r, "abort")
    /\ UNCHANGED <<state, op, token, seen, spent, running>>

LateDestroy(r) ==
    /\ r \in late
    /\ late' = late \ {r}
    /\ running' \in {running, FALSE}
    /\ UNCHANGED <<state, op, token, at, seen, spent>>

(* Mutant of FinishDestroy: the guard drops its state with the run. *)
FinishDestroy_Forgets(r) ==
    /\ at[r] = "finish"
    /\ state' = Absent
    /\ \E p \in {"destroyed", "abort"} : Become(r, p)
    /\ UNCHANGED <<op, token, seen, spent, running, late>>

(* Mutant of FinishDestroy: the answer is sent without finish-destroy. *)
FinishDestroy_AnswersFirst(r) ==
    /\ at[r] = "finish"
    /\ state' = state
    /\ Become(r, "destroyed")
    /\ UNCHANGED <<op, token, seen, spent, running, late>>

(* finish-destroy: committed and answered, committed with the answer lost, *)
(* or never delivered; the catch branch takes the last two to the abort.   *)
FinishDestroy(r) ==
    /\ at[r] = "finish"
    /\ \/ /\ state' = [state EXCEPT !.destroying = FALSE, !.terminal = TRUE]
          /\ \E p \in {"destroyed", "abort"} : Become(r, p)
       \/ state' = state /\ Become(r, "abort")
    /\ UNCHANGED <<op, token, seen, spent, running, late>>

(* Mutant of AbortDestroy: the abort reopens a finished run. *)
AbortDestroy_Reopens(r) ==
    /\ at[r] = "abort"
    /\ \/ /\ state' = [state EXCEPT !.destroying = FALSE, !.terminal = FALSE]
          /\ Answered(r, "destroy_failed")
       \/ state' = state /\ Become(r, "operation_failed")
    /\ UNCHANGED <<op, token, seen, spent, running, late>>

(* Mutant of AbortDestroy: the failure is answered without abort-destroy. *)
AbortDestroy_Skipped(r) ==
    /\ at[r] = "abort"
    /\ state' = state
    /\ Become(r, "destroy_failed")
    /\ UNCHANGED <<op, token, seen, spent, running, late>>

AbortDestroy(r) ==
    /\ at[r] = "abort"
    /\ \/ state' = [state EXCEPT !.destroying = FALSE] /\ Answered(r, "destroy_failed")
       \/ state' = state /\ Become(r, "operation_failed")
    /\ UNCHANGED <<op, token, seen, spent, running, late>>

-----------------------------------------------------------------------------
(* /record-exec: read the state, await the body, check the read state and  *)
(* write it back with the receipt.                                         *)

Accepts(s, r) == Exact(s, r) /\ ~s.destroying /\ ~s.terminal

WriteReceipt(r, s) ==
    \/ /\ Accepts(s, r)
       /\ state' = [s EXCEPT !.exec_receipt = r]
       /\ Answered(r, "ok")
    \/ /\ ~Accepts(s, r)
       /\ state' = state
       /\ Become(r, "operation_failed")

(* The call does not reach the guard. *)
RecordLost(r) ==
    /\ at[r] = "record"
    /\ Become(r, "operation_failed")
    /\ UNCHANGED <<state, op, token, seen, spent, running, late>>

RecordReads(r) ==
    /\ at[r] = "record"
    /\ seen' = [seen EXCEPT ![r] = state]
    /\ Become(r, "recording")
    /\ UNCHANGED <<state, op, token, spent, running, late>>

(* While r awaited its body, nothing but other receipts was written. *)
Fresh(r) == seen[r] = [state EXCEPT !.exec_receipt = seen[r].exec_receipt]

RecordWrites(r) ==
    /\ at[r] = "recording"
    /\ BodyMayArriveLate \/ Fresh(r)
    /\ WriteReceipt(r, seen[r])
    /\ seen' = [seen EXCEPT ![r] = Absent]
    /\ UNCHANGED <<op, token, spent, running, late>>

(* The client goes away, or the bridge's isolate does: the request stops   *)
(* at its current await, and a destroy already sent may still land.        *)
CutOff(r) ==
    /\ at[r] \in Points
    /\ Become(r, "cut_off")
    /\ late' = IF at[r] = "destroy" THEN late \cup {r} ELSE late
    /\ seen' = [seen EXCEPT ![r] = Absent]
    /\ UNCHANGED <<state, op, token, spent, running>>

-----------------------------------------------------------------------------
BridgeDestroyStep(r) == DestroyTimesOut(r) \/ FinishDestroy(r) \/ AbortDestroy(r)

RequestStep(r) ==
    \/ Claim(r) \/ RejectInput(r) \/ CallSandbox(r)
    \/ DestroyResolves(r) \/ DestroyRejects(r) \/ LateDestroy(r)
    \/ BridgeDestroyStep(r)
    \/ RecordLost(r) \/ RecordReads(r) \/ RecordWrites(r)
    \/ CutOff(r)

Next == \E r \in Requests : RequestStep(r)

Spec == Init /\ [][Next]_vars

(* The bridge's timer and its calls to the guard end; the sandbox itself   *)
(* owes nobody an answer.                                                  *)
Fairness == \A r \in Requests : WF_vars(BridgeDestroyStep(r))
FairSpec == Spec /\ Fairness

-----------------------------------------------------------------------------
(* Properties *)

Destroying(r) == at[r] \in DestroyPoints

(* The calls ever admitted for a run, over all its tokens and retries,     *)
(* never exceed the max_calls of the token that set the guard up           *)
(* (applyRunGuardClaim's CALL_BUDGET_EXHAUSTED).                           *)
BudgetHolds == state # Absent => Cardinality(spent) <= Budget[state.token]

(* A run that was finished stays finished, whatever aborts, receipts or    *)
(* answers of earlier requests are still on their way.                     *)
TerminalIsFinal ==
    [][state # Absent /\ state.terminal => state' # Absent /\ state'.terminal]_vars

(* From a destroy's admission until its finish or abort was called, no     *)
(* other request is admitted: neither a counted call nor a second destroy. *)
DestroyShutsTheRun ==
    [][(\E r \in Requests : Destroying(r)) =>
          /\ spent' = spent
          /\ \A r \in Requests : Destroying(r)' => Destroying(r)]_vars

(* 204, or "killed", is answered only when the provider's destroy resolved *)
(* and the run is terminal, and it is still so whenever the client looks.  *)
DestroyedMeansTerminal ==
    \A r \in Requests : at[r] = "destroyed" => state # Absent /\ state.terminal

(* The destroying latch is never orphaned by a request that ran to its own *)
(* answer: somebody is still working on the destroy, or a destroy lost its *)
(* contact to the guard, or was cut off, before it could abort.            *)
LatchHasOwner ==
    state # Absent /\ state.destroying =>
        \E r \in Requests : \/ Destroying(r)
                            \/ op[r] = "destroy" /\ at[r] \in {"operation_failed", "cut_off"}

(* An admitted destroy or kill is answered although the provider's destroy *)
(* may never settle (withTimeout, then finishDestroy or abortDestroy).     *)
DestroyIsAnswered ==
    \A r \in Requests : Destroying(r) ~> at[r] \in Answers

(* What the test of the kill route says of the program: once a kill or a   *)
(* destroy was answered as done, the run's container is destroyed.         *)
KilledRunHasNoSandbox ==
    (\E r \in Requests : at[r] = "destroyed") => ~running

-----------------------------------------------------------------------------
(* Refinement *)

Phase ==
    IF state = Absent THEN "open"
    ELSE IF state.terminal THEN "closed"
    ELSE IF state.destroying THEN "closing" ELSE "open"

Limit == IF state = Absent THEN 0 ELSE Budget[state.token]

Gate == INSTANCE RunGate
          WITH phase <- Phase, limit <- Limit, calls <- spent,
               closers <- {r \in Requests : Destroying(r)},
               told <- {r \in Requests : at[r] = "destroyed"}

(* Claims, receipts, finishes and aborts, answered or lost, timed out or   *)
(* cut off, keep the promises of RunGate when bodies arrive in time.       *)
ImplementsGate == Gate!Spec

-----------------------------------------------------------------------------
(* The invariant behind the safety properties, as long as no receipt is    *)
(* written over a state that has changed since it was read.                *)

DestroyerInv ==
    \A r \in Requests : Destroying(r) =>
        /\ state.destroying \/ state.terminal
        /\ \A q \in Requests : Destroying(q) => q = r

SpentInv == \A r \in spent : at[r] # "idle"

CountInv ==
    IF state = Absent
    THEN spent = {}
    ELSE /\ state.call_count = Cardinality(spent)
         /\ state.call_count <= Budget[state.token]

DestroyRequests == \A r \in Requests : Destroying(r) => op[r] = "destroy"

GuardInv ==
    /\ TypeOK /\ DestroyerInv /\ SpentInv /\ CountInv
    /\ DestroyedMeansTerminal
=============================================================================
