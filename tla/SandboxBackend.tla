--------------------------- MODULE SandboxBackend ---------------------------
(***************************************************************************)
(* CloudflareSandboxBackend (apps/sandbox-bridge) for one lease: create,   *)
(* runProcess (behind execute), writeFile/readFile, kill and destroy, as   *)
(* concurrent callers of the lease registry and of the sandbox provider.   *)
(*                                                                         *)
(* Each await of the code is a step.  A registry call is answered, or      *)
(* refused, or its answer is lost although the transaction committed: the  *)
(* client throws on the last two alike.  A provider call resolves, rejects *)
(* (having taken effect or not), or is abandoned by withTimeout, and then  *)
(* stays in `late` and may still take effect at any later time.            *)
(*                                                                         *)
(* The provider is reached by name, so a destroyed sandbox is not gone for *)
(* good: a call made to it afterwards may bring its container up again.    *)
(* External assumptions about it: a destroy takes the processes and the    *)
(* outbound handlers along, a killProcess that resolves has stopped the    *)
(* process if there was one, and a call that rejects has had its whole     *)
(* effect or never will, but for a start when RejectedStartMayLand.        *)
(***************************************************************************)
EXTENDS LeaseRegistry

CONSTANTS Killers,     \* concurrent kill callers
          Destroyers,  \* concurrent destroy callers
          Files,       \* concurrent writeFile / readFile callers
          RejectedStartMayLand  \* may a start whose connection broke land later?

ASSUME RejectedStartAssumption == RejectedStartMayLand \in BOOLEAN

VARIABLES
    sandbox,    \* the provider's container: "absent"; "alive" since create;
                \* "gone", destroyed; "woken", up again after a destroy
    process,    \* the provider's processes
    outbound,   \* the run whose Tool Gateway token the egress handler holds
    late,       \* provider calls that outlived the caller's timeout
    creation,   \* the createSession promise
    creator,    \* the create call
    run,        \* the runProcess calls, one per process id
    killer,     \* the kill calls
    destroyer,  \* the destroy calls
    file        \* the writeFile / readFile calls

provider == <<sandbox, process, outbound>>
callers  == <<creator, run, killer, destroyer, file>>
vars     == <<lease, provider, late, creation, callers>>

LateOps ==
    [op : {"start", "configure"}, process : Processes]
      \cup [op : {"clean", "stop", "destroy", "cleanup"}, process : {NoProcess}]

LateOp(op, p) == [op |-> op, process |-> p]

RunPoints ==
    {"idle", "begin", "clean", "configure", "session", "start", "bind", "sigterm",
     "finishkill", "wait", "terminate", "killstart", "finally", "clear", "done"}

RunState ==
    [pc : RunPoints,
     config : {"none", "attempted", "confirmed"},    \* toolGatewayConfiguration*
     clean : BOOLEAN,                                \* outboundStateConfirmedClean
     terminal : BOOLEAN,                             \* processTerminalConfirmed
     uncertain : BOOLEAN]                            \* processStartStateUncertain

ProviderTypeOK ==
    /\ sandbox \in {"absent", "alive", "gone", "woken"}
    /\ process \in [Processes -> {"none", "alive", "exited"}]
    /\ outbound \in Processes \cup {NoProcess}

TypeOK ==
    /\ LeaseTypeOK
    /\ ProviderTypeOK
    /\ late \subseteq LateOps
    /\ creation \in {"none", "inflight", "fulfilled", "rejected"}
    /\ creator \in [pc : {"reserve", "create", "ready", "cleanup", "reconcile",
                          "redestroy", "remove", "created", "failed"},
                    timedOut : BOOLEAN, cleaned : BOOLEAN]
    /\ run \in [Processes -> RunState]
    /\ killer \in [Killers -> [pc : {"idle", "signal", "finish"},
                               target : Processes \cup {NoProcess}]]
    /\ destroyer \in [Destroyers -> [pc : {"idle", "provider", "finish", "abort"},
                                     fresh : BOOLEAN]]
    /\ file \in [Files -> {"idle", "authorized", "called"}]

Init ==
    /\ RegistryInit
    /\ sandbox = "absent"
    /\ process = [p \in Processes |-> "none"]
    /\ outbound = NoProcess
    /\ late = {}
    /\ creation = "none"
    /\ creator = [pc |-> "reserve", timedOut |-> FALSE, cleaned |-> FALSE]
    /\ run = [p \in Processes |->
                [pc |-> "idle", config |-> "none", clean |-> FALSE,
                 terminal |-> FALSE, uncertain |-> FALSE]]
    /\ killer = [k \in Killers |-> [pc |-> "idle", target |-> NoProcess]]
    /\ destroyer = [d \in Destroyers |-> [pc |-> "idle", fresh |-> FALSE]]
    /\ file = [f \in Files |-> "idle"]

\* The lease is only handed to callers by a create that succeeded.
LeaseIssued == creator.pc = "created"

-----------------------------------------------------------------------------
(* Effects at the provider.                                                *)

\* The container, brought up again by name if it was destroyed.
Up == IF sandbox = "gone" THEN "woken" ELSE sandbox

ProviderDestroys ==
    /\ sandbox' = "gone"
    /\ process' = [p \in Processes |->
                     IF process[p] = "alive" THEN "exited" ELSE process[p]]
    /\ outbound' = NoProcess

ProviderCleans ==
    outbound' = NoProcess /\ UNCHANGED <<sandbox, process>>

ProviderConfigures(p) ==
    outbound' = p /\ UNCHANGED <<sandbox, process>>

ProviderStarts(p) ==
    /\ sandbox' = Up
    /\ process' = IF process[p] = "none"
                    THEN [process EXCEPT ![p] = "alive"] ELSE process
    /\ UNCHANGED outbound

ProviderStops(p) ==
    /\ process' = IF process[p] = "alive"
                    THEN [process EXCEPT ![p] = "exited"] ELSE process
    /\ UNCHANGED <<sandbox, outbound>>

\* A process that runs to its end, or dies, on its own.
ProcessExits(p) ==
    /\ process[p] = "alive"
    /\ ProviderStops(p)
    /\ UNCHANGED <<lease, late, creation, callers>>

\* An abandoned call takes effect after all.
LateLands(o) ==
    /\ o \in late
    /\ late' = late \ {o}
    /\ CASE o.op = "start"                   -> ProviderStarts(o.process)
         [] o.op = "configure"               -> ProviderConfigures(o.process)
         [] o.op = "clean"                   -> ProviderCleans
         [] o.op = "stop"                    -> UNCHANGED provider
         [] o.op \in {"destroy", "cleanup"}  -> ProviderDestroys
    /\ UNCHANGED <<lease, creation, callers>>

\* The start under way takes effect before its caller hears of it, so that
\* a kill can meet the process in between.
StartLands(p) ==
    /\ run[p].pc = "start"
    /\ process[p] = "none"
    /\ ProviderStarts(p)
    /\ UNCHANGED <<lease, late, creation, callers>>

\* A call of the lease's holder, but destroy, is on its way to the container.
CallUnderWay ==
    \/ \E p \in Processes :
         run[p].pc \in {"clean", "configure", "session", "start", "sigterm", "terminate",
                       "killstart", "finally"}
    \/ \E k \in Killers : killer[k].pc = "signal"
    \/ \E f \in Files : file[f] = "called"
    \/ \E o \in late : o.op \notin {"destroy", "cleanup"}

\* Such a call, or createSession, brings the container up whether or not it
\* then succeeds.
ContainerWakes ==
    /\ \/ CallUnderWay /\ sandbox = "gone" /\ sandbox' = "woken"
       \/ creation = "inflight" /\ sandbox = "gone" /\ sandbox' = "woken"
       \/ creation = "inflight" /\ sandbox = "absent" /\ sandbox' = "alive"
    /\ UNCHANGED <<lease, process, outbound, late, creation, callers>>

-----------------------------------------------------------------------------
(* One registry request: the transaction A commits and is answered, or     *)
(* commits and the answer is lost, or is refused or never arrives.         *)
RegistryCall(A, answered, threw) ==
    \/ A /\ (answered \/ threw)
    \/ UNCHANGED lease /\ threw

-----------------------------------------------------------------------------
(* create                                                                  *)

CreatorAt(pc) == creator' = [creator EXCEPT !.pc = pc]

CreateReserve ==
    /\ creator.pc = "reserve"
    /\ \/ /\ Reserve
          /\ CreatorAt("create")
          /\ creation' = "inflight"
       \/ /\ Reserve \/ UNCHANGED lease
          /\ CreatorAt("failed")
          /\ UNCHANGED creation
    /\ UNCHANGED <<provider, late, run, killer, destroyer, file>>

\* createSession settles, in time or late.  A rejected one may have brought
\* the container up too (ContainerWakes).
CreationSettles ==
    /\ creation = "inflight"
    /\ \/ creation' = "fulfilled" /\ sandbox' = "alive"
       \/ creation' = "rejected" /\ UNCHANGED sandbox
    /\ UNCHANGED <<lease, process, outbound, late, callers>>

CreateAnswered ==
    /\ creator.pc = "create"
    /\ \/ creation = "fulfilled" /\ CreatorAt("ready")
       \/ creation = "rejected" /\ CreatorAt("cleanup")
       \/ /\ creation = "inflight"
          /\ creator' = [creator EXCEPT !.pc = "cleanup", !.timedOut = TRUE]
    /\ UNCHANGED <<lease, provider, late, creation, run, killer, destroyer, file>>

CreateMarkReady ==
    /\ creator.pc = "ready"
    /\ RegistryCall(Ready, CreatorAt("created"), CreatorAt("cleanup"))
    /\ UNCHANGED <<provider, late, creation, run, killer, destroyer, file>>

\* destroy() behind withTimeout, for the creator: confirmed, or rejected with
\* or without effect, or abandoned in flight.
CreatorDestroys(confirmed, unconfirmed) ==
    \/ ProviderDestroys /\ (confirmed \/ unconfirmed) /\ UNCHANGED late
    \/ UNCHANGED provider /\ unconfirmed /\ UNCHANGED late
    \/ UNCHANGED provider /\ unconfirmed /\ late' = late \cup {LateOp("cleanup", NoProcess)}

CreateCleanup ==
    /\ creator.pc = "cleanup"
    /\ LET after(ok) == IF creator.timedOut THEN "reconcile"
                        ELSE IF ok THEN "remove" ELSE "failed"
       IN CreatorDestroys(creator' = [creator EXCEPT !.pc = after(TRUE), !.cleaned = TRUE],
                          CreatorAt(after(FALSE)))
    /\ UNCHANGED <<lease, creation, run, killer, destroyer, file>>

\* Mutant: a late creation is not destroyed again after a confirmed cleanup.
CreateReconcile_TrustsCleanup ==
    /\ creator.pc = "reconcile"
    /\ creation # "inflight"
    /\ CreatorAt(IF creator.cleaned THEN "remove" ELSE "failed")
    /\ UNCHANGED <<lease, provider, late, creation, run, killer, destroyer, file>>

\* providerCreation.then(...): create itself has returned "failed" by now.
CreateReconcile ==
    /\ creator.pc = "reconcile"
    /\ \/ creation = "fulfilled" /\ CreatorAt("redestroy")
       \/ creation = "rejected" /\ CreatorAt(IF creator.cleaned THEN "remove" ELSE "failed")
    /\ UNCHANGED <<lease, provider, late, creation, run, killer, destroyer, file>>

CreateRedestroy ==
    /\ creator.pc = "redestroy"
    /\ CreatorDestroys(CreatorAt("remove"), CreatorAt("failed"))
    /\ UNCHANGED <<lease, creation, run, killer, destroyer, file>>

CreateRemove ==
    /\ creator.pc = "remove"
    /\ RegistryCall(Remove, CreatorAt("failed"), CreatorAt("failed"))
    /\ UNCHANGED <<provider, late, creation, run, killer, destroyer, file>>

CreateStep ==
    \/ CreateReserve \/ CreateAnswered \/ CreateMarkReady \/ CreateCleanup
    \/ CreateReconcile \/ CreateRedestroy \/ CreateRemove

-----------------------------------------------------------------------------
(* runProcess                                                              *)

\* A kill of process p behind withTimeout that does not resolve: rejected with
\* or without its effect, or abandoned.  A process exits when it will, so of
\* an abandoned kill only its call stays in flight.
StopUnconfirmed(p) ==
    \/ (ProviderStops(p) \/ UNCHANGED provider) /\ UNCHANGED late
    \/ UNCHANGED provider /\ late' = late \cup {LateOp("stop", NoProcess)}

RunBecomes(p, r) == run' = [run EXCEPT ![p] = r]

RunAt(p, pc) == RunBecomes(p, [run[p] EXCEPT !.pc = pc])

\* A provider call of run p behind withTimeout: resolves with its effect,
\* rejects with or without it, or is abandoned and stays in flight as op.
RunProviderCall(p, op, effect, resolved, rejected, timedOut) ==
    \/ effect /\ (resolved \/ rejected) /\ UNCHANGED late
    \/ UNCHANGED provider /\ rejected /\ UNCHANGED late
    \/ UNCHANGED provider /\ timedOut /\ late' = late \cup {op}

RunFrame == UNCHANGED <<creation, creator, killer, destroyer, file>>

Execute(p) ==
    /\ LeaseIssued
    /\ run[p].pc = "idle"
    /\ RunAt(p, "begin")
    /\ RunFrame /\ UNCHANGED <<lease, provider, late>>

\* A refused or lost reservation leaves processBound false: nothing is undone.
RunBegin(p) ==
    /\ run[p].pc = "begin"
    /\ RegistryCall(BeginProcess(p), RunAt(p, "clean"), RunAt(p, "done"))
    /\ RunFrame /\ UNCHANGED <<provider, late>>

\* Falling out of the try block before startProcess was attempted.
RunFailsBeforeStart(p, isClean) ==
    RunBecomes(p, [run[p] EXCEPT !.pc = "finally", !.terminal = TRUE, !.clean = isClean])

\* removeOutboundByHost, then the branch on the egress kind of the request,
\* deny-all or Tool Gateway: one whose run id is not the lease owner's is
\* rejected here.
RunClean(p) ==
    /\ run[p].pc = "clean"
    /\ RunProviderCall(p, LateOp("clean", NoProcess), ProviderCleans,
         \/ RunBecomes(p, [run[p] EXCEPT !.pc = "session", !.clean = TRUE])
         \/ RunBecomes(p, [run[p] EXCEPT !.pc = "configure", !.config = "attempted"])
         \/ RunFailsBeforeStart(p, TRUE),
         RunFailsBeforeStart(p, FALSE),
         RunFailsBeforeStart(p, FALSE))
    /\ RunFrame /\ UNCHANGED lease

RunConfigure(p) ==
    /\ run[p].pc = "configure"
    /\ RunProviderCall(p, LateOp("configure", p), ProviderConfigures(p),
         RunBecomes(p, [run[p] EXCEPT !.pc = "session", !.config = "confirmed"]),
         RunFailsBeforeStart(p, FALSE),
         RunFailsBeforeStart(p, FALSE))
    /\ RunFrame /\ UNCHANGED lease

\* getSession has no withTimeout around it, and the lease is not read again
\* here: a sandbox destroyed since beginProcess answers by its name.
RunGetSession(p) ==
    /\ run[p].pc = "session"
    /\ RunAt(p, "start") \/ RunFailsBeforeStart(p, run[p].clean)
    /\ RunFrame /\ UNCHANGED <<lease, provider, late>>

\* startProcess: resolved with the expected process id, resolved with another
\* id (the handle is at hand, "terminate"), rejected, or abandoned, which is
\* all that the code takes for uncertain.
RunStart(p) ==
    /\ run[p].pc = "start"
    /\ UNCHANGED provider
    /\ \/ /\ process[p] # "none"
          /\ RunAt(p, "bind") \/ RunAt(p, "terminate")
          /\ UNCHANGED late
       \/ RunAt(p, "killstart") /\ UNCHANGED late
       \/ /\ RejectedStartMayLand /\ process[p] = "none"
          /\ RunAt(p, "killstart")
          /\ late' = late \cup {LateOp("start", p)}
       \/ /\ RunBecomes(p, [run[p] EXCEPT !.pc = "killstart", !.uncertain = TRUE])
          /\ late' = IF process[p] = "none" THEN late \cup {LateOp("start", p)} ELSE late
    /\ RunFrame /\ UNCHANGED lease

\* markProcessRunning, which answers with the kill latch.
RunBind(p) ==
    /\ run[p].pc = "bind"
    /\ RegistryCall(MarkRunning(p),
         RunAt(p, IF lease.kill_requested THEN "sigterm" ELSE "wait"),
         RunAt(p, "terminate"))
    /\ RunFrame /\ UNCHANGED <<provider, late>>

\* The latched kill: a SIGTERM, not a confirmed exit, and then finishKill.
RunSigterm(p) ==
    /\ run[p].pc = "sigterm"
    /\ \/ (ProviderStops(p) \/ UNCHANGED provider) /\ UNCHANGED late
          /\ RunAt(p, "finishkill")
       \/ StopUnconfirmed(p) /\ RunAt(p, "terminate")
    /\ RunFrame /\ UNCHANGED lease

RunFinishKill(p) ==
    /\ run[p].pc = "finishkill"
    /\ RegistryCall(FinishKill, RunAt(p, "wait"), RunAt(p, "terminate"))
    /\ RunFrame /\ UNCHANGED <<provider, late>>

\* Mutant: no hard timeout around the exit.
RunWait_NoTimeout(p) ==
    /\ run[p].pc = "wait"
    /\ process[p] = "exited"
    /\ RunBecomes(p, [run[p] EXCEPT !.pc = "finally", !.terminal = TRUE])
    /\ RunFrame /\ UNCHANGED <<lease, provider, late>>

\* The exit callback, or a stream error, the output limit or the hard timeout.
RunWait(p) ==
    /\ run[p].pc = "wait"
    /\ \/ /\ process[p] = "exited"
          /\ RunBecomes(p, [run[p] EXCEPT !.pc = "finally", !.terminal = TRUE])
       \/ RunAt(p, "terminate")
    /\ RunFrame /\ UNCHANGED <<lease, provider, late>>

\* process.kill and waitForExit.
RunTerminate(p) ==
    /\ run[p].pc = "terminate"
    /\ \/ /\ ProviderStops(p) /\ UNCHANGED late
          /\ RunBecomes(p, [run[p] EXCEPT !.pc = "finally", !.terminal = TRUE])
       \/ StopUnconfirmed(p) /\ RunAt(p, "finally")
    /\ RunFrame /\ UNCHANGED lease

\* killProcess by id when startProcess gave no handle.
RunKillStart(p) ==
    /\ run[p].pc = "killstart"
    /\ \/ /\ ProviderStops(p) /\ UNCHANGED late
          /\ RunBecomes(p, [run[p] EXCEPT !.pc = "finally", !.terminal = TRUE])
       \/ StopUnconfirmed(p) /\ RunAt(p, "finally")
    /\ RunFrame /\ UNCHANGED lease

\* The finally block's second removeOutboundByHost.
RunFinally(p) ==
    /\ run[p].pc = "finally"
    /\ IF run[p].config # "none" \/ ~run[p].clean
         THEN RunProviderCall(p, LateOp("clean", NoProcess), ProviderCleans,
                RunBecomes(p, [run[p] EXCEPT !.pc = "clear",
                                             !.clean = @ \/ run[p].config # "attempted"]),
                RunBecomes(p, [run[p] EXCEPT !.pc = "clear", !.clean = FALSE]),
                RunBecomes(p, [run[p] EXCEPT !.pc = "clear", !.clean = FALSE]))
         ELSE RunAt(p, "clear") /\ UNCHANGED <<provider, late>>
    /\ RunFrame /\ UNCHANGED lease

\* Mutant: a start that timed out no longer keeps the process bound.
RunClear_ForgetsUncertain(p) ==
    /\ run[p].pc = "clear"
    /\ IF run[p].terminal /\ run[p].clean
         THEN ClearProcess(p) \/ UNCHANGED lease
         ELSE UNCHANGED lease
    /\ RunAt(p, "done")
    /\ RunFrame /\ UNCHANGED <<provider, late>>

\* The guarded clearProcess, then queue.close().
RunClear(p) ==
    /\ run[p].pc = "clear"
    /\ IF run[p].terminal /\ run[p].clean /\ ~run[p].uncertain
         THEN ClearProcess(p) \/ UNCHANGED lease
         ELSE UNCHANGED lease
    /\ RunAt(p, "done")
    /\ RunFrame /\ UNCHANGED <<provider, late>>

\* Every step of a started run but the untimed getSession.
RunTimedStep(p) ==
    \/ RunBegin(p) \/ RunClean(p) \/ RunConfigure(p) \/ RunStart(p) \/ RunBind(p)
    \/ RunSigterm(p) \/ RunFinishKill(p) \/ RunWait(p) \/ RunTerminate(p)
    \/ RunKillStart(p) \/ RunFinally(p) \/ RunClear(p)

-----------------------------------------------------------------------------
(* kill.  A blocked, unanswered or already-terminal request returns at     *)
(* once and changes nothing here.                                          *)

KillFrame == UNCHANGED <<creation, creator, run, destroyer, file>>

KillIdle == [pc |-> "idle", target |-> NoProcess]

KillRequest(k) ==
    /\ LeaseIssued
    /\ killer[k].pc = "idle"
    /\ RequestKill
    /\ \/ killer' = [killer EXCEPT ![k] = [pc |-> "signal", target |-> lease.process_id]]
       \/ UNCHANGED killer
    /\ KillFrame /\ UNCHANGED <<provider, late>>

\* killProcess(SIGTERM) behind withTimeout.
KillSignal(k) ==
    /\ killer[k].pc = "signal"
    /\ \/ /\ ProviderStops(killer[k].target) /\ UNCHANGED late
          /\ killer' = [killer EXCEPT ![k].pc = "finish"]
       \/ /\ StopUnconfirmed(killer[k].target)
          /\ killer' = [killer EXCEPT ![k] = KillIdle]
    /\ KillFrame /\ UNCHANGED lease

KillFinish(k) ==
    /\ killer[k].pc = "finish"
    /\ FinishKill \/ UNCHANGED lease
    /\ killer' = [killer EXCEPT ![k] = KillIdle]
    /\ KillFrame /\ UNCHANGED <<provider, late>>

KillStep(k) == KillSignal(k) \/ KillFinish(k)

-----------------------------------------------------------------------------
(* destroy                                                                 *)

DestroyFrame == UNCHANGED <<creation, creator, run, killer, file>>

DestroyerAt(d, pc) == destroyer' = [destroyer EXCEPT ![d].pc = pc]

\* beginDestroy: a fresh reservation, or the recovery of a destroy whose
\* outcome nobody knows.
DestroyBegin(d) ==
    /\ LeaseIssued
    /\ destroyer[d].pc = "idle"
    /\ \/ /\ BeginDestroy
          /\ \/ destroyer' = [destroyer EXCEPT ![d] = [pc |-> "provider", fresh |-> TRUE]]
             \/ UNCHANGED destroyer
       \/ /\ CanRecoverDestroy
          /\ destroyer' = [destroyer EXCEPT ![d] = [pc |-> "provider", fresh |-> FALSE]]
          /\ UNCHANGED lease
    /\ DestroyFrame /\ UNCHANGED <<provider, late>>

DestroyProvider(d) ==
    /\ destroyer[d].pc = "provider"
    /\ \/ ProviderDestroys /\ DestroyerAt(d, "finish") /\ UNCHANGED late
       \/ /\ ProviderDestroys \/ UNCHANGED provider
          /\ DestroyerAt(d, IF destroyer[d].fresh THEN "abort" ELSE "idle")
          /\ UNCHANGED late
       \/ /\ DestroyerAt(d, "idle")
          /\ late' = late \cup {LateOp("destroy", NoProcess)}
          /\ UNCHANGED provider
    /\ DestroyFrame /\ UNCHANGED lease

DestroyFinish(d) ==
    /\ destroyer[d].pc = "finish"
    /\ FinishDestroy \/ UNCHANGED lease
    /\ DestroyerAt(d, "idle")
    /\ DestroyFrame /\ UNCHANGED <<provider, late>>

DestroyAbort(d) ==
    /\ destroyer[d].pc = "abort"
    /\ AbortDestroy \/ UNCHANGED lease
    /\ DestroyerAt(d, "idle")
    /\ DestroyFrame /\ UNCHANGED <<provider, late>>

DestroyStep(d) == DestroyProvider(d) \/ DestroyFinish(d) \/ DestroyAbort(d)

-----------------------------------------------------------------------------
(* writeFile and readFile: authorize, and in a later step call the         *)
(* provider on the strength of that answer.                                *)

FileFrame == UNCHANGED <<lease, provider, late, creation, creator, run, killer, destroyer>>

FileAuthorize(f) ==
    /\ LeaseIssued
    /\ file[f] = "idle"
    /\ Authorized
    /\ file' = [file EXCEPT ![f] = "authorized"]
    /\ FileFrame

FileCall(f) ==
    /\ file[f] = "authorized"
    /\ file' = [file EXCEPT ![f] = "called"]
    /\ FileFrame

FileReturn(f) ==
    /\ file[f] = "called"
    /\ file' = [file EXCEPT ![f] = "idle"]
    /\ FileFrame

-----------------------------------------------------------------------------
Next ==
    \/ CreateStep
    \/ CreationSettles \/ ContainerWakes
    \/ \E p \in Processes : Execute(p) \/ RunGetSession(p) \/ RunTimedStep(p)
    \/ \E p \in Processes : ProcessExits(p) \/ StartLands(p)
    \/ \E o \in LateOps : LateLands(o)
    \/ \E k \in Killers : KillRequest(k) \/ KillStep(k)
    \/ \E d \in Destroyers : DestroyBegin(d) \/ DestroyStep(d)
    \/ \E f \in Files : FileAuthorize(f) \/ FileCall(f) \/ FileReturn(f)

Spec == Init /\ [][Next]_vars

(* A registry request is answered or throws, and withTimeout bounds every  *)
(* provider call but getSession and the file calls, so each of these steps *)
(* is eventually taken.  Nobody is obliged to call anything.               *)
Fairness ==
    /\ \A p \in Processes : WF_vars(RunTimedStep(p))
    /\ \A k \in Killers : WF_vars(KillStep(k))
    /\ \A d \in Destroyers : WF_vars(DestroyStep(d))

FairSpec == Spec /\ Fairness

-----------------------------------------------------------------------------
(* Properties                                                              *)

\* Requests can still be admitted, now or after an aborted destroy.
Open(r) ==
    \/ r.status = "ready"
    \/ r.status = "destroying" /\ r.destroy_resume_status = "ready"

\* What run p has, or may yet have, inside the sandbox.
Holds(p) ==
    \/ process[p] = "alive"
    \/ outbound = p
    \/ LateOp("start", p) \in late
    \/ LateOp("configure", p) \in late
    \/ run[p].pc \in {"configure", "session", "start"}

(* While a lease is open, nothing of any run but the one its record names  *)
(* is in the sandbox or can still arrive there: no process, no start in    *)
(* flight, no Tool Gateway handler with that run's token.  This is what    *)
(* processTerminalConfirmed, outboundStateConfirmedClean and               *)
(* processStartStateUncertain guard before clearProcess frees the lease.   *)
ExclusiveLease ==
    Open(lease) => \A p \in Processes : Holds(p) => lease.process_id = p

\* No destroy leads to the provider any more from record r.
GivenUp(r) == r.status \in {"absent", "destroyed"}

(* The record of a sandbox is given up only after a destroy of it was      *)
(* confirmed: the container that create brought up, or may still bring up, *)
(* always has a record by which it can be destroyed, however create times  *)
(* out, and however destroys overlap, fail and are aborted.                *)
GivenUpOnceDestroyed ==
    GivenUp(lease) => creation # "inflight" /\ sandbox # "alive"

\* A call that was let in before the lease closed has still to reach the
\* provider, or may yet; or create has not even been called.
Straggling ==
    \/ CallUnderWay \/ creation = "inflight" \/ creator.pc = "reserve"
    \/ \E p \in Processes : run[p].pc \notin {"idle", "begin", "done"}
    \/ \E f \in Files : file[f] = "authorized"

(* A sandbox that was given up, is down and has no straggler left stays    *)
(* down for good: no new run, kill or file call is let in, by whatever     *)
(* registry request, to wake it.                                           *)
DownForGood ==
    [][GivenUp(lease) /\ sandbox = "gone" /\ ~Straggling =>
         GivenUp(lease') /\ sandbox' = "gone" /\ ~Straggling']_vars

(* A process alive in the sandbox has its run still at work or a record by *)
(* which a destroy reaches it: the code does not keep this.  After         *)
(* beginProcess runProcess never asks for the lease again, so a start      *)
(* overtaken by a whole destroy, or given up on and landing after it, runs *)
(* under the record of a destroyed lease.                                  *)
ProcessIsAddressable ==
    \A p \in Processes :
        process[p] = "alive" /\ run[p].pc = "done" => ~GivenUp(lease)

(* Why GivenUpOnceDestroyed holds: what is known of the creation at each   *)
(* step of create, and of the sandbox once a destroy is confirmed.         *)
DestroyedOnce == sandbox \in {"gone", "woken"}

CreationInv ==
    /\ creator.pc = "reserve" => creation = "none"
    /\ creator.pc \in {"ready", "created", "redestroy"} => creation = "fulfilled"
    /\ creator.pc = "cleanup" /\ ~creator.timedOut => creation \in {"fulfilled", "rejected"}
    /\ creator.pc = "remove" => creation \in {"fulfilled", "rejected"} /\ DestroyedOnce
    /\ creator.cleaned /\ creation # "fulfilled" => DestroyedOnce
    /\ \A d \in Destroyers :
         /\ destroyer[d].pc # "idle" => LeaseIssued
         /\ destroyer[d].pc = "finish" => DestroyedOnce

(* Why ExclusiveLease holds: what the flags of a run tell about its        *)
(* process, its Tool Gateway handler and its calls in flight.              *)
RunKnows(p) ==
    /\ run[p].pc # "idle" => LeaseIssued
    /\ run[p].pc \in {"idle", "begin", "clean", "configure", "session"} => process[p] = "none"
    /\ LateOp("start", p) \in late =>
         run[p].uncertain /\ run[p].pc \in {"killstart", "finally", "clear", "done"}
    /\ run[p].terminal =>
         /\ run[p].pc \in {"finally", "clear", "done"}
         /\ process[p] = "alive" => run[p].uncertain
    /\ outbound = p => run[p].config # "none" /\ ~run[p].clean
    /\ LateOp("configure", p) \in late =>
         /\ run[p].pc \in {"finally", "clear", "done"}
         /\ run[p].config = "attempted" /\ ~run[p].clean
    /\ run[p].pc \in {"idle", "begin", "clean"} => run[p].config = "none" /\ ~run[p].clean
    /\ run[p].pc = "configure" => run[p].config = "attempted" /\ ~run[p].clean
    /\ run[p].clean /\ run[p].pc \notin {"clear", "done"} => run[p].config = "none"

(* A run between its reservation and its return is bound, as is one that   *)
(* left something behind.                                                  *)
Engaged(p) == Holds(p) \/ run[p].pc \notin {"idle", "begin", "done"}

EngagedRunIsBound ==
    Open(lease) => \A p \in Processes : Engaged(p) => lease.process_id = p

RunInv == EngagedRunIsBound /\ \A p \in Processes : RunKnows(p)

(* Every execute, kill and destroy call returns, whatever the provider and *)
(* the registry do to it, unless a run hangs in the untimed getSession.    *)
CallsReturn ==
    /\ \A p \in Processes :
         []<>(run[p].pc \in {"idle", "done"}) \/ <>[](run[p].pc = "session")
    /\ \A k \in Killers : []<>(killer[k].pc = "idle")
    /\ \A d \in Destroyers : []<>(destroyer[d].pc = "idle")

(* A destroy that timed out keeps the lease closed while it may still take *)
(* effect: the code does not keep this when a second destroy overlaps.     *)
TimedOutDestroyStaysClosed ==
    LateOp("destroy", NoProcess) \in late => lease.status # "ready"

-----------------------------------------------------------------------------
(* Refinement                                                              *)

(* The lease as its holder knows it: a destroy that may yet be aborted is  *)
(* not the end of it.                                                      *)
Phase ==
    CASE lease.status \in {"absent", "pending"} -> "unissued"
      [] Open(lease)                            -> "open"
      [] OTHER                                  -> "closed"

Inside == {p \in Processes : process[p] = "alive"}

Service == INSTANCE SandboxService
             WITH phase <- Phase, holder <- lease.process_id,
                  doomed <- lease.kill_requested, inside <- Inside

(* The registry and the backend together, with every lost answer, late     *)
(* call and failed cleanup, keep the promises of SandboxService.           *)
ImplementsService == Service!Spec
=============================================================================
