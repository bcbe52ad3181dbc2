------------------------ MODULE SandboxSafetyProofs ------------------------
(***************************************************************************)
(* The two promises of the backend about the provider, for any number of   *)
(* runs, kills, destroys and file calls: no sandbox is given up unless a   *)
(* destroy of it was confirmed, and an open lease is exclusive to the run  *)
(* its record names.                                                       *)
(***************************************************************************)
EXTENDS SandboxBackendProofs

-----------------------------------------------------------------------------
(* GivenUpOnceDestroyed, from what CreationInv knows at each step of create.    *)

RecordKeptInv == TypeOK /\ GivenUpOnceDestroyed /\ CreationInv

Kept(r) == ~GivenUp(r)

(* A container that is up is so since create, or since a destroy.          *)
SameContainer == (sandbox' = "alive" => sandbox = "alive") /\ (DestroyedOnce => DestroyedOnce')

(* A step that leaves the creation and the destroyers alone, brings up no  *)
(* container but one that was destroyed, and drops no record.              *)
Quiet ==
    /\ UNCHANGED <<creation, creator, destroyer>>
    /\ SameContainer
    /\ Kept(lease) => Kept(lease')

LEMMA QuietKeepsRecord ==
    ASSUME RecordKeptInv, Quiet
    PROVE  GivenUpOnceDestroyed' /\ CreationInv'
BY DEF RecordKeptInv, Quiet, SameContainer, Kept, GivenUpOnceDestroyed, CreationInv, LeaseIssued

(* No effect at the provider but a creation makes a container. *)
LEMMA NothingCreates ==
    /\ ProviderDestroys => SameContainer /\ DestroyedOnce'
    /\ ProviderCleans => SameContainer
    /\ \A p : (ProviderConfigures(p) \/ ProviderStarts(p) \/ ProviderStops(p)) => SameContainer
    /\ \A p : StopUnconfirmed(p) => SameContainer
    /\ UNCHANGED provider => SameContainer
    /\ UNCHANGED sandbox => SameContainer
BY DEF ProviderDestroys, ProviderCleans, ProviderConfigures, ProviderStarts, ProviderStops,
       StopUnconfirmed, Up, provider, SameContainer, DestroyedOnce

(* What a step of a run can do to the record. *)
LEMMA RunStepRecord ==
    ASSUME NEW p \in Processes, RunStep(p)
    PROVE  \/ UNCHANGED lease \/ MarkRunning(p) \/ FinishKill
           \/ BeginProcess(p)
           \/ RunClear(p) /\ ClearProcess(p)
<1> USE DEF RunStep, RunTimedStep
<1>1. CASE RunBegin(p) \/ RunBind(p) \/ RunFinishKill(p) \/ RunClear(p)
  BY <1>1 DEF RunBegin, RunBind, RunFinishKill, RunClear, RegistryCall
<1>2. CASE ~(RunBegin(p) \/ RunBind(p) \/ RunFinishKill(p) \/ RunClear(p))
  BY <1>2
     DEF Execute, RunGetSession, RunClean, RunConfigure, RunStart, RunSigterm, RunWait,
         RunTerminate, RunKillStart, RunFinally
<1> QED
  BY <1>1, <1>2

LEMMA RunStepQuiet ==
    ASSUME LeaseTypeOK, NEW p \in Processes, RunStep(p)
    PROVE  Quiet
<1>1. UNCHANGED <<creation, creator, destroyer>>
  BY RunStepFrame DEF RunFrame
<1>2. SameContainer
  BY RunStepFrame, NothingCreates
<1>3. Kept(lease) => Kept(lease')
  BY RunStepRecord
     DEF Kept, GivenUp, BeginProcess, MarkRunning, FinishKill, ClearProcess, WithoutProcess,
         LeaseTypeOK, LeaseRecord, CanBeginProcess, CanMarkRunning
<1> QED
  BY <1>1, <1>2, <1>3 DEF Quiet

LEMMA RecordKeptStep == RecordKeptInv /\ [Next]_vars => GivenUpOnceDestroyed' /\ CreationInv'
<1> SUFFICES ASSUME RecordKeptInv, [Next]_vars PROVE GivenUpOnceDestroyed' /\ CreationInv'
    OBVIOUS
<1>1. CASE CreateStep
  <2> USE NothingCreates
      DEF RecordKeptInv, TypeOK, GivenUpOnceDestroyed, CreationInv, LeaseIssued, CreatorAt,
          GivenUp, SameContainer, DestroyedOnce
  <2>1. CASE CreateReserve
    <3>1. /\ \/ lease.status = "absent" /\ lease'.status = "pending"
             \/ UNCHANGED <<lease, creation>>
          /\ creator'.pc \in {"create", "failed"}
          /\ creator'.cleaned = creator.cleaned
          /\ creation' \in {creation, "inflight"}
          /\ UNCHANGED <<sandbox, destroyer>> /\ creator.pc = "reserve"
      BY <2>1 DEF CreateReserve, Reserve, CanReserve, Absent, provider
    <3>2. CASE UNCHANGED <<lease, creation>>
      BY <3>1, <3>2
    <3>3. CASE lease.status = "absent" /\ lease'.status = "pending"
      BY <3>1, <3>3
    <3> QED
      BY <3>1, <3>2, <3>3
  <2>2. CASE CreateAnswered
    BY <2>2 DEF CreateAnswered, provider
  <2>3. CASE CreateMarkReady
    BY <2>3 DEF CreateMarkReady, RegistryCall, Ready, provider, LeaseTypeOK, LeaseRecord
  <2>4. CASE CreateCleanup
    <3>1. /\ creator'.pc \in {"reconcile", "remove", "failed"}
          /\ creator'.pc = "remove" => ~creator.timedOut /\ DestroyedOnce'
          /\ creator'.cleaned => creator.cleaned \/ DestroyedOnce'
      <4>1. CASE creator.timedOut
        BY <2>4, <4>1 DEF CreateCleanup, CreatorDestroys
      <4>2. CASE ~creator.timedOut
        BY <2>4, <4>2 DEF CreateCleanup, CreatorDestroys
      <4> QED
        BY <4>1, <4>2
    <3>2. SameContainer
      BY <2>4 DEF CreateCleanup, CreatorDestroys
    <3>3. UNCHANGED <<lease, creation, destroyer>> /\ creator.pc = "cleanup"
      BY <2>4 DEF CreateCleanup
    <3> QED
      BY <3>1, <3>2, <3>3
  <2>5. CASE CreateReconcile
    BY <2>5 DEF CreateReconcile, provider
  <2>6. CASE CreateRedestroy
    BY <2>6 DEF CreateRedestroy, CreatorDestroys, provider
  <2>7. CASE CreateRemove
    BY <2>7 DEF CreateRemove, RegistryCall, Remove, provider
  <2> QED
    BY <1>1, <2>1, <2>2, <2>3, <2>4, <2>5, <2>6, <2>7 DEF CreateStep
<1>2. CASE CreationSettles
  BY <1>2
     DEF CreationSettles, callers, RecordKeptInv, TypeOK, GivenUpOnceDestroyed, CreationInv,
         LeaseIssued, GivenUp, DestroyedOnce
<1>2a. CASE ContainerWakes
  BY <1>2a
     DEF ContainerWakes, callers, RecordKeptInv, TypeOK, GivenUpOnceDestroyed, CreationInv,
         LeaseIssued, GivenUp, DestroyedOnce
<1>3. ASSUME NEW p \in Processes, RunStep(p) PROVE Quiet
  BY <1>3, RunStepQuiet DEF RecordKeptInv, TypeOK
<1>4. ASSUME NEW p \in Processes, ProcessExits(p) \/ StartLands(p) PROVE Quiet
  BY <1>4, NothingCreates DEF Quiet, ProcessExits, StartLands, callers
<1>5. ASSUME NEW o \in LateOps, LateLands(o) PROVE Quiet
  <2>1. \/ ProviderStarts(o.process) \/ ProviderConfigures(o.process)
        \/ ProviderCleans \/ ProviderDestroys \/ UNCHANGED provider
    BY <1>5 DEF LateLands, LateOps
  <2>2. UNCHANGED <<lease, creation, callers>>
    BY <1>5 DEF LateLands
  <2> QED
    BY <2>1, <2>2, NothingCreates DEF Quiet, callers
<1>6. ASSUME NEW k \in Killers, KillRequest(k) \/ KillStep(k) PROVE Quiet
  <2>1. UNCHANGED lease \/ RequestKill \/ FinishKill
    BY <1>6 DEF KillRequest, KillStep, KillSignal, KillFinish
  <2>2. SameContainer
    BY <1>6, NothingCreates DEF KillRequest, KillStep, KillSignal, KillFinish
  <2>3. KillFrame
    BY <1>6 DEF KillRequest, KillStep, KillSignal, KillFinish
  <2> QED
    BY <2>1, <2>2, <2>3
       DEF Quiet, Kept, GivenUp, KillFrame, RequestKill, FinishKill, WithoutProcess, RecordKeptInv, TypeOK,
           LeaseTypeOK, LeaseRecord
<1>7. ASSUME NEW d \in Destroyers, DestroyBegin(d) \/ DestroyStep(d)
      PROVE  GivenUpOnceDestroyed' /\ CreationInv'
  <2> USE NothingCreates
      DEF RecordKeptInv, TypeOK, GivenUpOnceDestroyed, CreationInv, LeaseIssued, DestroyFrame,
          DestroyerAt, GivenUp, SameContainer, DestroyedOnce
  <2>1. CASE DestroyBegin(d)
    <3>1. /\ UNCHANGED <<sandbox, creation, creator>> /\ LeaseIssued
          /\ UNCHANGED lease \/ lease'.status = "destroying"
      BY <2>1 DEF DestroyBegin, BeginDestroy, LeaseTypeOK, LeaseRecord, provider
    <3>2. \A e \in Destroyers : destroyer'[e].pc \in {destroyer[e].pc, "provider"}
      BY <2>1 DEF DestroyBegin
    <3> QED
      BY <3>1, <3>2
  <2>2. CASE DestroyProvider(d)
    <3>1. PICK pc \in {"finish", "abort", "idle"} :
             DestroyerAt(d, pc) /\ (pc = "finish" => ProviderDestroys)
      BY <2>2 DEF DestroyProvider
    <3>2. SameContainer
      BY <2>2 DEF DestroyProvider
    <3>3. UNCHANGED <<lease, creation, creator>> /\ destroyer[d].pc = "provider"
      BY <2>2 DEF DestroyProvider
    <3> QED
      BY <3>1, <3>2, <3>3
  <2>3. CASE DestroyFinish(d)
    BY <2>3 DEF DestroyFinish, FinishDestroy, provider
  <2>4. CASE DestroyAbort(d)
    BY <2>4 DEF DestroyAbort, AbortDestroy, CanAbortDestroy, LeaseTypeOK, LeaseRecord,
                ResumeStatuses, provider
  <2> QED
    BY <1>7, <2>1, <2>2, <2>3, <2>4 DEF DestroyStep
<1>8. ASSUME NEW f \in Files, FileAuthorize(f) \/ FileCall(f) \/ FileReturn(f) PROVE Quiet
  BY <1>8, NothingCreates DEF Quiet, FileAuthorize, FileCall, FileReturn, FileFrame
<1>9. CASE UNCHANGED vars
  BY <1>9, QuietKeepsRecord, NothingCreates DEF Quiet, vars, callers
<1> QED
  BY <1>1, <1>2, <1>2a, <1>3, <1>4, <1>5, <1>6, <1>7, <1>8, <1>9, QuietKeepsRecord
     DEF Next, RunStep

(* A record is removed, or marked destroyed, only when a destroy of its    *)
(* sandbox was confirmed after create had brought it up, whatever has been *)
(* woken since.                                                            *)
THEOREM BackendGivenUpOnceDestroyed == Spec => []GivenUpOnceDestroyed
<1>1. Init => RecordKeptInv
  <2>1. Init => GivenUpOnceDestroyed /\ CreationInv
    BY DEF Init, GivenUpOnceDestroyed, CreationInv
  <2> QED
    BY <2>1, InitTypeOK DEF RecordKeptInv
<1>2. RecordKeptInv /\ [Next]_vars => RecordKeptInv'
  BY RecordKeptStep, StepTypeOK DEF RecordKeptInv
<1>3. RecordKeptInv => GivenUpOnceDestroyed
  BY DEF RecordKeptInv
<1> QED
  BY <1>1, <1>2, <1>3, PTL DEF Spec

-----------------------------------------------------------------------------
(* ExclusiveLease, from what the flags of each run tell (RunKnows) and the *)
(* fact that an engaged run of an open lease is bound.                     *)

ExclusiveInv == TypeOK /\ RunInv

LEMMA LateOpInjective ==
    \A op1, p1, op2, p2 : LateOp(op1, p1) = LateOp(op2, p2) <=> op1 = op2 /\ p1 = p2
BY DEF LateOp

(* Run q does nothing, and nothing of it arrives in the sandbox: all it    *)
(* can see is its process exiting or its handler going away.               *)
Retreats(q) ==
    /\ run'[q] = run[q]
    /\ process'[q] = process[q] \/ (process'[q] = "exited" /\ process[q] = "alive")
    /\ outbound' = q => outbound = q
    /\ LateOp("start", q) \in late' => LateOp("start", q) \in late
    /\ LateOp("configure", q) \in late' => LateOp("configure", q) \in late

LEMMA RetreatKeepsRun ==
    ASSUME NEW q, Retreats(q), LeaseIssued => LeaseIssued', RunKnows(q)
    PROVE  RunKnows(q)' /\ (Engaged(q)' => Engaged(q))
BY DEF Retreats, RunKnows, Engaged, Holds

(* The provider's effects that concern no run in particular. *)
LEMMA ProviderRetreats ==
    ASSUME TypeOK, NEW q \in Processes, UNCHANGED run,
           \/ ProviderDestroys \/ ProviderCleans \/ UNCHANGED provider
           \/ \E p \in Processes \cup {NoProcess} : ProviderStops(p),
           \A p \in Processes :
              /\ LateOp("start", p) \in late' => LateOp("start", p) \in late
              /\ LateOp("configure", p) \in late' => LateOp("configure", p) \in late
    PROVE  Retreats(q)
<1> USE NoProcessAssumption DEF Retreats, TypeOK, ProviderTypeOK
<1>1. CASE ProviderDestroys
  BY <1>1 DEF ProviderDestroys
<1>2. CASE ProviderCleans \/ UNCHANGED provider
  BY <1>2 DEF ProviderCleans, provider
<1>3. ASSUME NEW p \in Processes \cup {NoProcess}, ProviderStops(p) PROVE Retreats(q)
  BY <1>3 DEF ProviderStops
<1> QED
  BY <1>1, <1>2, <1>3

(* A step of run p leaves the others as they are. *)
LEMMA OtherRunsRetreat ==
    ASSUME TypeOK, NEW p \in Processes, RunStep(p), NEW q \in Processes \ {p}
    PROVE  Retreats(q)
<1>1. run'[q] = run[q]
  BY RunStepTypes DEF TypeOK
<1>2. /\ LateOp("start", q) \in late' => LateOp("start", q) \in late
      /\ LateOp("configure", q) \in late' => LateOp("configure", q) \in late
  BY RunStepFrame, LateOpInjective
<1>3. process'[q] = process[q] /\ (outbound' = q => outbound = q)
  BY RunStepFrame, NoProcessAssumption
     DEF ProviderCleans, ProviderConfigures, ProviderStops, provider, TypeOK, ProviderTypeOK
<1> QED
  BY <1>1, <1>2, <1>3 DEF Retreats

FlagsKept(p) ==
    /\ run'[p].config = run[p].config
    /\ run'[p].clean = run[p].clean
    /\ run'[p].terminal = run[p].terminal
    /\ run'[p].uncertain = run[p].uncertain

(* The flags of a run keep telling the truth through its own steps. *)
LEMMA OwnStepKnows ==
    ASSUME ~RejectedStartMayLand, TypeOK, NEW p \in Processes, RunStep(p), RunKnows(p)
    PROVE  RunKnows(p)'
<1> DEFINE still == UNCHANGED <<process, outbound, late, creator>>
           mayStop == /\ UNCHANGED <<outbound, creator>>
                      /\ process'[p] \in {process[p], "exited"}
                      /\ \A op \in {"start", "configure"} :
                           LateOp(op, p) \in late' => LateOp(op, p) \in late
           mayClean == /\ UNCHANGED <<process, creator>>
                       /\ outbound' \in {outbound, NoProcess}
                       /\ \A op \in {"start", "configure"} :
                            LateOp(op, p) \in late' => LateOp(op, p) \in late
<1>a. run[p] \in RunState /\ (\A r : RunBecomes(p, r) => run'[p] = r)
  BY DEF TypeOK, RunBecomes
<1>b. \A pc : RunAt(p, pc) => run'[p].pc = pc /\ FlagsKept(p)
  BY <1>a DEF RunAt, RunState, FlagsKept
<1>c. \A b : RunFailsBeforeStart(p, b) =>
        /\ run'[p].pc = "finally" /\ run'[p].clean = b
        /\ run'[p].config = run[p].config /\ run'[p].uncertain = run[p].uncertain
  BY <1>a DEF RunFailsBeforeStart, RunState
<1>d. ASSUME RunBecomes(p, [run[p] EXCEPT !.pc = "finally", !.terminal = TRUE])
      PROVE  /\ run'[p].pc = "finally" /\ run'[p].config = run[p].config
             /\ run'[p].clean = run[p].clean /\ run'[p].uncertain = run[p].uncertain
  BY <1>a, <1>d DEF RunState
<1>e. ProviderStops(p) => UNCHANGED outbound /\ process'[p] \in {process[p], "exited"} /\ process'[p] # "alive"
  BY DEF ProviderStops, TypeOK, ProviderTypeOK
<1>f. StopUnconfirmed(p) /\ UNCHANGED creator => mayStop
  BY <1>e, LateOpInjective DEF StopUnconfirmed, provider
<1>1. CASE Execute(p)
  <2>2. run[p].pc = "idle" /\ LeaseIssued /\ still
    BY <1>1 DEF Execute, RunFrame, provider
  <2>3. run'[p].pc = "begin" /\ FlagsKept(p)
    BY <1>b, <1>1 DEF Execute
  <2> QED
    BY <2>2, <2>3 DEF RunKnows, LeaseIssued, FlagsKept
<1>2. CASE RunBegin(p)
  <2>1. run'[p].pc \in {"clean", "done"} /\ FlagsKept(p)
    BY <1>b, <1>2 DEF RunBegin, RegistryCall
  <2>2. run[p].pc = "begin" /\ still
    BY <1>2 DEF RunBegin, RunFrame, provider
  <2> QED
    BY <2>1, <2>2 DEF RunKnows, LeaseIssued, FlagsKept
<1>3. CASE RunBind(p) \/ RunFinishKill(p)
  <2>1. run'[p].pc \in {"sigterm", "wait", "terminate"} /\ FlagsKept(p)
    BY <1>b, <1>3 DEF RunBind, RunFinishKill, RegistryCall
  <2>2. run[p].pc \in {"bind", "finishkill"} /\ still
    BY <1>3 DEF RunBind, RunFinishKill, RunFrame, provider
  <2> QED
    BY <2>1, <2>2 DEF RunKnows, LeaseIssued, FlagsKept
<1>4. CASE RunClean(p)
  <2>1. run[p].pc = "clean" /\ mayClean
    <3>1. run[p].pc = "clean" /\ UNCHANGED <<process, creator>> /\ outbound' \in {outbound, NoProcess}
      BY <1>4 DEF RunClean, RunProviderCall, RunFrame, ProviderCleans, provider
    <3>2. UNCHANGED late \/ late' = late \cup {LateOp("clean", NoProcess)}
      BY <1>4 DEF RunClean, RunProviderCall
    <3> QED
      BY <3>1, <3>2, LateOpInjective
  <2>2. CASE RunBecomes(p, [run[p] EXCEPT !.pc = "session", !.clean = TRUE])
    <3>1. /\ run'[p].pc = "session" /\ run'[p].config = run[p].config
          /\ run'[p].terminal = run[p].terminal /\ run'[p].uncertain = run[p].uncertain
      BY <1>a, <2>2 DEF RunState
    <3>2. outbound # p /\ LateOp("configure", p) \notin late
      BY <2>1 DEF RunKnows
    <3> QED
      BY <2>1, <3>1, <3>2, NoProcessAssumption DEF RunKnows, LeaseIssued
  <2>3. CASE RunBecomes(p, [run[p] EXCEPT !.pc = "configure", !.config = "attempted"])
    <3>1. /\ run'[p].pc = "configure" /\ run'[p].config = "attempted"
          /\ run'[p].clean = run[p].clean
          /\ run'[p].terminal = run[p].terminal /\ run'[p].uncertain = run[p].uncertain
      BY <1>a, <2>3 DEF RunState
    <3> QED
      BY <2>1, <3>1, NoProcessAssumption DEF RunKnows, LeaseIssued
  <2>4. CASE \E b \in BOOLEAN : RunFailsBeforeStart(p, b)
    BY <1>c, <2>1, <2>4, NoProcessAssumption DEF RunKnows, LeaseIssued
  <2> QED
    BY <1>4, <2>2, <2>3, <2>4 DEF RunClean, RunProviderCall
<1>5. CASE RunConfigure(p)
  <2>1. run[p].pc = "configure" /\ UNCHANGED <<process, creator>>
    BY <1>5 DEF RunConfigure, RunProviderCall, RunFrame, ProviderConfigures, provider
  <2>2. CASE UNCHANGED late /\ RunBecomes(p, [run[p] EXCEPT !.pc = "session", !.config = "confirmed"])
    <3>1. /\ run'[p].pc = "session" /\ run'[p].config = "confirmed"
          /\ run'[p].clean = run[p].clean
          /\ run'[p].terminal = run[p].terminal /\ run'[p].uncertain = run[p].uncertain
      BY <1>a, <2>2 DEF RunState
    <3>2. LateOp("configure", p) \notin late
      BY <2>1, <3>1 DEF RunKnows
    <3> QED
      BY <2>1, <2>2, <3>1, <3>2 DEF RunKnows, LeaseIssued
  <2>3. CASE RunFailsBeforeStart(p, FALSE)
    <3>1. UNCHANGED late \/ late' = late \cup {LateOp("configure", p)}
      BY <1>5 DEF RunConfigure, RunProviderCall
    <3>2. LateOp("start", p) \in late' => LateOp("start", p) \in late
      BY <3>1, LateOpInjective
    <3> QED
      BY <1>c, <2>1, <2>3, <3>2 DEF RunKnows, LeaseIssued
  <2> QED
    BY <1>5, <2>2, <2>3 DEF RunConfigure, RunProviderCall
<1>6. CASE RunGetSession(p)
  <2>1. run[p].pc = "session" /\ still
    BY <1>6 DEF RunGetSession, RunFrame, provider
  <2>2. CASE RunAt(p, "start")
    BY <1>b, <2>1, <2>2 DEF RunKnows, LeaseIssued, FlagsKept
  <2>3. CASE RunFailsBeforeStart(p, run[p].clean)
    BY <1>c, <2>1, <2>3 DEF RunKnows, LeaseIssued
  <2> QED
    BY <1>6, <2>2, <2>3 DEF RunGetSession
<1>7. CASE RunStart(p)
  <2>1. run[p].pc = "start" /\ UNCHANGED <<process, outbound, creator>>
    BY <1>7 DEF RunStart, RunFrame, provider
  <2>2. CASE UNCHANGED late /\ \E pc \in {"bind", "terminate", "killstart"} : RunAt(p, pc)
    BY <1>b, <2>1, <2>2 DEF RunKnows, LeaseIssued, FlagsKept
  <2>3. CASE /\ RunBecomes(p, [run[p] EXCEPT !.pc = "killstart", !.uncertain = TRUE])
             /\ UNCHANGED late \/ late' = late \cup {LateOp("start", p)}
    <3>1. /\ run'[p].pc = "killstart" /\ run'[p].uncertain
          /\ run'[p].config = run[p].config /\ run'[p].clean = run[p].clean
          /\ run'[p].terminal = run[p].terminal
      BY <1>a, <2>3 DEF RunState
    <3>2. LateOp("configure", p) \in late' => LateOp("configure", p) \in late
      BY <2>3, LateOpInjective
    <3> QED
      BY <2>1, <3>1, <3>2 DEF RunKnows, LeaseIssued
  <2> QED
    BY <1>7, <2>2, <2>3 DEF RunStart
<1>8. CASE RunSigterm(p)
  <2>1. run[p].pc = "sigterm" /\ mayStop
    BY <1>8, <1>e, <1>f DEF RunSigterm, RunFrame, provider
  <2>2. run'[p].pc \in {"finishkill", "terminate"} /\ FlagsKept(p)
    BY <1>b, <1>8 DEF RunSigterm
  <2> QED
    BY <2>1, <2>2 DEF RunKnows, LeaseIssued, FlagsKept
<1>9. CASE RunWait(p)
  <2>1. run[p].pc = "wait" /\ still
    BY <1>9 DEF RunWait, RunFrame, provider
  <2>2. CASE RunAt(p, "terminate")
    BY <1>b, <2>1, <2>2 DEF RunKnows, LeaseIssued, FlagsKept
  <2>3. CASE /\ process[p] = "exited"
             /\ RunBecomes(p, [run[p] EXCEPT !.pc = "finally", !.terminal = TRUE])
    BY <1>d, <2>1, <2>3 DEF RunKnows, LeaseIssued
  <2> QED
    BY <1>9, <2>2, <2>3 DEF RunWait
<1>10. CASE RunTerminate(p) \/ RunKillStart(p)
  <2>1. run[p].pc \in {"terminate", "killstart"} /\ mayStop
    BY <1>10, <1>e, <1>f DEF RunTerminate, RunKillStart, RunFrame
  <2>2. CASE RunAt(p, "finally")
    BY <1>b, <2>1, <2>2 DEF RunKnows, LeaseIssued, FlagsKept
  <2>3. CASE /\ ProviderStops(p)
             /\ RunBecomes(p, [run[p] EXCEPT !.pc = "finally", !.terminal = TRUE])
    BY <1>d, <1>e, <2>1, <2>3 DEF RunKnows, LeaseIssued
  <2> QED
    BY <1>10, <2>2, <2>3 DEF RunTerminate, RunKillStart
<1>11. CASE RunFinally(p)
  <2>1. run[p].pc = "finally" /\ mayClean
    <3>1. CASE run[p].config # "none" \/ ~run[p].clean
      <4>1. /\ run[p].pc = "finally"
            /\ UNCHANGED <<process, creator>> /\ outbound' \in {outbound, NoProcess}
        BY <1>11, <3>1 DEF RunFinally, RunProviderCall, RunFrame, ProviderCleans, provider
      <4>2. UNCHANGED late \/ late' = late \cup {LateOp("clean", NoProcess)}
        BY <1>11, <3>1 DEF RunFinally, RunProviderCall
      <4> QED
        BY <4>1, <4>2, LateOpInjective
    <3>2. CASE ~(run[p].config # "none" \/ ~run[p].clean)
      BY <1>11, <3>2 DEF RunFinally, RunFrame, provider
    <3> QED
      BY <3>1, <3>2
  <2>2. /\ run'[p].pc = "clear"
        /\ run'[p].config = run[p].config
        /\ run'[p].terminal = run[p].terminal /\ run'[p].uncertain = run[p].uncertain
        /\ run'[p].clean =>
             \/ run[p].clean /\ run[p].config = "none"
             \/ outbound' = NoProcess /\ run[p].config # "attempted"
    <3>1. CASE run[p].config # "none" \/ ~run[p].clean
      <4>1. CASE /\ ProviderCleans
                 /\ RunBecomes(p, [run[p] EXCEPT !.pc = "clear",
                                                 !.clean = @ \/ run[p].config # "attempted"])
        <5>1. run[p].clean => run[p].config = "none"
          BY <2>1 DEF RunKnows
        <5> QED
          BY <1>a, <4>1, <5>1 DEF RunState, ProviderCleans
      <4>2. CASE RunBecomes(p, [run[p] EXCEPT !.pc = "clear", !.clean = FALSE])
        BY <1>a, <4>2 DEF RunState
      <4> QED
        BY <1>11, <3>1, <4>1, <4>2 DEF RunFinally, RunProviderCall
    <3>2. CASE ~(run[p].config # "none" \/ ~run[p].clean)
      BY <1>b, <1>11, <3>2 DEF RunFinally, FlagsKept
    <3> QED
      BY <3>1, <3>2
  <2> QED
    BY <2>1, <2>2, NoProcessAssumption DEF RunKnows, LeaseIssued
<1>12. CASE RunClear(p)
  <2>1. run[p].pc = "clear" /\ still
    BY <1>12 DEF RunClear, RunFrame, provider
  <2>2. run'[p].pc = "done" /\ FlagsKept(p)
    BY <1>b, <1>12 DEF RunClear
  <2> QED
    BY <2>1, <2>2 DEF RunKnows, LeaseIssued, FlagsKept
<1> QED
  BY <1>1, <1>2, <1>3, <1>4, <1>5, <1>6, <1>7, <1>8, <1>9, <1>10, <1>11, <1>12
     DEF RunStep, RunTimedStep

(* Nothing of a run arrives except through its own steps or the landing of *)
(* its own calls, and by then it is engaged.                               *)
LEMMA EnvironmentStep ==
    ASSUME TypeOK, [Next]_vars, ~(\E p \in Processes : RunStep(p)),
           NEW q \in Processes, RunKnows(q)
    PROVE  RunKnows(q)' /\ (Engaged(q)' => Engaged(q))
<1>1. CASE CreateStep
  <2>1. UNCHANGED run /\ ~LeaseIssued
    BY <1>1 DEF CreateStep, CreateReserve, CreateAnswered, CreateMarkReady, CreateCleanup,
                CreateReconcile, CreateRedestroy, CreateRemove, LeaseIssued
  <2>2. ProviderDestroys \/ UNCHANGED provider
    BY <1>1 DEF CreateStep, CreateReserve, CreateAnswered, CreateMarkReady, CreateCleanup,
                CreateReconcile, CreateRedestroy, CreateRemove, CreatorDestroys
  <2>3. UNCHANGED late \/ late' = late \cup {LateOp("cleanup", NoProcess)}
    BY <1>1 DEF CreateStep, CreateReserve, CreateAnswered, CreateMarkReady, CreateCleanup,
                CreateReconcile, CreateRedestroy, CreateRemove, CreatorDestroys
  <2>4. Retreats(q)
    BY <2>1, <2>2, <2>3, ProviderRetreats, LateOpInjective
  <2> QED
    BY <2>1, <2>4, RetreatKeepsRun
<1>2. CASE CreationSettles \/ ContainerWakes
  BY <1>2, RetreatKeepsRun DEF CreationSettles, ContainerWakes, callers, Retreats, LeaseIssued
<1>3. ASSUME NEW p \in Processes, ProcessExits(p)
      PROVE  RunKnows(q)' /\ (Engaged(q)' => Engaged(q))
  BY <1>3, ProviderRetreats, RetreatKeepsRun DEF ProcessExits, callers, LeaseIssued
<1>4. ASSUME NEW p \in Processes, StartLands(p)
      PROVE  RunKnows(q)' /\ (Engaged(q)' => Engaged(q))
  <2>1. /\ UNCHANGED <<late, run, creator, outbound>> /\ run[p].pc = "start"
        /\ \A r \in Processes \ {p} : process'[r] = process[r]
    BY <1>4 DEF StartLands, ProviderStarts, callers, TypeOK, ProviderTypeOK
  <2>2. CASE q # p
    BY <2>1, <2>2, RetreatKeepsRun DEF Retreats, LeaseIssued
  <2>3. CASE q = p
    BY <2>1, <2>3 DEF RunKnows, Engaged, LeaseIssued
  <2> QED
    BY <2>2, <2>3
<1>5. ASSUME NEW o \in LateOps, LateLands(o)
      PROVE  RunKnows(q)' /\ (Engaged(q)' => Engaged(q))
  <2>1. UNCHANGED <<creator, run>> /\ o \in late /\ late' = late \ {o}
    BY <1>5 DEF LateLands, callers
  <2>2. CASE ProviderCleans \/ ProviderDestroys \/ UNCHANGED provider
    BY <2>1, <2>2, ProviderRetreats, RetreatKeepsRun DEF LeaseIssued
  <2>3. ASSUME NEW p \in Processes, o = LateOp("start", p), ProviderStarts(p)
        PROVE  RunKnows(q)' /\ (Engaged(q)' => Engaged(q))
    <3>1. UNCHANGED outbound /\ \A r \in Processes \ {p} : process'[r] = process[r]
      BY <2>3 DEF ProviderStarts, TypeOK, ProviderTypeOK
    <3>2. CASE q # p
      BY <2>1, <3>1, <3>2, RetreatKeepsRun DEF Retreats, LeaseIssued
    <3>3. CASE q = p
      <4>1. LateOp("start", q) \in late
        BY <2>1, <2>3, <3>3
      <4>2. Engaged(q)
        BY <4>1 DEF Engaged, Holds
      <4>3. /\ LateOp("start", q) \notin late'
            /\ LateOp("configure", q) \in late' => LateOp("configure", q) \in late
        BY <2>1, <2>3, <3>3
      <4>4. RunKnows(q)'
        BY <2>1, <3>1, <4>1, <4>3 DEF RunKnows, LeaseIssued
      <4> QED
        BY <4>2, <4>4
    <3> QED
      BY <3>2, <3>3
  <2>4. ASSUME NEW p \in Processes, o = LateOp("configure", p), ProviderConfigures(p)
        PROVE  RunKnows(q)' /\ (Engaged(q)' => Engaged(q))
    <3>1. UNCHANGED process /\ outbound' \in {outbound, p}
      BY <2>4 DEF ProviderConfigures
    <3>2. CASE q # p
      BY <2>1, <3>1, <3>2, RetreatKeepsRun DEF Retreats, LeaseIssued
    <3>3. CASE q = p
      <4>1. LateOp("configure", q) \in late
        BY <2>1, <2>4, <3>3
      <4>2. Engaged(q)
        BY <4>1 DEF Engaged, Holds
      <4>3. /\ LateOp("start", q) \in late' => LateOp("start", q) \in late
            /\ LateOp("configure", q) \notin late'
        BY <2>1, <2>4, <3>3
      <4>4. RunKnows(q)'
        BY <2>1, <3>1, <4>1, <4>3 DEF RunKnows, LeaseIssued
      <4> QED
        BY <4>2, <4>4
    <3> QED
      BY <3>2, <3>3
  <2>5. \/ ProviderCleans \/ ProviderDestroys \/ UNCHANGED provider
        \/ o = LateOp("start", o.process) /\ o.process \in Processes
             /\ ProviderStarts(o.process)
        \/ o = LateOp("configure", o.process) /\ o.process \in Processes
             /\ ProviderConfigures(o.process)
    BY <1>5 DEF LateLands, LateOps, LateOp
  <2> QED
    BY <2>2, <2>3, <2>4, <2>5
<1>6. ASSUME NEW k \in Killers, KillRequest(k) \/ KillStep(k)
      PROVE  RunKnows(q)' /\ (Engaged(q)' => Engaged(q))
  <2>1. /\ UNCHANGED <<creator, run>>
        /\ UNCHANGED late \/ late' = late \cup {LateOp("stop", NoProcess)}
    BY <1>6 DEF KillRequest, KillStep, KillSignal, KillFinish, KillFrame, StopUnconfirmed
  <2>2. UNCHANGED provider \/ \E p \in Processes \cup {NoProcess} : ProviderStops(p)
    BY <1>6 DEF KillRequest, KillStep, KillSignal, KillFinish, StopUnconfirmed, TypeOK
  <2> QED
    BY <2>1, <2>2, ProviderRetreats, RetreatKeepsRun, LateOpInjective DEF LeaseIssued
<1>7. ASSUME NEW d \in Destroyers, DestroyBegin(d) \/ DestroyStep(d)
      PROVE  RunKnows(q)' /\ (Engaged(q)' => Engaged(q))
  <2>1. UNCHANGED <<creator, run>>
    BY <1>7 DEF DestroyBegin, DestroyStep, DestroyProvider, DestroyFinish, DestroyAbort,
                DestroyFrame
  <2>2. ProviderDestroys \/ UNCHANGED provider
    BY <1>7 DEF DestroyBegin, DestroyStep, DestroyProvider, DestroyFinish, DestroyAbort
  <2>3. UNCHANGED late \/ late' = late \cup {LateOp("destroy", NoProcess)}
    BY <1>7 DEF DestroyBegin, DestroyStep, DestroyProvider, DestroyFinish, DestroyAbort
  <2> QED
    BY <2>1, <2>2, <2>3, ProviderRetreats, RetreatKeepsRun, LateOpInjective
       DEF LeaseIssued
<1>8. ASSUME NEW f \in Files, FileAuthorize(f) \/ FileCall(f) \/ FileReturn(f)
      PROVE  RunKnows(q)' /\ (Engaged(q)' => Engaged(q))
  BY <1>8, ProviderRetreats, RetreatKeepsRun
     DEF FileAuthorize, FileCall, FileReturn, FileFrame, LeaseIssued
<1>9. CASE UNCHANGED vars
  BY <1>9, ProviderRetreats, RetreatKeepsRun DEF vars, callers, LeaseIssued
<1> QED
  BY <1>1, <1>2, <1>3, <1>4, <1>5, <1>6, <1>7, <1>8, <1>9 DEF Next, RunStep

(* An idle or a cleared run has nothing in the sandbox. *)
LEMMA IdleRunIsNotEngaged ==
    ASSUME NEW q \in Processes, RunKnows(q), run[q].pc = "idle"
    PROVE  ~Engaged(q)
BY DEF RunKnows, Engaged, Holds

(* A run becomes engaged only by the reservation it is granted, and is not *)
(* engaged any more when it gives the reservation back.                    *)
LEMMA OwnStepEngages ==
    ASSUME ~RejectedStartMayLand, TypeOK, NEW p \in Processes, RunStep(p), RunKnows(p)
    PROVE  /\ Engaged(p)' => Engaged(p) \/ BeginProcess(p)
           /\ RunClear(p) /\ ClearProcess(p) => ~Engaged(p)'
<1>a. \A pc : RunAt(p, pc) => run'[p].pc = pc /\ FlagsKept(p)
  BY DEF RunAt, RunBecomes, RunState, FlagsKept, TypeOK
<1>1. ASSUME Engaged(p)', ~Engaged(p) PROVE BeginProcess(p)
  <2>1. run[p].pc \in {"idle", "begin", "done"}
    BY <1>1 DEF Engaged
  <2>2. Execute(p) \/ RunBegin(p)
    BY <2>1 DEF RunStep, RunTimedStep, RunClean, RunConfigure, RunGetSession, RunStart, RunBind,
                RunSigterm, RunFinishKill, RunWait, RunTerminate, RunKillStart, RunFinally,
                RunClear
  <2>3. UNCHANGED <<process, outbound, late>>
    BY <2>2 DEF Execute, RunBegin, provider
  <2>4. CASE Execute(p)
    <3>1. run'[p].pc = "begin"
      BY <1>a, <2>4 DEF Execute
    <3> QED
      BY <1>1, <2>3, <3>1 DEF Engaged, Holds
  <2>5. CASE RunBegin(p)
    <3>1. CASE RunAt(p, "done")
      <4>1. run'[p].pc = "done"
        BY <1>a, <3>1
      <4> QED
        BY <1>1, <2>3, <4>1 DEF Engaged, Holds
    <3>2. CASE BeginProcess(p)
      BY <3>2
    <3> QED
      BY <2>5, <3>1, <3>2 DEF RunBegin, RegistryCall
  <2> QED
    BY <2>2, <2>4, <2>5
<1>2. ASSUME ClearProcess(p), RunClear(p) PROVE ~Engaged(p)'
  <2>0. lease' # lease
    BY <1>2, NoProcessAssumption
       DEF ClearProcess, CanClearProcess, WithoutProcess, TypeOK, LeaseTypeOK, LeaseRecord
  <2>1. run[p].terminal /\ run[p].clean /\ ~run[p].uncertain
    BY <1>2, <2>0 DEF RunClear
  <2>2. run'[p].pc = "done" /\ FlagsKept(p)
    BY <1>a, <1>2 DEF RunClear
  <2>3. RunKnows(p)'
    BY OwnStepKnows
  <2> QED
    BY <2>1, <2>2, <2>3 DEF RunKnows, Engaged, Holds, FlagsKept
<1> QED
  BY <1>1, <1>2

(* Every other transaction that leaves a lease open found it open, with    *)
(* the same process bound.                                                 *)
LEMMA CalmRecord ==
    ASSUME LeaseTypeOK, Open(lease'),
           \/ UNCHANGED lease
           \/ RequestKill \/ FinishKill
           \/ BeginDestroy \/ FinishDestroy \/ AbortDestroy
           \/ \E p \in Processes : MarkRunning(p)
    PROVE  Open(lease) /\ lease'.process_id = lease.process_id
<1> USE DEF LeaseTypeOK, LeaseRecord, ResumeStatuses, Open
<1>1. CASE UNCHANGED lease
  BY <1>1
<1>2. CASE RequestKill \/ FinishKill
  BY <1>2 DEF RequestKill, CanRequestKill, FinishKill, WithoutProcess
<1>3. CASE BeginDestroy
  BY <1>3 DEF BeginDestroy, CanBeginDestroy
<1>4. CASE FinishDestroy \/ AbortDestroy
  BY <1>4 DEF FinishDestroy, WithoutProcess, AbortDestroy, CanAbortDestroy
<1>5. ASSUME NEW p \in Processes, MarkRunning(p)
      PROVE  Open(lease) /\ lease'.process_id = lease.process_id
  BY <1>5 DEF MarkRunning, CanMarkRunning
<1> QED
  BY <1>1, <1>2, <1>3, <1>4, <1>5

LEMMA ExclusiveStep ==
    ASSUME ~RejectedStartMayLand, ExclusiveInv, [Next]_vars
    PROVE  RunInv'
<1> USE DEF ExclusiveInv
<1>a. TypeOK /\ LeaseTypeOK /\ \A q \in Processes : RunKnows(q)
  BY DEF RunInv, TypeOK
<1>b. ASSUME Open(lease), NEW q \in Processes, Engaged(q) PROVE lease.process_id = q
  BY <1>b DEF RunInv, EngagedRunIsBound
<1>1. CASE \E p \in Processes : RunStep(p)
  <2> PICK p \in Processes : RunStep(p)
    BY <1>1
  <2>1. ASSUME NEW q \in Processes \ {p}
        PROVE  RunKnows(q)' /\ (Engaged(q)' => Engaged(q))
    <3>1. UNCHANGED creator
      BY RunStepFrame DEF RunFrame
    <3> QED
      BY <1>a, <3>1, OtherRunsRetreat, RetreatKeepsRun DEF LeaseIssued
  <2>2. RunKnows(p)'
    BY <1>a, OwnStepKnows
  <2>3. ASSUME Open(lease'), NEW q \in Processes, Engaged(q)' PROVE lease'.process_id = q
    <3>1. CASE BeginProcess(p)
      <4>1. Open(lease) /\ lease.process_id = NoProcess /\ lease'.process_id = p
        BY <1>a, <3>1 DEF BeginProcess, CanBeginProcess, Open, LeaseTypeOK, LeaseRecord
      <4> QED
        BY <1>b, <2>1, <2>3, <4>1, NoProcessAssumption
    <3>2. CASE RunClear(p) /\ ClearProcess(p)
      <4>1. lease.process_id = p /\ Open(lease)
        BY <1>a, <2>3, <3>2
           DEF ClearProcess, CanClearProcess, WithoutProcess, Open, LeaseTypeOK, LeaseRecord,
               ResumeStatuses
      <4>2. ~Engaged(p)'
        BY <1>a, <3>2, OwnStepEngages
      <4> QED
        BY <1>b, <2>1, <2>3, <4>1, <4>2
    <3>3. CASE UNCHANGED lease \/ MarkRunning(p) \/ FinishKill
      <4>1. Open(lease) /\ lease'.process_id = lease.process_id
        BY <1>a, <2>3, <3>3, CalmRecord
      <4>2. ~BeginProcess(p)
        BY <1>a, <2>3, <3>3, NoProcessAssumption
           DEF BeginProcess, CanBeginProcess, MarkRunning, CanMarkRunning, FinishKill,
               CanFinishKill, WithoutProcess, LeaseTypeOK, LeaseRecord, Open
      <4> QED
        BY <1>a, <1>b, <2>1, <2>3, <4>1, <4>2, OwnStepEngages
    <3> QED
      BY <3>1, <3>2, <3>3, RunStepRecord
  <2> QED
    BY <2>1, <2>2, <2>3 DEF RunInv, EngagedRunIsBound
<1>2. CASE ~(\E p \in Processes : RunStep(p))
  <2>1. ASSUME NEW q \in Processes PROVE RunKnows(q)' /\ (Engaged(q)' => Engaged(q))
    BY <1>2, <1>a, EnvironmentStep
  <2>2. CASE CreateStep
    <3>1. ~LeaseIssued
      BY <2>2 DEF CreateStep, CreateReserve, CreateAnswered, CreateMarkReady, CreateCleanup,
                  CreateReconcile, CreateRedestroy, CreateRemove, LeaseIssued
    <3>2. \A q \in Processes : ~Engaged(q)
      BY <1>a, <3>1, IdleRunIsNotEngaged DEF RunKnows
    <3> QED
      BY <2>1, <3>2 DEF RunInv, EngagedRunIsBound
  <2>3. CASE ~CreateStep
    <3>1. \/ UNCHANGED lease \/ RequestKill \/ FinishKill
          \/ BeginDestroy \/ FinishDestroy \/ AbortDestroy
      BY <1>2, <2>3
         DEF Next, vars, RunStep, CreationSettles, ContainerWakes, ProcessExits, StartLands, LateLands,
             KillRequest, KillStep, KillSignal, KillFinish, DestroyBegin, DestroyStep,
             DestroyProvider, DestroyFinish, DestroyAbort, FileAuthorize, FileCall,
             FileReturn, FileFrame
    <3>2. Open(lease') => Open(lease) /\ lease'.process_id = lease.process_id
      BY <1>a, <3>1, CalmRecord
    <3> QED
      BY <1>b, <2>1, <3>2 DEF RunInv, EngagedRunIsBound
  <2> QED
    BY <2>2, <2>3
<1> QED
  BY <1>1, <1>2

LEMMA ExclusiveInit == Init => ExclusiveInv
<1>1. Init => EngagedRunIsBound /\ \A p \in Processes : RunKnows(p)
  BY NoProcessAssumption
     DEF Init, RegistryInit, Absent, EngagedRunIsBound, RunKnows, Open
<1> QED
  BY <1>1, InitTypeOK DEF ExclusiveInv, RunInv

(* While a lease is open, the sandbox holds nothing of any run but the one *)
(* its record names, and nothing of another run can still arrive there.    *)
THEOREM BackendExclusiveLease ==
    ASSUME ~RejectedStartMayLand
    PROVE  Spec => []ExclusiveLease
<1>1. ExclusiveInv /\ [Next]_vars => ExclusiveInv'
  BY ExclusiveStep, StepTypeOK DEF ExclusiveInv
<1>2. ExclusiveInv => ExclusiveLease
  BY DEF ExclusiveInv, RunInv, EngagedRunIsBound, ExclusiveLease, Engaged
<1> QED
  BY <1>1, <1>2, ExclusiveInit, PTL DEF Spec

-----------------------------------------------------------------------------
(* The refinement: the registry and the backend keep the promises of       *)
(* SandboxService.  A step changes the record or the processes, not both,  *)
(* so the two kinds of step are mapped apart.                              *)

Issued == LeaseIssued => lease.status \notin {"absent", "pending"}

ServiceInv == ExclusiveInv /\ RegistryInv /\ Issued

(* A lease that was handed out is never a reservation again. *)
LEMMA IssuedStep == TypeOK /\ Issued /\ [Next]_vars => Issued'
<1> SUFFICES ASSUME TypeOK, LeaseTypeOK, Issued, [Next]_vars, LeaseIssued'
             PROVE  lease'.status \notin {"absent", "pending"}
    BY DEF Issued, TypeOK
<1>1. CASE LeaseIssued
  <2>1. [RegistryNext]_lease
    BY BackendStepsRegistry
  <2>2. lease.status \notin {"absent", "pending"}
    BY <1>1 DEF Issued
  <2>3. CASE Reserve \/ Ready \/ Remove
    BY <2>2, <2>3 DEF Reserve, CanReserve, Ready, CanReady, Remove, CanRemove
  <2>4. CASE RequestKill \/ FinishKill \/ BeginDestroy \/ FinishDestroy \/ AbortDestroy
    BY <2>2, <2>4
       DEF RequestKill, FinishKill, BeginDestroy, FinishDestroy, AbortDestroy,
           CanAbortDestroy, WithoutProcess, LeaseTypeOK, LeaseRecord, ResumeStatuses
  <2>5. ASSUME NEW p \in Processes, BeginProcess(p) \/ MarkRunning(p) \/ ClearProcess(p)
        PROVE  lease'.status \notin {"absent", "pending"}
    BY <2>2, <2>5
       DEF BeginProcess, MarkRunning, ClearProcess, WithoutProcess, LeaseTypeOK, LeaseRecord
  <2> QED
    BY <2>1, <2>2, <2>3, <2>4, <2>5 DEF RegistryNext
<1>2. CASE ~LeaseIssued
  <2>1. creator' # creator
    BY <1>2 DEF LeaseIssued
  <2>2. CASE CreateStep
    <3> USE DEF LeaseIssued, CreatorAt, TypeOK
    <3>1. CASE CreateReserve \/ CreateAnswered \/ CreateReconcile
      BY <3>1 DEF CreateReserve, CreateAnswered, CreateReconcile
    <3>2. CASE CreateCleanup
      <4>1. CASE creator.timedOut
        BY <3>2, <4>1 DEF CreateCleanup, CreatorDestroys
      <4>2. CASE ~creator.timedOut
        BY <3>2, <4>2 DEF CreateCleanup, CreatorDestroys
      <4> QED
        BY <4>1, <4>2
    <3>3. CASE CreateRedestroy \/ CreateRemove
      BY <3>3 DEF CreateRedestroy, CreatorDestroys, CreateRemove, RegistryCall
    <3>4. CASE CreateMarkReady
      <4>1. Ready
        BY <3>4 DEF CreateMarkReady, RegistryCall
      <4> QED
        BY <4>1 DEF Ready, LeaseTypeOK, LeaseRecord
    <3> QED
      BY <2>2, <3>1, <3>2, <3>3, <3>4 DEF CreateStep
  <2>3. CASE ~CreateStep
    <3>1. \A p \in Processes : ~RunStep(p)
      BY <2>1, RunStepFrame DEF RunFrame
    <3> QED
      BY <2>1, <2>3, <3>1
         DEF Next, vars, callers, RunStep, CreationSettles, ContainerWakes, ProcessExits, StartLands,
             LateLands, KillRequest, KillStep, KillSignal, KillFinish, KillFrame,
             DestroyBegin, DestroyStep, DestroyProvider, DestroyFinish, DestroyAbort,
             DestroyFrame, FileAuthorize, FileCall, FileReturn, FileFrame
  <2> QED
    BY <2>2, <2>3
<1> QED
  BY <1>1, <1>2

LEMMA ServiceInvariant ==
    ASSUME ~RejectedStartMayLand
    PROVE  Spec => []ServiceInv
<1>1. Init => ServiceInv
  BY ExclusiveInit, RegistryInitInv
     DEF Init, ServiceInv, Issued, LeaseIssued
<1>2. ServiceInv /\ [Next]_vars => ServiceInv'
  BY ExclusiveStep, StepTypeOK, BackendStepsRegistry, RegistryStepInv, IssuedStep
     DEF ServiceInv, ExclusiveInv, RegistryInv
<1> QED
  BY <1>1, <1>2, PTL DEF Spec

(* The sandbox is empty when the holder of an open lease changes. *)
LEMMA HandoverIsClean ==
    ASSUME ~RejectedStartMayLand, ExclusiveInv, [Next]_vars, Open(lease), Open(lease'),
           lease'.process_id # lease.process_id
    PROVE  Inside = {}
<1>a. TypeOK /\ LeaseTypeOK /\ \A q \in Processes : RunKnows(q)
  BY DEF ExclusiveInv, RunInv, TypeOK
<1>b. ASSUME NEW q \in Processes, process[q] = "alive" PROVE lease.process_id = q
  BY <1>b DEF ExclusiveInv, RunInv, EngagedRunIsBound, Engaged, Holds
<1>1. PICK p \in Processes : RunStep(p)
  <2>1. SUFFICES ASSUME \A p \in Processes : ~RunStep(p) PROVE FALSE
    OBVIOUS
  <2>2. CASE CreateStep
    BY <1>a, <2>2
       DEF CreateStep, CreateReserve, CreateAnswered, CreateMarkReady, CreateCleanup,
           CreateReconcile, CreateRedestroy, CreateRemove, RegistryCall, Reserve, CanReserve,
           Ready, Remove, CanRemove, Open, LeaseTypeOK, LeaseRecord
  <2>3. CASE ~CreateStep
    <3>1. \/ UNCHANGED lease \/ RequestKill \/ FinishKill
          \/ BeginDestroy \/ FinishDestroy \/ AbortDestroy
      BY <2>1, <2>3
         DEF Next, vars, RunStep, CreationSettles, ContainerWakes, ProcessExits, StartLands, LateLands,
             KillRequest, KillStep, KillSignal, KillFinish, DestroyBegin, DestroyStep,
             DestroyProvider, DestroyFinish, DestroyAbort, FileAuthorize, FileCall,
             FileReturn, FileFrame
    <3> QED
      BY <1>a, <3>1, CalmRecord
  <2> QED
    BY <2>2, <2>3
<1>2. CASE BeginProcess(p)
  BY <1>b, <1>2, NoProcessAssumption DEF BeginProcess, CanBeginProcess, Inside
<1>3. CASE RunClear(p) /\ ClearProcess(p)
  <2>1. lease.process_id = p
    BY <1>3 DEF ClearProcess, CanClearProcess
  <2>2. ~Engaged(p)' /\ UNCHANGED process
    BY <1>a, <1>1, <1>3, OwnStepEngages DEF RunClear, provider
  <2> QED
    BY <1>b, <2>1, <2>2 DEF Engaged, Holds, Inside
<1>4. CASE UNCHANGED lease \/ MarkRunning(p) \/ FinishKill
  BY <1>a, <1>4, CalmRecord
<1> QED
  BY <1>1, <1>2, <1>3, <1>4, RunStepRecord

(* A registry transaction, seen from the service. *)
LEMMA RecordRefines ==
    ASSUME RegistryInv, [RegistryNext]_lease, UNCHANGED process,
           \/ Inside = {} \/ ~Open(lease) \/ ~Open(lease')
           \/ lease'.process_id = lease.process_id
    PROVE  [Service!Next]_Service!promise
<1> USE NoProcessAssumption
    DEF RegistryInv, LeaseTypeOK, LeaseRecord, ResumeStatuses, Phase, Open
<1>a. Inside' = Inside
  BY DEF Inside
<1>1. CASE UNCHANGED lease
  BY <1>a, <1>1 DEF Service!promise
<1>2. CASE Reserve \/ Remove
  <2>1. /\ lease.status \in {"absent", "pending"}
        /\ lease'.status \in {"absent", "pending"}
        /\ lease'.process_id = NoProcess /\ lease'.kill_requested = FALSE
    BY <1>2 DEF Reserve, CanReserve, Remove, CanRemove, Absent
  <2>2. lease.process_id = NoProcess /\ lease.kill_requested = FALSE
    BY <2>1 DEF RecordInv
  <2>3. Phase' = Phase
    BY <2>1
  <2> QED
    BY <1>a, <2>1, <2>2, <2>3 DEF Service!promise
<1>3. CASE Ready
  <2>1. Service!Issue
    BY <1>a, <1>3 DEF Ready, CanReady, Service!Issue
  <2> QED
    BY <2>1 DEF Service!Next
<1>4. CASE RequestKill
  <2>1. Service!Kill
    BY <1>a, <1>4 DEF RequestKill, CanRequestKill, Service!Kill
  <2> QED
    BY <2>1 DEF Service!Next
<1>5. CASE FinishKill
  <2>1. Service!Close
    BY <1>a, <1>5 DEF FinishKill, CanFinishKill, WithoutProcess, Service!Close
  <2> QED
    BY <2>1 DEF Service!Next
<1>6. CASE BeginDestroy \/ AbortDestroy
  BY <1>a, <1>6
     DEF BeginDestroy, CanBeginDestroy, AbortDestroy, CanAbortDestroy, RecordInv, Closed,
         Service!promise
<1>7. CASE FinishDestroy
  <2>1. CASE Open(lease)
    <3>1. Service!Close
      BY <1>a, <1>7, <2>1 DEF FinishDestroy, CanFinishDestroy, WithoutProcess, Service!Close
    <3> QED
      BY <3>1 DEF Service!Next
  <2>2. CASE ~Open(lease)
    BY <1>a, <1>7, <2>2
       DEF FinishDestroy, CanFinishDestroy, WithoutProcess, RecordInv, Closed, Service!promise
  <2> QED
    BY <2>1, <2>2
<1>8. ASSUME NEW p \in Processes, BeginProcess(p) PROVE [Service!Next]_Service!promise
  <2>1. ~lease.kill_requested
    BY <1>8 DEF BeginProcess, CanBeginProcess, RecordInv, KillHoldsLease, Closed
  <2>2. Service!Admit(p)
    BY <1>a, <1>8, <2>1 DEF BeginProcess, CanBeginProcess, Service!Admit
  <2> QED
    BY <2>2 DEF Service!Next
<1>9. ASSUME NEW p \in Processes, MarkRunning(p) PROVE [Service!Next]_Service!promise
  BY <1>a, <1>9 DEF MarkRunning, CanMarkRunning, Service!promise
<1>10. ASSUME NEW p \in Processes, ClearProcess(p) PROVE [Service!Next]_Service!promise
  <2>1. Open(lease)
    BY <1>10 DEF ClearProcess, CanClearProcess, RecordInv, Closed
  <2>2. CASE lease.kill_requested
    <3>1. Service!Close
      BY <1>a, <1>10, <2>1, <2>2 DEF ClearProcess, WithoutProcess, RecordInv, Service!Close
    <3> QED
      BY <3>1 DEF Service!Next
  <2>3. CASE ~lease.kill_requested
    <3>1. Service!Leave
      BY <1>a, <1>10, <2>1, <2>3
         DEF ClearProcess, CanClearProcess, WithoutProcess, Service!Leave
    <3> QED
      BY <3>1 DEF Service!Next
  <2> QED
    BY <2>2, <2>3
<1> QED
  BY <1>1, <1>2, <1>3, <1>4, <1>5, <1>6, <1>7, <1>8, <1>9, <1>10 DEF RegistryNext

(* What may happen in the sandbox, seen from the service: only a start     *)
(* under way, or one that was given up on, brings a process to life.       *)
LEMMA ProcessRefines ==
    ASSUME ServiceInv, [Next]_vars, UNCHANGED lease
    PROVE  [Service!Next]_Service!promise
<1>a. TypeOK /\ ProviderTypeOK /\ \A q \in Processes : RunKnows(q)
  BY DEF ServiceInv, ExclusiveInv, RunInv, TypeOK
<1>b. UNCHANGED <<Phase, lease.process_id, lease.kill_requested>>
  BY DEF Phase, Open
<1>1. ASSUME Inside' \subseteq Inside PROVE [Service!Next]_Service!promise
  <2>1. Service!Exit
    BY <1>1, <1>b DEF Service!Exit
  <2> QED
    BY <2>1 DEF Service!Next
<1>2. ASSUME NEW p \in Processes, ProviderStarts(p),
             run[p].pc = "start" \/ LateOp("start", p) \in late
      PROVE  [Service!Next]_Service!promise
  <2>1. CASE process'[p] # "alive" \/ process[p] = "alive"
    <3>1. Inside' \subseteq Inside
      BY <1>2, <1>a, <2>1 DEF ProviderStarts, ProviderTypeOK, Inside
    <3> QED
      BY <1>1, <3>1
  <2>2. CASE process'[p] = "alive" /\ process[p] # "alive"
    <3>1. Inside' = Inside \cup {p}
      BY <1>2, <1>a, <2>2 DEF ProviderStarts, ProviderTypeOK, Inside
    <3>2. Engaged(p) /\ LeaseIssued
      BY <1>2, <1>a DEF RunKnows, Engaged, Holds
    <3>3. Phase = "closed" \/ (Phase = "open" /\ lease.process_id = p)
      BY <3>2 DEF ServiceInv, ExclusiveInv, RunInv, EngagedRunIsBound, Issued, Phase
    <3>4. Service!Enter(p)
      BY <1>b, <3>1, <3>3 DEF Service!Enter
    <3> QED
      BY <3>4 DEF Service!Next
  <2> QED
    BY <2>1, <2>2
<1>c. /\ ProviderDestroys => Inside' \subseteq Inside
      /\ ProviderCleans => Inside' \subseteq Inside
      /\ \A p : (ProviderConfigures(p) \/ ProviderStops(p)) => Inside' \subseteq Inside
      /\ \A p : StopUnconfirmed(p) => Inside' \subseteq Inside
      /\ UNCHANGED process => Inside' \subseteq Inside
  BY <1>a
     DEF ProviderDestroys, ProviderCleans, ProviderConfigures, ProviderStops, StopUnconfirmed,
         ProviderTypeOK, Inside, provider
<1>3. CASE CreateStep
  BY <1>1, <1>3, <1>c
     DEF CreateStep, CreateReserve, CreateAnswered, CreateMarkReady, CreateCleanup,
         CreatorDestroys, CreateReconcile, CreateRedestroy, CreateRemove, provider
<1>4. CASE CreationSettles \/ ContainerWakes
  BY <1>1, <1>4, <1>c DEF CreationSettles, ContainerWakes
<1>5. ASSUME NEW p \in Processes, RunStep(p) PROVE Inside' \subseteq Inside
  BY <1>5, <1>c, RunStepFrame DEF provider
<1>6. ASSUME NEW p \in Processes, ProcessExits(p) \/ StartLands(p)
      PROVE  [Service!Next]_Service!promise
  BY <1>1, <1>2, <1>6, <1>c DEF ProcessExits, StartLands
<1>7. ASSUME NEW o \in LateOps, LateLands(o) PROVE [Service!Next]_Service!promise
  <2>1. CASE o.op = "start"
    <3>1. o.process \in Processes /\ o = LateOp("start", o.process)
      BY <2>1 DEF LateOps, LateOp
    <3> QED
      BY <1>2, <1>7, <2>1, <3>1 DEF LateLands
  <2>2. CASE o.op # "start"
    <3>1. \/ ProviderConfigures(o.process) \/ ProviderCleans \/ ProviderDestroys
          \/ UNCHANGED provider
      BY <1>7, <2>2 DEF LateLands, LateOps
    <3> QED
      BY <1>1, <1>c, <3>1 DEF provider
  <2> QED
    BY <2>1, <2>2
<1>8. ASSUME NEW k \in Killers, KillRequest(k) \/ KillStep(k) PROVE Inside' \subseteq Inside
  BY <1>8, <1>c DEF KillRequest, KillStep, KillSignal, KillFinish, provider
<1>9. ASSUME NEW d \in Destroyers, DestroyBegin(d) \/ DestroyStep(d)
      PROVE  Inside' \subseteq Inside
  BY <1>9, <1>c
     DEF DestroyBegin, DestroyStep, DestroyProvider, DestroyFinish, DestroyAbort, provider
<1>10. ASSUME NEW f \in Files, FileAuthorize(f) \/ FileCall(f) \/ FileReturn(f)
       PROVE  Inside' \subseteq Inside
  BY <1>10, <1>c DEF FileAuthorize, FileCall, FileReturn, FileFrame, provider
<1>11. CASE UNCHANGED vars
  BY <1>1, <1>11, <1>c DEF vars, provider
<1> QED
  BY <1>1, <1>3, <1>4, <1>5, <1>6, <1>7, <1>8, <1>9, <1>10, <1>11 DEF Next, RunStep

(* No step touches both the record and the processes. *)
LEMMA RecordStepIsQuiet == [Next]_vars => UNCHANGED lease \/ UNCHANGED process
<1> SUFFICES ASSUME [Next]_vars, lease' # lease PROVE UNCHANGED process
    OBVIOUS
<1>1. CASE CreateStep
  BY <1>1
     DEF CreateStep, CreateReserve, CreateAnswered, CreateMarkReady, CreateCleanup,
         CreateReconcile, CreateRedestroy, CreateRemove, provider
<1>2. ASSUME NEW p \in Processes, RunStep(p) PROVE UNCHANGED process
  <2>1. CASE RunBegin(p) \/ RunBind(p) \/ RunFinishKill(p) \/ RunClear(p)
    BY <2>1 DEF RunBegin, RunBind, RunFinishKill, RunClear, provider
  <2>2. CASE ~(RunBegin(p) \/ RunBind(p) \/ RunFinishKill(p) \/ RunClear(p))
    <3>1. Execute(p) \/ RunGetSession(p) \/ RunClean(p) \/ RunConfigure(p) \/ RunStart(p)
          \/ RunSigterm(p) \/ RunWait(p) \/ RunTerminate(p) \/ RunKillStart(p)
          \/ RunFinally(p)
      BY <1>2, <2>2 DEF RunStep, RunTimedStep
    <3>2. CASE Execute(p) \/ RunGetSession(p) \/ RunClean(p) \/ RunConfigure(p)
      BY <3>2 DEF Execute, RunGetSession, RunClean, RunConfigure
    <3>3. CASE RunStart(p) \/ RunSigterm(p) \/ RunWait(p)
      BY <3>3 DEF RunStart, RunSigterm, RunWait
    <3>4. CASE RunTerminate(p) \/ RunKillStart(p) \/ RunFinally(p)
      BY <3>4 DEF RunTerminate, RunKillStart, RunFinally
    <3> QED
      BY <3>1, <3>2, <3>3, <3>4
  <2> QED
    BY <2>1, <2>2
<1>3. ASSUME NEW k \in Killers, KillRequest(k) \/ KillStep(k) PROVE UNCHANGED process
  BY <1>3 DEF KillRequest, KillStep, KillSignal, KillFinish, provider
<1>4. ASSUME NEW d \in Destroyers, DestroyBegin(d) \/ DestroyStep(d) PROVE UNCHANGED process
  BY <1>4
     DEF DestroyBegin, DestroyStep, DestroyProvider, DestroyFinish, DestroyAbort, provider
<1> QED
  BY <1>1, <1>2, <1>3, <1>4
     DEF Next, vars, RunStep, CreationSettles, ContainerWakes, ProcessExits, StartLands, LateLands,
         FileAuthorize, FileCall, FileReturn, FileFrame

(* The registry and the backend together implement SandboxService: a lease *)
(* is opened once and closed for good, one process at a time has it, none  *)
(* is let in after a kill, and while it is open nothing is alive in its    *)
(* sandbox but its holder.                                                 *)
THEOREM BackendImplementsService ==
    ASSUME ~RejectedStartMayLand
    PROVE  Spec => ImplementsService
<1>1. Init => Service!Init
  <2> SUFFICES ASSUME Init PROVE Service!Init
      OBVIOUS
  <2>1. lease = Absent /\ \A p \in Processes : process[p] = "none"
    BY DEF Init, RegistryInit
  <2>2. Phase = "unissued"
    BY <2>1 DEF Absent, Phase, Open
  <2>3. Inside = {}
    BY <2>1 DEF Inside
  <2>4. lease.process_id = NoProcess /\ lease.kill_requested = FALSE
    BY <2>1 DEF Absent
  <2> QED
    BY <2>2, <2>3, <2>4 DEF Service!Init
<1>2. ServiceInv /\ [Next]_vars => [Service!Next]_Service!promise
  <2> SUFFICES ASSUME ServiceInv, [Next]_vars PROVE [Service!Next]_Service!promise
      OBVIOUS
  <2>1. CASE UNCHANGED lease
    BY <2>1, ProcessRefines
  <2>2. CASE lease' # lease
    <3>1. UNCHANGED process
      BY <2>2, RecordStepIsQuiet
    <3>2. \/ Inside = {} \/ ~Open(lease) \/ ~Open(lease')
          \/ lease'.process_id = lease.process_id
      BY HandoverIsClean DEF ServiceInv
    <3> QED
      BY <3>1, <3>2, BackendStepsRegistry, RecordRefines DEF ServiceInv
  <2> QED
    BY <2>1, <2>2
<1> QED
  BY <1>1, <1>2, ServiceInvariant, PTL DEF Spec, ImplementsService, Service!Spec

-----------------------------------------------------------------------------
(* What the code keeps where overlapping destroys, and authorizations that *)
(* went stale, make it break a promise.                                    *)

(* No two destroy calls are under way together. *)
DestroysApart ==
    \A d, e \in Destroyers :
        destroyer[d].pc # "idle" /\ destroyer[e].pc # "idle" => d = e

(* A destroy under way finds the record reserved for it, only the one that *)
(* reserved it gives it back, and none can after a destroy has timed out.  *)
ApartInv ==
    /\ \A d \in Destroyers :
         /\ destroyer[d].pc # "idle" => lease.status = "destroying"
         /\ destroyer[d].pc = "abort" => destroyer[d].fresh
    /\ LateOp("destroy", NoProcess) \in late =>
         /\ lease.status \in {"destroying", "destroyed"}
         /\ \A d \in Destroyers : destroyer[d].pc = "idle" \/ ~destroyer[d].fresh

(* A step of nobody's destroy leaves a record that is being destroyed, or  *)
(* is destroyed, in that status.                                           *)
Aside ==
    /\ UNCHANGED destroyer
    /\ lease.status \in {"destroying", "destroyed"} => lease'.status = lease.status
    /\ LateOp("destroy", NoProcess) \in late' => LateOp("destroy", NoProcess) \in late

LEMMA AsideKeepsApartInv ==
    ASSUME ApartInv, Aside
    PROVE  ApartInv'
BY DEF ApartInv, Aside

LEMMA RecordStaysAside ==
    ASSUME LeaseTypeOK,
           \/ UNCHANGED lease \/ Reserve \/ Ready \/ Remove \/ RequestKill \/ FinishKill
           \/ \E p \in Processes : BeginProcess(p) \/ MarkRunning(p) \/ ClearProcess(p),
           lease.status \in {"destroying", "destroyed"}
    PROVE  lease'.status = lease.status
<1> USE DEF LeaseTypeOK, LeaseRecord
<1>1. CASE UNCHANGED lease \/ Reserve \/ Ready \/ Remove
  BY <1>1 DEF Reserve, CanReserve, Ready, CanReady, Remove, CanRemove
<1>2. CASE RequestKill \/ FinishKill
  BY <1>2 DEF RequestKill, CanRequestKill, FinishKill, CanFinishKill
<1>3. ASSUME NEW p \in Processes, BeginProcess(p) \/ MarkRunning(p) \/ ClearProcess(p)
      PROVE  lease'.status = lease.status
  BY <1>3 DEF BeginProcess, CanBeginProcess, MarkRunning, CanMarkRunning, ClearProcess,
              WithoutProcess
<1> QED
  BY <1>1, <1>2, <1>3

LEMMA OthersStayAside ==
    ASSUME TypeOK, [Next]_vars,
           \A d \in Destroyers : ~DestroyBegin(d) /\ ~DestroyStep(d)
    PROVE  Aside
<1>0. LeaseTypeOK
  BY DEF TypeOK
<1> DEFINE lateKept == LateOp("destroy", NoProcess) \in late' => LateOp("destroy", NoProcess) \in late
<1>1. CASE CreateStep
  <2>1. UNCHANGED lease \/ Reserve \/ Ready \/ Remove
    BY <1>1
       DEF CreateStep, CreateReserve, CreateAnswered, CreateMarkReady, CreateCleanup,
           CreateReconcile, CreateRedestroy, CreateRemove, RegistryCall
  <2>2. UNCHANGED destroyer
    BY <1>1
       DEF CreateStep, CreateReserve, CreateAnswered, CreateMarkReady, CreateCleanup,
           CreateReconcile, CreateRedestroy, CreateRemove
  <2>3. UNCHANGED late \/ late' = late \cup {LateOp("cleanup", NoProcess)}
    BY <1>1
       DEF CreateStep, CreateReserve, CreateAnswered, CreateMarkReady, CreateCleanup,
           CreateReconcile, CreateRedestroy, CreateRemove, CreatorDestroys
  <2>4. lateKept
    BY <2>3, LateOpInjective
  <2> QED
    BY <1>0, <2>1, <2>2, <2>4, RecordStaysAside DEF Aside
<1>2. ASSUME NEW p \in Processes, RunStep(p) PROVE Aside
  <2>1. UNCHANGED destroyer
    BY <1>2, RunStepFrame DEF RunFrame
  <2>2. lateKept
    BY <1>2, RunStepFrame, LateOpInjective
  <2>3. UNCHANGED lease \/ FinishKill \/ BeginProcess(p) \/ MarkRunning(p) \/ ClearProcess(p)
    BY <1>2, RunStepRecord
  <2> QED
    BY <1>0, <2>1, <2>2, <2>3, RecordStaysAside DEF Aside
<1>3. ASSUME NEW k \in Killers, KillRequest(k) \/ KillStep(k) PROVE Aside
  <2>1. UNCHANGED lease \/ RequestKill \/ FinishKill
    BY <1>3 DEF KillRequest, KillStep, KillSignal, KillFinish
  <2>2. /\ UNCHANGED destroyer
        /\ UNCHANGED late \/ late' = late \cup {LateOp("stop", NoProcess)}
    BY <1>3 DEF KillRequest, KillStep, KillSignal, KillFinish, KillFrame, StopUnconfirmed
  <2>3. lateKept
    BY <2>2, LateOpInjective
  <2> QED
    BY <1>0, <2>1, <2>2, <2>3, RecordStaysAside DEF Aside
<1>4. ASSUME NEW o \in LateOps, LateLands(o) PROVE Aside
  BY <1>4 DEF LateLands, callers, Aside
<1>5. CASE \/ CreationSettles \/ UNCHANGED vars
           \/ ContainerWakes
           \/ \E p \in Processes : ProcessExits(p) \/ StartLands(p)
           \/ \E f \in Files : FileAuthorize(f) \/ FileCall(f) \/ FileReturn(f)
  BY <1>5
     DEF CreationSettles, ContainerWakes, ProcessExits, StartLands, FileAuthorize, FileCall, FileReturn,
         FileFrame, callers, vars, Aside
<1> QED
  BY <1>1, <1>2, <1>3, <1>4, <1>5 DEF Next, RunStep

LEMMA DestroysKeepApartInv ==
    ASSUME TypeOK, DestroysApart, ApartInv,
           NEW d \in Destroyers, DestroyBegin(d) \/ DestroyStep(d)
    PROVE  ApartInv'
<1>0. /\ LeaseTypeOK
      /\ \A e \in Destroyers : destroyer[e].pc # "idle" => lease.status = "destroying"
      /\ \A e \in Destroyers : destroyer[e].pc = "abort" => destroyer[e].fresh
  BY DEF TypeOK, ApartInv
<1>1. CASE DestroyBegin(d)
  <2>1. lease'.status = "destroying" /\ UNCHANGED late
    BY <1>1 DEF DestroyBegin, BeginDestroy, CanRecoverDestroy, TypeOK, LeaseTypeOK, LeaseRecord
  <2>2. \/ UNCHANGED destroyer
        \/ destroyer' = [destroyer EXCEPT ![d] = [pc |-> "provider", fresh |-> FALSE]]
        \/ /\ destroyer' = [destroyer EXCEPT ![d] = [pc |-> "provider", fresh |-> TRUE]]
           /\ lease.status \notin {"destroying", "destroyed"}
    BY <1>1 DEF DestroyBegin, BeginDestroy, CanBeginDestroy
  <2> QED
    BY <2>1, <2>2 DEF ApartInv, TypeOK
<1>2. CASE DestroyProvider(d)
  <2>1. destroyer[d].pc = "provider" /\ UNCHANGED lease /\ lease.status = "destroying"
    BY <1>0, <1>2 DEF DestroyProvider, DestroyFrame
  <2>2. \A e \in Destroyers \ {d} : destroyer[e].pc = "idle"
    BY <2>1 DEF DestroysApart
  <2>3. CASE UNCHANGED late
    <3>1. PICK pc \in {"finish", "abort", "idle"} :
             DestroyerAt(d, pc) /\ (pc = "abort" => destroyer[d].fresh)
      BY <1>2, <2>3 DEF DestroyProvider
    <3> QED
      BY <2>1, <2>2, <2>3, <3>1 DEF ApartInv, DestroyerAt, TypeOK
  <2>4. CASE DestroyerAt(d, "idle")
    BY <2>1, <2>2, <2>4 DEF ApartInv, DestroyerAt, TypeOK
  <2> QED
    BY <1>2, <2>3, <2>4 DEF DestroyProvider
<1>3. CASE DestroyFinish(d) \/ DestroyAbort(d)
  <2>1. destroyer[d].pc \in {"finish", "abort"} /\ UNCHANGED late /\ DestroyerAt(d, "idle")
    BY <1>3 DEF DestroyFinish, DestroyAbort
  <2>2. \A e \in Destroyers : destroyer'[e].pc = "idle"
    BY <2>1 DEF DestroysApart, DestroyerAt, TypeOK
  <2>3. LateOp("destroy", NoProcess) \in late => lease'.status \in {"destroying", "destroyed"}
    <3>1. CASE DestroyFinish(d)
      BY <3>1 DEF DestroyFinish, FinishDestroy, WithoutProcess, ApartInv, TypeOK, LeaseTypeOK,
                  LeaseRecord
    <3>2. CASE DestroyAbort(d)
      BY <3>2 DEF DestroyAbort, ApartInv
    <3> QED
      BY <1>3, <3>1, <3>2
  <2> QED
    BY <2>1, <2>2, <2>3 DEF ApartInv
<1> QED
  BY <1>1, <1>2, <1>3 DEF DestroyStep

(* As long as no two destroys overlap, a destroy that timed out keeps the  *)
(* lease closed for as long as it may still take effect, however often the *)
(* destroy is tried again: the overlap is all that TimedOutDestroyStays-   *)
(* Closed fails by.                                                        *)
THEOREM BackendApartDestroysStayClosed ==
    Spec /\ []DestroysApart => []TimedOutDestroyStaysClosed
<1>1. Init => ApartInv
  BY DEF Init, ApartInv
<1>2. TypeOK /\ DestroysApart /\ ApartInv /\ [Next]_vars => ApartInv'
  BY OthersStayAside, AsideKeepsApartInv, DestroysKeepApartInv
<1>3. ApartInv => TimedOutDestroyStaysClosed
  BY DEF ApartInv, TimedOutDestroyStaysClosed
<1> QED
  BY <1>1, <1>2, <1>3, BackendTypeOK, PTL DEF Spec

(* A closed lease for which no file call holds an authorization. *)
Quiesced == Closed(lease) /\ \A f \in Files : file[f] # "authorized"

(* Once a lease is closed, and the file calls that were authorized before  *)
(* that have been made, no file call reaches the provider again: stale     *)
(* authorizations are all by which a closed lease is still called.         *)
THEOREM BackendQuiescesForGood ==
    Spec => [][Quiesced =>
                 Quiesced' /\ \A f \in Files : file'[f] = "called" => file[f] = "called"]_vars
<1>1. ASSUME TypeOK, Quiesced, [Next]_vars, Closed(lease')
      PROVE  Quiesced' /\ \A f \in Files : file'[f] = "called" => file[f] = "called"
  <2>1. CASE UNCHANGED file
    BY <1>1, <2>1 DEF Quiesced
  <2>2. CASE file' # file
    <3>1. PICK g \in Files : FileAuthorize(g) \/ FileCall(g) \/ FileReturn(g)
      <4>1. CASE CreateStep
        BY <2>2, <4>1
           DEF CreateStep, CreateReserve, CreateAnswered, CreateMarkReady, CreateCleanup,
               CreateReconcile, CreateRedestroy, CreateRemove
      <4>2. ASSUME NEW p \in Processes, RunStep(p) PROVE FALSE
        BY <2>2, <4>2, RunStepFrame DEF RunFrame
      <4>3. ASSUME NEW k \in Killers, KillRequest(k) \/ KillStep(k) PROVE FALSE
        BY <2>2, <4>3 DEF KillRequest, KillStep, KillSignal, KillFinish, KillFrame
      <4>4. ASSUME NEW d \in Destroyers, DestroyBegin(d) \/ DestroyStep(d) PROVE FALSE
        BY <2>2, <4>4
           DEF DestroyBegin, DestroyStep, DestroyProvider, DestroyFinish, DestroyAbort,
               DestroyFrame
      <4> QED
        BY <1>1, <2>2, <4>1, <4>2, <4>3, <4>4
           DEF Next, RunStep, CreationSettles, ContainerWakes, ProcessExits, StartLands, LateLands, callers, vars
    <3>2. ~FileAuthorize(g) /\ ~FileCall(g)
      BY <1>1 DEF Quiesced, FileAuthorize, FileCall, Authorized, Closed
    <3>3. file' = [file EXCEPT ![g] = "idle"]
      BY <3>1, <3>2 DEF FileReturn
    <3> QED
      BY <1>1, <3>3 DEF Quiesced, TypeOK
  <2> QED
    BY <2>1, <2>2
<1>2. Spec => [][Closed(lease) => Closed(lease')]_lease
  BY BackendClosedForGood DEF ClosedForGood
<1>3. TypeOK /\ [Next]_vars /\ [Closed(lease) => Closed(lease')]_lease =>
        [Quiesced => Quiesced' /\ \A f \in Files : file'[f] = "called" => file[f] = "called"]_vars
  <2>1. ASSUME [Closed(lease) => Closed(lease')]_lease, Quiesced PROVE Closed(lease')
    BY <2>1 DEF Quiesced
  <2> QED
    BY <1>1, <2>1
<1> QED
  BY <1>2, <1>3, BackendTypeOK, PTL DEF Spec

-----------------------------------------------------------------------------
(* DownForGood: what it takes for a sandbox to be up under a record that   *)
(* was given up.                                                           *)

AtRest == GivenUp(lease) /\ sandbox = "gone" /\ ~Straggling

(* Only create makes a record of one that is not there.                    *)
LEMMA GivenUpStays ==
    ASSUME LeaseTypeOK, GivenUp(lease), [RegistryNext]_lease, ~Reserve
    PROVE  GivenUp(lease')
<1> USE DEF GivenUp, LeaseTypeOK, LeaseRecord
<1>1. CASE UNCHANGED lease
  BY <1>1
<1>2. CASE Ready \/ Remove
  BY <1>2 DEF Ready, CanReady, Remove, Absent
<1>3. CASE RequestKill \/ FinishKill
  BY <1>3 DEF RequestKill, CanRequestKill, FinishKill, CanFinishKill, WithoutProcess
<1>4. CASE BeginDestroy \/ FinishDestroy \/ AbortDestroy
  BY <1>4 DEF BeginDestroy, CanBeginDestroy, FinishDestroy, CanFinishDestroy, AbortDestroy,
              CanAbortDestroy
<1>5. ASSUME NEW p \in Processes, BeginProcess(p) \/ MarkRunning(p) \/ ClearProcess(p)
      PROVE  GivenUp(lease')
  BY <1>5 DEF BeginProcess, CanBeginProcess, MarkRunning, CanMarkRunning, ClearProcess,
              CanClearProcess, WithoutProcess
<1> QED
  BY <1>1, <1>2, <1>3, <1>4, <1>5 DEF RegistryNext

(* Once given up, down and with no straggler left, a sandbox stays down.   *)
THEOREM BackendDownForGood == Spec => DownForGood
<1>1. ASSUME TypeOK, LeaseTypeOK, AtRest, [Next]_vars
      PROVE  AtRest'
  <2> USE DEF AtRest, Straggling, CallUnderWay
  <2>a. lease.status \in {"absent", "destroyed"}
    BY <1>1 DEF GivenUp
  <2>b. /\ \A p \in Processes : run[p].pc \in {"idle", "begin", "done"}
        /\ \A k \in Killers : killer[k].pc # "signal"
        /\ \A f \in Files : file[f] = "idle"
        /\ \A o \in late : o.op \in {"destroy", "cleanup"}
        /\ creation # "inflight" /\ creator.pc # "reserve"
    BY <1>1 DEF TypeOK
  <2>1. ~Reserve => GivenUp(lease')
    BY <1>1, BackendStepsRegistry, GivenUpStays
  <2>2. CASE CreateStep
    <3>1. ~CreateReserve
      BY <2>b DEF CreateReserve
    <3>2. UNCHANGED <<run, killer, destroyer, file>>
      BY <2>2, <3>1
         DEF CreateStep, CreateAnswered, CreateMarkReady, CreateCleanup, CreateReconcile,
             CreateRedestroy, CreateRemove
    <3>3. creation' # "inflight" /\ creator'.pc # "reserve"
      <4>1. CASE CreateCleanup
        BY <1>1, <2>b, <4>1 DEF CreateCleanup, CreatorDestroys, CreatorAt, TypeOK
      <4>2. CASE ~CreateCleanup
        BY <1>1, <2>2, <2>b, <3>1, <4>2
           DEF CreateStep, CreateAnswered, CreateMarkReady, CreateReconcile, CreateRedestroy,
               CreatorDestroys, CreateRemove, CreatorAt, RegistryCall, TypeOK
      <4> QED
        BY <4>1, <4>2
    <3>4. sandbox' = "gone"
      BY <1>1, <2>2, <3>1
         DEF CreateStep, CreateAnswered, CreateMarkReady, CreateCleanup, CreateReconcile,
             CreateRedestroy, CreateRemove, CreatorDestroys, ProviderDestroys, provider
    <3>5. UNCHANGED late \/ late' = late \cup {LateOp("cleanup", NoProcess)}
      BY <2>2, <3>1
         DEF CreateStep, CreateAnswered, CreateMarkReady, CreateCleanup, CreateReconcile,
             CreateRedestroy, CreateRemove, CreatorDestroys
    <3>6. \A o \in late' : o.op \in {"destroy", "cleanup"}
      BY <2>b, <3>5 DEF LateOp
    <3>7. ~Reserve
      BY <1>1, <2>2, <3>1, <2>a
         DEF CreateStep, CreateAnswered, CreateMarkReady, CreateCleanup, CreateReconcile,
             CreateRedestroy, CreateRemove, RegistryCall, Reserve, CanReserve, Absent, Ready,
             CanReady, Remove, CanRemove, LeaseTypeOK, LeaseRecord
    <3> QED
      BY <2>1, <2>b, <3>2, <3>3, <3>4, <3>6, <3>7
  <2>3. ASSUME NEW p \in Processes, RunStep(p) PROVE AtRest'
    <3>1. Execute(p) \/ RunBegin(p)
      BY <2>b, <2>3
         DEF RunStep, RunTimedStep, RunClean, RunConfigure, RunGetSession, RunStart, RunBind,
             RunSigterm, RunFinishKill, RunWait, RunTerminate, RunKillStart, RunFinally, RunClear
    <3>2. ~BeginProcess(p)
      BY <2>a DEF BeginProcess, CanBeginProcess
    <3>3. UNCHANGED <<lease, provider, late>> /\ RunFrame
      BY <3>1, <3>2 DEF Execute, RunBegin, RegistryCall
    <3>4. RunAt(p, "begin") \/ RunAt(p, "done")
      BY <3>1, <3>2 DEF Execute, RunBegin, RegistryCall
    <3>5. \A q \in Processes : run'[q].pc \in {"idle", "begin", "done"}
      <4>1. run \in [Processes -> RunState]
        BY <1>1 DEF TypeOK
      <4>2. \A q \in Processes : q # p => run'[q] = run[q]
        BY <3>4, <4>1 DEF RunAt, RunBecomes
      <4>3. run'[p].pc \in {"begin", "done"}
        <5>1. ASSUME NEW pc \in {"begin", "done"}, RunAt(p, pc) PROVE run'[p].pc = pc
          <6>1. run' = [run EXCEPT ![p] = [run[p] EXCEPT !.pc = pc]]
            BY <5>1 DEF RunAt, RunBecomes
          <6>2. run'[p] = [run[p] EXCEPT !.pc = pc]
            BY <4>1, <6>1
          <6> QED
            BY <4>1, <6>2 DEF RunState
        <5> QED
          BY <3>4, <5>1
      <4> QED
        BY <2>b, <4>2, <4>3
    <3> QED
      BY <1>1, <2>b, <3>3, <3>5 DEF RunFrame, provider
  <2>4. ASSUME NEW o \in LateOps, LateLands(o) PROVE AtRest'
    <3>1. /\ ProviderDestroys
          /\ UNCHANGED <<lease, creation, callers>> /\ late' = late \ {o}
      BY <2>b, <2>4 DEF LateLands
    <3> QED
      BY <1>1, <2>b, <3>1 DEF ProviderDestroys, callers
  <2>5. ASSUME NEW k \in Killers, KillRequest(k) \/ KillStep(k) PROVE AtRest'
    <3>1. KillFinish(k)
      BY <2>a, <2>b, <2>5 DEF KillRequest, KillStep, KillSignal, RequestKill, CanRequestKill
    <3>2. \A j \in Killers : killer'[j].pc # "signal"
      BY <1>1, <2>b, <3>1 DEF KillFinish, KillIdle, TypeOK
    <3>3. ~Reserve
      BY <2>a, <3>1 DEF KillFinish, FinishKill, CanFinishKill, WithoutProcess, Reserve, Absent,
                        CanReserve, LeaseTypeOK, LeaseRecord
    <3> QED
      BY <1>1, <2>1, <2>b, <3>1, <3>2, <3>3 DEF KillFinish, KillFrame, provider
  <2>6. ASSUME NEW d \in Destroyers, DestroyBegin(d) \/ DestroyStep(d) PROVE AtRest'
    <3>1. UNCHANGED lease
      BY <1>1, <2>a, <2>6
         DEF DestroyBegin, DestroyStep, DestroyProvider, DestroyFinish, DestroyAbort,
             BeginDestroy, CanBeginDestroy, FinishDestroy, CanFinishDestroy, AbortDestroy,
             CanAbortDestroy, LeaseTypeOK, LeaseRecord
    <3>2. DestroyFrame /\ (UNCHANGED provider \/ ProviderDestroys)
      BY <2>6 DEF DestroyBegin, DestroyStep, DestroyProvider, DestroyFinish, DestroyAbort
    <3>3. UNCHANGED late \/ late' = late \cup {LateOp("destroy", NoProcess)}
      BY <2>6 DEF DestroyBegin, DestroyStep, DestroyProvider, DestroyFinish, DestroyAbort
    <3>4. \A o \in late' : o.op \in {"destroy", "cleanup"}
      BY <2>b, <3>3 DEF LateOp
    <3> QED
      BY <1>1, <2>b, <3>1, <3>2, <3>4 DEF DestroyFrame, ProviderDestroys, provider
  <2>7. CASE \/ CreationSettles \/ ContainerWakes
             \/ \E p \in Processes : StartLands(p)
             \/ \E f \in Files : FileAuthorize(f) \/ FileCall(f) \/ FileReturn(f)
    BY <1>1, <2>a, <2>b, <2>7
       DEF CreationSettles, ContainerWakes, StartLands, FileAuthorize, FileCall, FileReturn,
           Authorized
  <2>8. CASE UNCHANGED vars \/ \E p \in Processes : ProcessExits(p)
    BY <1>1, <2>8 DEF vars, ProcessExits, ProviderStops, callers, provider
  <2> QED
    BY <1>1, <2>2, <2>3, <2>4, <2>5, <2>6, <2>7, <2>8 DEF Next, RunStep
<1>2. TypeOK => LeaseTypeOK
  BY DEF TypeOK
<1>3. TypeOK /\ [Next]_vars =>
        [GivenUp(lease) /\ sandbox = "gone" /\ ~Straggling =>
           GivenUp(lease') /\ sandbox' = "gone" /\ ~Straggling']_vars
  <2> SUFFICES ASSUME TypeOK, [Next]_vars, AtRest
               PROVE  GivenUp(lease') /\ sandbox' = "gone" /\ ~Straggling'
    BY DEF AtRest
  <2>1. AtRest'
    BY <1>1, <1>2
  <2> QED
    BY <2>1 DEF AtRest, GivenUp
<1> QED
  BY <1>3, BackendTypeOK, PTL DEF Spec, DownForGood
=============================================================================
