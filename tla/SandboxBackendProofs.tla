------------------------ MODULE SandboxBackendProofs ------------------------
(***************************************************************************)
(* The backend's calls, however they interleave, fail or time out, drive   *)
(* the registry as its specification allows, so the lease keeps what       *)
(* LeaseRegistryProofs proves of it; and they keep the two promises about  *)
(* the provider: the lease is exclusive, and no sandbox is given up unless *)
(* a destroy of it was confirmed.                                          *)
(***************************************************************************)
EXTENDS SandboxBackend, LeaseRegistryProofs

(* Every step of the backend is a registry transaction or leaves the       *)
(* record alone.                                                           *)
LEMMA BackendStepsRegistry == [Next]_vars => [RegistryNext]_lease
<1> SUFFICES ASSUME [Next]_vars PROVE [RegistryNext]_lease
    OBVIOUS
<1> USE DEF RegistryNext
<1>1. CASE CreateStep
  BY <1>1 DEF CreateStep, CreateReserve, CreateAnswered, CreateMarkReady, CreateCleanup,
              CreateReconcile, CreateRedestroy, CreateRemove, RegistryCall
<1>2. CASE CreationSettles \/ ContainerWakes
  BY <1>2 DEF CreationSettles, ContainerWakes
<1>3. ASSUME NEW p \in Processes, Execute(p) \/ RunGetSession(p) \/ RunTimedStep(p)
      PROVE  [RegistryNext]_lease
  <2>1. CASE RunBegin(p) \/ RunBind(p) \/ RunFinishKill(p) \/ RunClear(p)
    BY <2>1 DEF RunBegin, RunBind, RunFinishKill, RunClear, RegistryCall
  <2>2. CASE ~(RunBegin(p) \/ RunBind(p) \/ RunFinishKill(p) \/ RunClear(p))
    BY <1>3, <2>2
       DEF Execute, RunGetSession, RunTimedStep, RunClean, RunConfigure, RunStart,
           RunSigterm, RunWait, RunTerminate, RunKillStart, RunFinally
  <2> QED
    BY <2>1, <2>2
<1>4. ASSUME NEW p \in Processes, ProcessExits(p) \/ StartLands(p)
      PROVE  [RegistryNext]_lease
  BY <1>4 DEF ProcessExits, StartLands
<1>5. ASSUME NEW o \in LateOps, LateLands(o) PROVE [RegistryNext]_lease
  BY <1>5 DEF LateLands
<1>6. ASSUME NEW k \in Killers, KillRequest(k) \/ KillStep(k) PROVE [RegistryNext]_lease
  BY <1>6 DEF KillRequest, KillStep, KillSignal, KillFinish
<1>7. ASSUME NEW d \in Destroyers, DestroyBegin(d) \/ DestroyStep(d)
      PROVE  [RegistryNext]_lease
  BY <1>7 DEF DestroyBegin, DestroyStep, DestroyProvider, DestroyFinish, DestroyAbort
<1>8. ASSUME NEW f \in Files, FileAuthorize(f) \/ FileCall(f) \/ FileReturn(f)
      PROVE  [RegistryNext]_lease
  BY <1>8 DEF FileAuthorize, FileCall, FileReturn, FileFrame
<1>9. CASE UNCHANGED vars
  BY <1>9 DEF vars
<1> QED
  BY <1>1, <1>2, <1>3, <1>4, <1>5, <1>6, <1>7, <1>8, <1>9 DEF Next

(* The backend implements the registry's specification: its concurrent     *)
(* callers are among the requesters the registry is proved against.        *)
THEOREM BackendImplementsRegistry == Spec => RegistrySpec
<1>1. Init => RegistryInit
  BY DEF Init
<1> QED
  BY <1>1, BackendStepsRegistry, PTL DEF Spec, RegistrySpec

(* With the backend's calls: an accepted kill keeps its process bound      *)
(* until the lease is closed.                                              *)
THEOREM BackendKillHoldsLease == Spec => []KillHoldsLease
BY BackendImplementsRegistry, RegistryKillHoldsLease, PTL

(* With the backend's calls: no process is admitted after a kill.          *)
THEOREM BackendNoAdmissionAfterKill == Spec => NoAdmissionAfterKill
BY BackendImplementsRegistry, RegistryNoAdmissionAfterKill

(* With the backend's calls: a closed lease stays closed.                  *)
THEOREM BackendClosedForGood == Spec => ClosedForGood
BY BackendImplementsRegistry, RegistryClosedForGood

-----------------------------------------------------------------------------
(* Type correctness                                                        *)

LEMMA InitTypeOK == Init => TypeOK
BY NoProcessAssumption
   DEF Init, TypeOK, ProviderTypeOK, RegistryInit, Absent, LeaseTypeOK,
       LeaseRecord, ResumeStatuses, RunState, RunPoints

(* The calls that may be left in flight are known ones. *)
LEMMA LateOpTypes ==
    /\ \A p \in Processes :
         LateOp("start", p) \in LateOps /\ LateOp("configure", p) \in LateOps
    /\ LateOp("clean", NoProcess) \in LateOps
    /\ LateOp("stop", NoProcess) \in LateOps
    /\ LateOp("destroy", NoProcess) \in LateOps
    /\ LateOp("cleanup", NoProcess) \in LateOps
BY DEF LateOp, LateOps

(* Every effect at the provider is well typed. *)
LEMMA ProviderTypes ==
    ASSUME ProviderTypeOK
    PROVE  /\ ProviderDestroys => ProviderTypeOK'
           /\ ProviderCleans => ProviderTypeOK'
           /\ \A p \in Processes :
                (ProviderConfigures(p) \/ ProviderStarts(p)) => ProviderTypeOK'
           /\ \A p : ProviderStops(p) => ProviderTypeOK'
           /\ UNCHANGED provider => ProviderTypeOK'
<1> USE DEF ProviderTypeOK
<1>1. ProviderDestroys => ProviderTypeOK'
  BY DEF ProviderDestroys
<1>2. ProviderCleans => ProviderTypeOK'
  BY DEF ProviderCleans
<1>3. ASSUME NEW p \in Processes, ProviderConfigures(p) \/ ProviderStarts(p)
      PROVE  ProviderTypeOK'
  BY <1>3 DEF ProviderConfigures, ProviderStarts, Up
<1>4. ASSUME NEW p, ProviderStops(p) PROVE ProviderTypeOK'
  BY <1>4 DEF ProviderStops
<1>5. UNCHANGED provider => ProviderTypeOK'
  BY DEF provider
<1> QED
  BY <1>1, <1>2, <1>3, <1>4, <1>5

RunStep(p) == Execute(p) \/ RunGetSession(p) \/ RunTimedStep(p)

(* What a step of a run can do outside its own state. *)
LEMMA RunStepFrame ==
    ASSUME NEW p \in Processes, RunStep(p)
    PROVE  /\ RunFrame
           /\ \/ UNCHANGED provider
              \/ ProviderCleans
              \/ ProviderConfigures(p)
              \/ ProviderStops(p)
           /\ \/ UNCHANGED late
              \/ late' = late \cup {LateOp("clean", NoProcess)}
              \/ late' = late \cup {LateOp("stop", NoProcess)}
              \/ late' = late \cup {LateOp("configure", p)}
              \/ late' = late \cup {LateOp("start", p)}
<1> USE DEF RunStep, RunTimedStep
<1>1. CASE Execute(p) \/ RunGetSession(p)
  BY <1>1 DEF Execute, RunGetSession
<1>2. CASE RunBegin(p) \/ RunBind(p) \/ RunFinishKill(p)
  BY <1>2 DEF RunBegin, RunBind, RunFinishKill
<1>3. CASE RunClean(p) \/ RunConfigure(p)
  BY <1>3 DEF RunClean, RunConfigure, RunProviderCall
<1>4. CASE RunStart(p) \/ RunSigterm(p) \/ RunWait(p)
  BY <1>4 DEF RunStart, RunSigterm, RunWait, StopUnconfirmed
<1>5. CASE RunTerminate(p) \/ RunKillStart(p) \/ RunClear(p)
  BY <1>5 DEF RunTerminate, RunKillStart, RunClear, StopUnconfirmed
<1>6. CASE RunFinally(p)
  <2>1. CASE run[p].config # "none" \/ ~run[p].clean
    BY <1>6, <2>1 DEF RunFinally, RunProviderCall
  <2>2. CASE ~(run[p].config # "none" \/ ~run[p].clean)
    BY <1>6, <2>2 DEF RunFinally
  <2> QED
    BY <2>1, <2>2
<1> QED
  BY <1>1, <1>2, <1>3, <1>4, <1>5, <1>6

(* The successor states a run's steps write are run states. *)
LEMMA RunStateUpdates ==
    ASSUME NEW s \in RunState, NEW pc \in RunPoints, NEW b \in BOOLEAN, NEW c \in BOOLEAN
    PROVE  /\ [s EXCEPT !.pc = pc] \in RunState
           /\ [s EXCEPT !.pc = pc, !.clean = b] \in RunState
           /\ [s EXCEPT !.pc = pc, !.terminal = b] \in RunState
           /\ [s EXCEPT !.pc = pc, !.uncertain = b] \in RunState
           /\ [s EXCEPT !.pc = pc, !.terminal = b, !.clean = c] \in RunState
           /\ [s EXCEPT !.pc = pc, !.config = "attempted"] \in RunState
           /\ [s EXCEPT !.pc = pc, !.config = "confirmed"] \in RunState
BY DEF RunState

LEMMA RunBecomesTypes ==
    ASSUME run \in [Processes -> RunState], NEW p \in Processes, NEW r \in RunState,
           RunBecomes(p, r)
    PROVE  /\ run' \in [Processes -> RunState]
           /\ run'[p] = r
           /\ \A q \in Processes \ {p} : run'[q] = run[q]
BY DEF RunBecomes

(* A step of run p writes a run state, and only its own. *)
LEMMA RunStepBecomes ==
    ASSUME run \in [Processes -> RunState], NEW p \in Processes, RunStep(p)
    PROVE  \E r \in RunState : RunBecomes(p, r)
<1> USE RunStateUpdates DEF RunStep, RunTimedStep, RunAt, RunFailsBeforeStart, RunPoints
<1>0. run[p] \in RunState
  OBVIOUS
<1>1. CASE Execute(p)
  BY <1>0, <1>1 DEF Execute
<1>2. CASE RunBegin(p)
  BY <1>0, <1>2 DEF RunBegin, RegistryCall
<1>3. CASE RunBind(p)
  BY <1>0, <1>3 DEF RunBind, RegistryCall
<1>4. CASE RunFinishKill(p)
  BY <1>0, <1>4 DEF RunFinishKill, RegistryCall
<1>5. CASE RunClean(p)
  BY <1>0, <1>5 DEF RunClean, RunProviderCall
<1>6. CASE RunConfigure(p)
  BY <1>0, <1>6 DEF RunConfigure, RunProviderCall
<1>7. CASE RunGetSession(p)
  <2>1. run[p].clean \in BOOLEAN
    BY <1>0 DEF RunState
  <2>2. CASE RunAt(p, "start")
    BY <1>0, <2>2
  <2>3. CASE RunFailsBeforeStart(p, run[p].clean)
    BY <1>0, <2>1, <2>3
  <2> QED
    BY <1>7, <2>2, <2>3 DEF RunGetSession
<1>8. CASE RunStart(p)
  BY <1>0, <1>8 DEF RunStart
<1>9. CASE RunSigterm(p)
  BY <1>0, <1>9 DEF RunSigterm
<1>10. CASE RunWait(p)
  BY <1>0, <1>10 DEF RunWait
<1>11. CASE RunTerminate(p)
  BY <1>0, <1>11 DEF RunTerminate
<1>12. CASE RunKillStart(p)
  BY <1>0, <1>12 DEF RunKillStart
<1>13. CASE RunFinally(p)
  BY <1>0, <1>13 DEF RunFinally, RunProviderCall
<1>14. CASE RunClear(p)
  BY <1>0, <1>14 DEF RunClear
<1> QED
  BY <1>1, <1>2, <1>3, <1>4, <1>5, <1>6, <1>7, <1>8, <1>9, <1>10, <1>11, <1>12, <1>13,
     <1>14

(* The state of a run stays well typed, that of the others as it is. *)
LEMMA RunStepTypes ==
    ASSUME run \in [Processes -> RunState], NEW p \in Processes, RunStep(p)
    PROVE  /\ run' \in [Processes -> RunState]
           /\ \A q \in Processes \ {p} : run'[q] = run[q]
BY RunStepBecomes, RunBecomesTypes

(* Every step keeps the state well typed. *)
LEMMA StepTypeOK == TypeOK /\ [Next]_vars => TypeOK'
<1> SUFFICES ASSUME TypeOK, [Next]_vars PROVE TypeOK'
    OBVIOUS
<1> USE DEF TypeOK
<1>1. LeaseTypeOK'
  BY BackendStepsRegistry, RegistryTypeStep
<1>2. CASE CreateStep
  <2> USE <1>1, ProviderTypes, LateOpTypes
  <2>1. CASE CreateReserve
    BY <2>1 DEF CreateReserve, CreatorAt
  <2>2. CASE CreateAnswered
    BY <2>2 DEF CreateAnswered, CreatorAt
  <2>3. CASE CreateMarkReady
    BY <2>3 DEF CreateMarkReady, CreatorAt, RegistryCall
  <2>4. CASE CreateCleanup
    BY <2>4 DEF CreateCleanup, CreatorDestroys, CreatorAt
  <2>5. CASE CreateReconcile
    BY <2>5 DEF CreateReconcile, CreatorAt
  <2>6. CASE CreateRedestroy
    BY <2>6 DEF CreateRedestroy, CreatorDestroys, CreatorAt
  <2>7. CASE CreateRemove
    BY <2>7 DEF CreateRemove, CreatorAt, RegistryCall
  <2> QED
    BY <1>2, <2>1, <2>2, <2>3, <2>4, <2>5, <2>6, <2>7 DEF CreateStep
<1>3. CASE CreationSettles \/ ContainerWakes
  BY <1>1, <1>3 DEF CreationSettles, ContainerWakes, ProviderTypeOK, callers
<1>4. ASSUME NEW p \in Processes, Execute(p) \/ RunGetSession(p) \/ RunTimedStep(p)
      PROVE  TypeOK'
  BY <1>1, <1>4, RunStepFrame, RunStepTypes, ProviderTypes, LateOpTypes
     DEF RunStep, RunFrame
<1>5. ASSUME NEW p \in Processes, ProcessExits(p) \/ StartLands(p) PROVE TypeOK'
  <2>1. CASE ProcessExits(p)
    BY <1>1, <2>1, ProviderTypes DEF ProcessExits, callers
  <2>2. CASE StartLands(p)
    BY <1>1, <2>2, ProviderTypes DEF StartLands, callers
  <2> QED
    BY <1>5, <2>1, <2>2
<1>6. ASSUME NEW o \in LateOps, LateLands(o) PROVE TypeOK'
  <2>1. /\ UNCHANGED <<creation, callers>>
        /\ late' \subseteq LateOps
    BY <1>6 DEF LateLands
  <2>2. ProviderTypeOK'
    <3>1. o.op \in {"start", "configure"} => o.process \in Processes
      BY DEF LateOps
    <3>2. \/ o.op = "start" /\ ProviderStarts(o.process)
          \/ o.op = "configure" /\ ProviderConfigures(o.process)
          \/ ProviderCleans
          \/ ProviderDestroys
          \/ UNCHANGED provider
      BY <1>6 DEF LateLands, LateOps
    <3> QED
      BY <3>1, <3>2, ProviderTypes
  <2> QED
    BY <1>1, <2>1, <2>2 DEF callers
<1>7. ASSUME NEW k \in Killers, KillRequest(k) \/ KillStep(k) PROVE TypeOK'
  BY <1>1, <1>7, ProviderTypes, LateOpTypes
     DEF KillRequest, KillStep, KillSignal, KillFinish, KillFrame, KillIdle, StopUnconfirmed,
         LeaseTypeOK, LeaseRecord
<1>8. ASSUME NEW d \in Destroyers, DestroyBegin(d) \/ DestroyStep(d) PROVE TypeOK'
  <2> USE <1>1, ProviderTypes, LateOpTypes DEF DestroyFrame, DestroyerAt
  <2>1. CASE DestroyBegin(d)
    <3>1. \E b \in BOOLEAN :
             \/ UNCHANGED destroyer
             \/ destroyer' = [destroyer EXCEPT ![d] = [pc |-> "provider", fresh |-> b]]
      BY <2>1 DEF DestroyBegin
    <3>2. destroyer' \in [Destroyers -> [pc : {"idle", "provider", "finish", "abort"},
                                        fresh : BOOLEAN]]
      <4>1. PICK b \in BOOLEAN :
               \/ UNCHANGED destroyer
               \/ destroyer' = [destroyer EXCEPT ![d] = [pc |-> "provider", fresh |-> b]]
        BY <3>1
      <4>2. [pc |-> "provider", fresh |-> b] \in
               [pc : {"idle", "provider", "finish", "abort"}, fresh : BOOLEAN]
        OBVIOUS
      <4> QED
        BY ONLY TypeOK, <4>1, <4>2 DEF TypeOK
    <3>3. UNCHANGED <<provider, late, creation, creator, run, killer, file>>
      BY <2>1 DEF DestroyBegin
    <3> QED
      BY <3>2, <3>3
  <2>2. CASE DestroyProvider(d)
    <3>1. /\ destroyer' \in [Destroyers -> [pc : {"idle", "provider", "finish", "abort"},
                                           fresh : BOOLEAN]]
          /\ late' \subseteq LateOps
      BY <2>2 DEF DestroyProvider
    <3>2. ProviderTypeOK'
      BY <2>2 DEF DestroyProvider
    <3> QED
      BY <2>2, <3>1, <3>2 DEF DestroyProvider
  <2>3. CASE DestroyFinish(d)
    BY <2>3 DEF DestroyFinish
  <2>4. CASE DestroyAbort(d)
    BY <2>4 DEF DestroyAbort
  <2> QED
    BY <1>8, <2>1, <2>2, <2>3, <2>4 DEF DestroyStep
<1>9. ASSUME NEW f \in Files, FileAuthorize(f) \/ FileCall(f) \/ FileReturn(f)
      PROVE  TypeOK'
  BY <1>1, <1>9, ProviderTypes DEF FileAuthorize, FileCall, FileReturn, FileFrame
<1>10. CASE UNCHANGED vars
  BY <1>1, <1>10, ProviderTypes DEF vars, callers
<1> QED
  BY <1>2, <1>3, <1>4, <1>5, <1>6, <1>7, <1>8, <1>9, <1>10 DEF Next

(* Type correctness of the backend. *)
THEOREM BackendTypeOK == Spec => []TypeOK
BY InitTypeOK, StepTypeOK, PTL DEF Spec
=============================================================================
