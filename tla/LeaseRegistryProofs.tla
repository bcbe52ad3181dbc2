------------------------ MODULE LeaseRegistryProofs ------------------------
(***************************************************************************)
(* What the lease registry guarantees whatever requests reach it, for any  *)
(* set of process ids.  RegistryInv is inductive: LeaseTypeOK supplies the *)
(* ranges, RecordInv what the record holds in each status.                 *)
(***************************************************************************)
EXTENDS LeaseRegistry, TLAPS

RegistryInv == LeaseTypeOK /\ RecordInv

(* The empty record satisfies the invariant. *)
LEMMA RegistryInitInv == RegistryInit => RegistryInv
BY NoProcessAssumption
   DEF RegistryInit, RegistryInv, LeaseTypeOK, RecordInv, KillHoldsLease, Closed,
       LeaseRecord, ResumeStatuses, Absent

(* Every transaction keeps the record well formed. *)
LEMMA RegistryTypeStep == LeaseTypeOK /\ [RegistryNext]_lease => LeaseTypeOK'
<1> SUFFICES ASSUME LeaseTypeOK, [RegistryNext]_lease PROVE LeaseTypeOK'
    OBVIOUS
<1> USE DEF LeaseTypeOK, LeaseRecord, ResumeStatuses
<1>1. CASE Reserve
  BY <1>1 DEF Reserve, Absent
<1>2. CASE Ready
  BY <1>2 DEF Ready
<1>3. CASE Remove
  BY <1>3 DEF Remove, Absent
<1>4. CASE RequestKill
  BY <1>4 DEF RequestKill
<1>5. CASE FinishKill
  BY <1>5 DEF FinishKill, WithoutProcess
<1>6. CASE BeginDestroy
  BY <1>6 DEF BeginDestroy, CanBeginDestroy
<1>7. CASE FinishDestroy
  BY <1>7 DEF FinishDestroy, WithoutProcess
<1>8. CASE AbortDestroy
  BY <1>8 DEF AbortDestroy, CanAbortDestroy
<1>9. ASSUME NEW p \in Processes, BeginProcess(p) PROVE LeaseTypeOK'
  BY <1>9 DEF BeginProcess
<1>10. ASSUME NEW p \in Processes, MarkRunning(p) PROVE LeaseTypeOK'
  BY <1>10 DEF MarkRunning
<1>11. ASSUME NEW p \in Processes, ClearProcess(p) PROVE LeaseTypeOK'
  BY <1>11 DEF ClearProcess, WithoutProcess
<1>12. CASE UNCHANGED lease
  BY <1>12
<1> QED
  BY <1>1, <1>2, <1>3, <1>4, <1>5, <1>6, <1>7, <1>8, <1>9, <1>10, <1>11, <1>12
     DEF RegistryNext

(* Every transaction keeps what the record holds in each status. *)
LEMMA RegistryRecordStep == RegistryInv /\ [RegistryNext]_lease => RecordInv'
<1> SUFFICES ASSUME RegistryInv, [RegistryNext]_lease PROVE RecordInv'
    OBVIOUS
<1> USE NoProcessAssumption
    DEF RegistryInv, LeaseTypeOK, LeaseRecord, ResumeStatuses, RecordInv, KillHoldsLease,
        Closed
<1>1. CASE Reserve
  BY <1>1 DEF Reserve, CanReserve, Absent
<1>2. CASE Ready
  BY <1>2 DEF Ready, CanReady
<1>3. CASE Remove
  BY <1>3 DEF Remove, CanRemove, Absent
<1>4. CASE RequestKill
  BY <1>4 DEF RequestKill, CanRequestKill
<1>5. CASE FinishKill
  BY <1>5 DEF FinishKill, CanFinishKill, WithoutProcess
<1>6. CASE BeginDestroy
  BY <1>6 DEF BeginDestroy, CanBeginDestroy
<1>7. CASE FinishDestroy
  BY <1>7 DEF FinishDestroy, CanFinishDestroy, WithoutProcess
<1>8. CASE AbortDestroy
  BY <1>8 DEF AbortDestroy, CanAbortDestroy
<1>9. ASSUME NEW p \in Processes, BeginProcess(p) PROVE RecordInv'
  BY <1>9 DEF BeginProcess, CanBeginProcess
<1>10. ASSUME NEW p \in Processes, MarkRunning(p) PROVE RecordInv'
  BY <1>10 DEF MarkRunning, CanMarkRunning
<1>11. ASSUME NEW p \in Processes, ClearProcess(p) PROVE RecordInv'
  BY <1>11 DEF ClearProcess, CanClearProcess, WithoutProcess
<1>12. CASE UNCHANGED lease
  BY <1>12
<1> QED
  BY <1>1, <1>2, <1>3, <1>4, <1>5, <1>6, <1>7, <1>8, <1>9, <1>10, <1>11, <1>12
     DEF RegistryNext

(* RegistryInv is inductive. *)
LEMMA RegistryStepInv == RegistryInv /\ [RegistryNext]_lease => RegistryInv'
BY RegistryTypeStep, RegistryRecordStep DEF RegistryInv

(* RegistryInv holds in every history of requests.                         *)
LEMMA RegistryAlwaysInv == RegistrySpec => []RegistryInv
BY RegistryInitInv, RegistryStepInv, PTL DEF RegistrySpec

(* The record is well formed and keeps what each status says it holds, in  *)
(* every history of requests.                                              *)
THEOREM RegistryInvariant == RegistrySpec => [](LeaseTypeOK /\ RecordInv)
<1>1. RegistryInv => LeaseTypeOK /\ RecordInv
  BY DEF RegistryInv
<1> QED
  BY <1>1, RegistryAlwaysInv, PTL

(* An accepted kill keeps its process bound until the lease is closed.     *)
THEOREM RegistryKillHoldsLease == RegistrySpec => []KillHoldsLease
<1>1. RegistryInv => KillHoldsLease
  BY DEF RegistryInv, RecordInv
<1> QED
  BY <1>1, RegistryAlwaysInv, PTL

(* One transaction after an accepted kill admits no process.               *)
LEMMA AdmissionStep ==
    RegistryInv /\ [RegistryNext]_lease =>
        (lease.kill_requested => lease'.process_id \in {lease.process_id, NoProcess})
<1> SUFFICES ASSUME RegistryInv, [RegistryNext]_lease, lease.kill_requested
             PROVE  lease'.process_id \in {lease.process_id, NoProcess}
    OBVIOUS
<1> USE DEF RegistryInv, LeaseTypeOK, LeaseRecord
<1>1. CASE Reserve \/ Remove
  BY <1>1 DEF Reserve, Remove, Absent
<1>2. CASE Ready \/ RequestKill \/ BeginDestroy \/ AbortDestroy
  BY <1>2 DEF Ready, RequestKill, BeginDestroy, AbortDestroy
<1>3. CASE FinishKill \/ FinishDestroy
  BY <1>3 DEF FinishKill, FinishDestroy, WithoutProcess
<1>4. ASSUME NEW p \in Processes, BeginProcess(p) PROVE FALSE
  \* an idle ready lease carries no kill
  BY <1>4 DEF BeginProcess, CanBeginProcess, RecordInv, KillHoldsLease, Closed
<1>5. ASSUME NEW p \in Processes, MarkRunning(p) \/ ClearProcess(p)
      PROVE  lease'.process_id \in {lease.process_id, NoProcess}
  BY <1>5 DEF MarkRunning, ClearProcess, WithoutProcess
<1>6. CASE UNCHANGED lease
  BY <1>6
<1> QED
  BY <1>1, <1>2, <1>3, <1>4, <1>5, <1>6 DEF RegistryNext

(* One transaction keeps a closed lease closed.                            *)
LEMMA ClosedStep ==
    RegistryInv /\ [RegistryNext]_lease => (Closed(lease) => Closed(lease'))
<1> SUFFICES ASSUME RegistryInv, [RegistryNext]_lease, Closed(lease)
             PROVE  Closed(lease')
    OBVIOUS
<1> USE DEF RegistryInv, LeaseTypeOK, LeaseRecord, Closed
<1>1. CASE Reserve \/ Ready \/ Remove \/ RequestKill \/ FinishKill
  BY <1>1 DEF Reserve, CanReserve, Ready, CanReady, Remove, CanRemove,
              RequestKill, CanRequestKill, FinishKill, CanFinishKill
<1>2. CASE BeginDestroy
  BY <1>2 DEF BeginDestroy, CanBeginDestroy
<1>3. CASE FinishDestroy
  BY <1>3 DEF FinishDestroy, WithoutProcess
<1>4. CASE AbortDestroy
  BY <1>4 DEF AbortDestroy, CanAbortDestroy
<1>5. ASSUME NEW p \in Processes, BeginProcess(p) \/ MarkRunning(p) PROVE FALSE
  BY <1>5 DEF BeginProcess, CanBeginProcess, MarkRunning, CanMarkRunning
<1>6. ASSUME NEW p \in Processes, ClearProcess(p) PROVE FALSE
  \* a closed record has no process to clear
  BY <1>6, NoProcessAssumption DEF ClearProcess, CanClearProcess, RecordInv
<1>7. CASE UNCHANGED lease
  BY <1>7
<1> QED
  BY <1>1, <1>2, <1>3, <1>4, <1>5, <1>6, <1>7 DEF RegistryNext

(* No process is admitted after an accepted kill.                          *)
THEOREM RegistryNoAdmissionAfterKill == RegistrySpec => NoAdmissionAfterKill
<1>1. RegistryInv /\ [RegistryNext]_lease =>
        [lease.kill_requested =>
            lease'.process_id \in {lease.process_id, NoProcess}]_lease
  BY AdmissionStep
<1> QED
  BY <1>1, RegistryAlwaysInv, PTL DEF RegistrySpec, NoAdmissionAfterKill

(* A closed lease stays closed.                                            *)
THEOREM RegistryClosedForGood == RegistrySpec => ClosedForGood
<1>1. RegistryInv /\ [RegistryNext]_lease => [Closed(lease) => Closed(lease')]_lease
  BY ClosedStep
<1> QED
  BY <1>1, RegistryAlwaysInv, PTL DEF RegistrySpec, ClosedForGood
=============================================================================
