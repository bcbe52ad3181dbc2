--------------------------- MODULE LeaseRegistry ---------------------------
(***************************************************************************)
(* The private sandbox lease registry of apps/sandbox-bridge: one Durable  *)
(* Object per lease id, each request one storage transaction.  A request   *)
(* that no branch of handleSandboxLeaseRegistryRequest accepts is answered *)
(* 409 and changes nothing; so is one whose backend, lease id or grant     *)
(* binding differs from the stored record (recordMatchesLease), and        *)
(* /authorize and the repeated /kill and /destroy/begin only answer.  All  *)
(* of those are stuttering steps here.  The specification lets requests    *)
(* arrive in any order and any number: nothing is assumed of the callers.  *)
(***************************************************************************)

CONSTANTS Processes,  \* process ids; every execute call draws a fresh one
          NoProcess   \* process_id === undefined

ASSUME NoProcessAssumption == NoProcess \notin Processes

VARIABLE lease        \* the record under RECORD_KEY; status "absent": none

ResumeStatuses == {"none", "ready", "killed"}

LeaseRecord ==
    [status : {"absent", "pending", "ready", "killed", "destroying", "destroyed"},
     kill_requested : BOOLEAN,
     process_id : Processes \cup {NoProcess},
     process_state : {"none", "starting", "running"},
     destroy_resume_status : ResumeStatuses]

Absent ==
    [status |-> "absent", kill_requested |-> FALSE, process_id |-> NoProcess,
     process_state |-> "none", destroy_resume_status |-> "none"]

WithoutProcess(r) ==
    [r EXCEPT !.process_id = NoProcess, !.process_state = "none"]

LeaseTypeOK == lease \in LeaseRecord

RegistryInit == lease = Absent

-----------------------------------------------------------------------------
(* Guards, one per endpoint: what the stored record must be for the        *)
(* endpoint to answer ok.                                                  *)

CanReserve == lease.status = "absent"

\* Mutant: any stored record will do, a destroyed one too.
Authorized_AnyRecord == lease.status # "absent"

Authorized == lease.status = "ready"

CanReady == lease.status = "pending"

\* Mutant: the record's process_id is not looked at.
CanBeginProcess_Bound == lease.status = "ready"

CanBeginProcess == lease.status = "ready" /\ lease.process_id = NoProcess

CanMarkRunning(p) ==
    /\ lease.status = "ready"
    /\ lease.process_id = p
    /\ lease.process_state = "starting"

CanClearProcess(p) == lease.status # "absent" /\ lease.process_id = p

CanRequestKill ==
    /\ lease.status = "ready"
    /\ lease.process_id # NoProcess
    /\ lease.process_state # "none"

CanFinishKill == lease.status = "ready" /\ lease.kill_requested

CanBeginDestroy == lease.status \in {"ready", "killed"}

CanRecoverDestroy == lease.status = "destroying"

CanFinishDestroy == lease.status = "destroying"

CanAbortDestroy ==
    lease.status = "destroying" /\ lease.destroy_resume_status # "none"

CanRemove == lease.status = "pending"

-----------------------------------------------------------------------------
(* The transactions that write.                                            *)

Reserve == CanReserve /\ lease' = [Absent EXCEPT !.status = "pending"]

Ready == CanReady /\ lease' = [lease EXCEPT !.status = "ready"]

BeginProcess(p) ==
    /\ CanBeginProcess
    /\ lease' = [lease EXCEPT !.process_id = p, !.process_state = "starting"]

MarkRunning(p) ==
    /\ CanMarkRunning(p)
    /\ lease' = [lease EXCEPT !.process_state = "running"]

\* Mutant: the kill latch is forgotten on the way out of "ready".
ClearProcess_ForgetsKill(p) ==
    /\ CanClearProcess(p)
    /\ lease' = [WithoutProcess(lease) EXCEPT
                   !.destroy_resume_status =
                       IF lease.status = "destroying" /\ lease.kill_requested
                         THEN "killed" ELSE @]

ClearProcess(p) ==
    /\ CanClearProcess(p)
    /\ lease' = [WithoutProcess(lease) EXCEPT
                   !.destroy_resume_status =
                       IF lease.status = "destroying" /\ lease.kill_requested
                         THEN "killed" ELSE @,
                   !.status =
                       IF lease.status = "ready" /\ lease.kill_requested
                         THEN "killed" ELSE @]

RequestKill == CanRequestKill /\ lease' = [lease EXCEPT !.kill_requested = TRUE]

\* Mutant: the process binding outlives the kill.
FinishKill_KeepsProcess ==
    CanFinishKill /\ lease' = [lease EXCEPT !.status = "killed"]

FinishKill ==
    /\ CanFinishKill
    /\ lease' = [WithoutProcess(lease) EXCEPT !.status = "killed"]

BeginDestroy ==
    /\ CanBeginDestroy
    /\ lease' = [lease EXCEPT !.destroy_resume_status = lease.status,
                              !.status = "destroying"]

FinishDestroy ==
    /\ CanFinishDestroy
    /\ lease' = [WithoutProcess(lease) EXCEPT !.destroy_resume_status = "none",
                                              !.kill_requested = TRUE,
                                              !.status = "destroyed"]

\* Mutant: the resume status is read after it was deleted.
AbortDestroy_ReadsDeleted ==
    /\ CanAbortDestroy
    /\ LET record == [lease EXCEPT !.destroy_resume_status = "none"]
       IN lease' = [record EXCEPT !.status = record.destroy_resume_status]

\* Mutant: every aborted destroy resumes as "ready".
AbortDestroy_Reopens ==
    /\ CanAbortDestroy
    /\ lease' = [lease EXCEPT !.status = "ready", !.destroy_resume_status = "none"]

AbortDestroy ==
    /\ CanAbortDestroy
    /\ lease' = [lease EXCEPT !.status = lease.destroy_resume_status,
                              !.destroy_resume_status = "none"]

Remove == CanRemove /\ lease' = Absent

RegistryNext ==
    \/ Reserve \/ Ready \/ Remove
    \/ RequestKill \/ FinishKill
    \/ BeginDestroy \/ FinishDestroy \/ AbortDestroy
    \/ \E p \in Processes : BeginProcess(p) \/ MarkRunning(p) \/ ClearProcess(p)

RegistrySpec == RegistryInit /\ [][RegistryNext]_lease

-----------------------------------------------------------------------------
(* A lease is closed for good once it is killed or destroyed, or is being  *)
(* destroyed with nothing but "killed" to go back to.                      *)
Closed(r) ==
    \/ r.status \in {"killed", "destroyed"}
    \/ r.status = "destroying" /\ r.destroy_resume_status = "killed"

(* A kill accepted while a process is bound never leaves the lease open    *)
(* and idle: until it is closed, the process it was aimed at stays bound,  *)
(* also while a destroy is under way that may yet be aborted.  (/kill,     *)
(* /process/clear, /kill/finish, /destroy/abort)                           *)
KillHoldsLease ==
    lease.kill_requested =>
        Closed(lease) \/ (lease.status \in {"ready", "destroying"}
                            /\ lease.process_id # NoProcess)

(* No process is ever admitted after a kill was accepted, whatever         *)
(* requests follow: a bound process id only ever stays or goes away.       *)
NoAdmissionAfterKill ==
    [][lease.kill_requested => lease'.process_id \in {lease.process_id, NoProcess}]_lease

(* A closed lease is never open again, not even through an aborted or a    *)
(* repeated destroy, so a terminal answer once given stays true.           *)
ClosedForGood == [][Closed(lease) => Closed(lease')]_lease

(* What the record may hold in each status: the strengthening that makes   *)
(* the properties above inductive.                                         *)
RecordInv ==
    /\ lease.process_state = "none" <=> lease.process_id = NoProcess
    /\ lease.destroy_resume_status # "none" <=> lease.status = "destroying"
    /\ lease.status \in {"absent", "pending"} =>
           ~lease.kill_requested /\ lease.process_id = NoProcess
    /\ Closed(lease) => lease.kill_requested /\ lease.process_id = NoProcess
    /\ KillHoldsLease
=============================================================================
