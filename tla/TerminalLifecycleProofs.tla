----------------------- MODULE TerminalLifecycleProofs -----------------------
(* Theorems about TerminalLifecycle for any amount of output. *)
EXTENDS TerminalLifecycle, TLAPS

USE DEF Outcomes, TerminalStates, Confirmations, KillStatuses, Settled, Recorded,
        WaitsForCreate, Executing, Cleaning

(* The record that is handed out has its type and the fields it was given. *)
LEMMA RecordsFacts ==
    ASSUME TypeOK, NEW terminal \in TerminalStates, NEW kill \in KillStatuses,
           NEW safe \in BOOLEAN, NEW quiet \in BOOLEAN, Records(terminal, kill, safe, quiet)
    PROVE  /\ pc' = "recording" /\ record' \in Record
           /\ record'.terminal_state = terminal /\ record'.kill_status = kill
           /\ record'.release_safe = safe /\ record'.execution_closed = quiet
           /\ record'.output_event_count = meter
BY DEF Records, Record, TypeOK

(* So a step that hands out a record and leaves the rest typed is typed. *)
LEMMA RecordsType ==
    ASSUME TypeOK, NEW terminal \in TerminalStates, NEW kill \in KillStatuses,
           NEW safe \in BOOLEAN, NEW quiet \in BOOLEAN, Records(terminal, kill, safe, quiet),
           UNCHANGED <<control, handle, execution, closed, meter, decision, destroys, cause>>,
           creation' \in {"none", "inflight", "created", "failed"},
           sandbox' \in {"none", "alive", "gone"}, abandoned' \in BOOLEAN,
           cleanup' \in {"none", "safe", "unsafe"}
    PROVE  TypeOK'
<1>1. pc' = "recording" /\ record' \in Record /\ record' # NoRecord
  BY RecordsFacts, NoRecordAssumption
<1> QED
  BY <1>1 DEF TypeOK

LEMMA TypeInit == Init => TypeOK
<1> SUFFICES ASSUME Init PROVE TypeOK
  OBVIOUS
<1>1. decision \in [terminal_state : TerminalStates, kill_status : KillStatuses]
  BY DEF Init
<1>2. meter \in 0..MaxOutput /\ destroys \in Nat
  BY OutputAssumption DEF Init
<1>3. record \in Record \cup {NoRecord} /\ (Recorded <=> record # NoRecord)
  BY DEF Init
<1> QED
  BY <1>1, <1>2, <1>3 DEF Init, TypeOK

LEMMA TypeStep == TypeOK /\ [Next]_vars => TypeOK'
<1> SUFFICES ASSUME TypeOK, [Next]_vars PROVE TypeOK'
  OBVIOUS
<1> USE OutputAssumption, NoRecordAssumption
<1>0. /\ creation \in {"none", "inflight", "created", "failed"}
      /\ sandbox \in {"none", "alive", "gone"} /\ abandoned \in BOOLEAN
      /\ cleanup \in {"none", "safe", "unsafe"}
      /\ decision.terminal_state \in TerminalStates /\ decision.kill_status \in KillStatuses
  BY DEF TypeOK
<1>1. CASE PreAborted
  <2>1. Records("controlled", "not_requested", TRUE, TRUE)
        /\ UNCHANGED <<control, creation, sandbox, handle, execution, closed, meter,
                       decision, cleanup, destroys, abandoned, cause>>
    BY <1>1 DEF PreAborted
  <2> QED
    BY <1>0, <2>1, RecordsType
<1>2. CASE Create
  BY <1>2 DEF Create, TypeOK
<1>3. CASE CreateSucceeds
  <2>1. /\ creation' = "created" /\ sandbox' = "alive"
        /\ UNCHANGED <<control, closed, meter, cleanup, abandoned, record>>
    BY <1>3 DEF CreateSucceeds
  <2>2. CASE pc = "create" /\ Execute
    <3>1. CASE /\ handle' = TRUE /\ execution' = "running" /\ pc' = "race"
               /\ UNCHANGED <<decision, destroys, cause>>
      BY <2>1, <2>2, <3>1 DEF TypeOK
    <3>2. CASE /\ handle' \in BOOLEAN /\ execution' = "execution_failed"
               /\ Decide("execution_failed", "not_requested")
               /\ Happens("execution_failed")
      <4>1. /\ decision' \in [terminal_state : TerminalStates, kill_status : KillStatuses]
            /\ pc' = "destroy" /\ destroys' \in Nat
        BY <3>2 DEF Decide, TypeOK
      <4>2. cause' \in TerminalStates \cup {"none"}
        BY <3>2 DEF Happens, TypeOK
      <4> QED
        BY <2>1, <2>2, <3>2, <4>1, <4>2 DEF TypeOK
    <3> QED
      BY <2>2, <3>1, <3>2 DEF Execute
  <2>3. CASE /\ pc = "createControl" /\ Decide("controlled", "not_requested")
             /\ UNCHANGED <<handle, execution, cause>>
    BY <2>1, <2>3 DEF Decide, TypeOK
  <2>4. CASE /\ destroys' = destroys + 1
             /\ UNCHANGED <<pc, decision, handle, execution, cause>>
    BY <2>1, <2>4 DEF TypeOK
  <2> QED
    BY <1>3, <2>2, <2>3, <2>4 DEF CreateSucceeds
<1>4. CASE CreateFails
  <2>1. /\ creation' = "failed"
        /\ UNCHANGED <<control, sandbox, handle, execution, closed, meter, decision, cleanup,
                       destroys, abandoned, cause>>
    BY <1>4 DEF CreateFails
  <2>2. CASE Records(CreateTerminal, "not_requested", FALSE, TRUE)
    BY <1>0, <2>1, <2>2, RecordsType DEF CreateTerminal
  <2>3. CASE UNCHANGED <<pc, record>>
    BY <2>1, <2>3 DEF TypeOK
  <2> QED
    BY <1>4, <2>2, <2>3 DEF CreateFails, CreateEnds
<1>5. CASE CreateDeadline
  <2>1. /\ abandoned' = TRUE /\ Records(CreateTerminal, "not_requested", FALSE, TRUE)
        /\ UNCHANGED <<control, creation, sandbox, handle, execution, closed, meter,
                       decision, cleanup, destroys, cause>>
    BY <1>5 DEF CreateDeadline, CreateEnds
  <2> QED
    BY <1>0, <2>1, RecordsType DEF CreateTerminal
<1>6. CASE ControlAborts
  BY <1>6 DEF ControlAborts, RequestKill, Stays, Happens, TypeOK
<1>7. ASSUME NEW o \in Outcomes, ExecutionSettles(o) PROVE TypeOK'
  BY <1>7 DEF ExecutionSettles, RequestKill, Decide, Stays, Happens, TypeOK
<1>8. CASE SoftDeadline
  BY <1>8 DEF SoftDeadline, SoftKill, Happens, TypeOK
<1>9. CASE HardDeadline
  BY <1>9 DEF HardDeadline, RequestKill, TypeOK
<1>10. ASSUME NEW s \in KillStatuses, SoftKillEnds(s) PROVE TypeOK'
  BY <1>10 DEF SoftKillEnds, Decide, RequestKill, TypeOK
<1>11. ASSUME NEW s \in KillStatuses, KillEnds(s) PROVE TypeOK'
  BY <1>11 DEF KillEnds, Decide, TypeOK
<1>12. ASSUME NEW result \in {"safe", "unsafe"}, NEW box \in {sandbox, "gone"},
              Cleaned(result, box)
       PROVE  TypeOK'
  <2>1. /\ cleanup' = result /\ sandbox' = box
        /\ UNCHANGED <<control, creation, handle, execution, closed, meter, decision,
                       destroys, abandoned, cause>>
    BY <1>12 DEF Cleaned
  <2>2. CASE handle /\ pc = "destroy" /\ pc' = "closing" /\ UNCHANGED record
    BY <1>0, <2>1, <2>2 DEF TypeOK
  <2>3. CASE Records(decision.terminal_state, decision.kill_status, result = "safe", TRUE)
    BY <1>0, <2>1, <2>3, RecordsType
  <2> QED
    BY <1>12, <2>2, <2>3 DEF Cleaned
<1>13. CASE StreamClosed
  <2>1. /\ Records(decision.terminal_state, decision.kill_status, cleanup = "safe", TRUE)
        /\ UNCHANGED <<control, creation, sandbox, handle, execution, closed, meter,
                       decision, cleanup, destroys, abandoned, cause>>
    BY <1>13 DEF StreamClosed
  <2> QED
    BY <1>0, <2>1, RecordsType
<1>14. CASE CloseGrace
  <2>1. /\ Records(decision.terminal_state, decision.kill_status, FALSE, FALSE)
        /\ UNCHANGED <<control, creation, sandbox, handle, execution, closed, meter,
                       decision, cleanup, destroys, abandoned, cause>>
    BY <1>14 DEF CloseGrace
  <2> QED
    BY <1>0, <2>1, RecordsType
<1>15. CASE RecordSettles
  BY <1>15 DEF RecordSettles, TypeOK
<1>16. CASE Output
  BY <1>16 DEF Output, TypeOK
<1>17. CASE ProducerCloses
  BY <1>17 DEF ProducerCloses, TypeOK
<1>18. CASE SandboxGoes
  BY <1>18 DEF SandboxGoes, TypeOK
<1>19. CASE UNCHANGED vars
  BY <1>19 DEF vars, TypeOK
<1> QED
  BY <1>1, <1>2, <1>3, <1>4, <1>5, <1>6, <1>7, <1>8, <1>9, <1>10, <1>11, <1>12, <1>13,
     <1>14, <1>15, <1>16, <1>17, <1>18, <1>19
     DEF Next, Lifecycle, Timer, Environment, KillAnswered, KillGrace, DestroyAnswered,
         DestroyGrace

(* Types, and the record exists exactly from the recorder's call on. *)
THEOREM LifecycleTypeOK == Spec => []TypeOK
BY TypeInit, TypeStep, PTL DEF Spec

-----------------------------------------------------------------------------
(* Safety *)

(* The record's fields, as far as the invariant speaks of them. *)
LEMMA RecordsKeepInv ==
    ASSUME LifecycleInv, NEW terminal \in TerminalStates, NEW kill \in KillStatuses,
           NEW safe \in BOOLEAN, NEW quiet \in BOOLEAN, Records(terminal, kill, safe, quiet),
           UNCHANGED <<control, handle, execution, closed, meter, decision, destroys, cause>>,
           creation' \in {creation, "failed"}, cleanup' \in {cleanup, "safe", "unsafe"},
           sandbox' \in {sandbox, "gone"},
           creation' # creation => creation = "inflight",
           creation # "created" => sandbox' = sandbox /\ cleanup' = cleanup,
           cleanup' = "safe" => sandbox' = "gone",
           safe => sandbox' # "alive" /\ creation' # "inflight" /\ (handle => closed /\ Settled),
           quiet => execution # "running",
           destroys = (IF creation' = "created" THEN 1 ELSE 0)
    PROVE  /\ CreateInv' /\ DestroyInv' /\ StreamInv'
           /\ ReleaseSafeMeansGone' /\ UsageIsFinal' /\ EachLeaseDestroyedOnce'
<1>1. /\ pc' = "recording" /\ record'.release_safe = safe /\ record'.execution_closed = quiet
      /\ record'.output_event_count = meter
  BY RecordsFacts DEF LifecycleInv
<1>2. CreateInv'
  BY <1>1 DEF LifecycleInv, CreateInv
<1>3. DestroyInv'
  BY <1>1 DEF LifecycleInv, DestroyInv
<1>4. StreamInv'
  BY <1>1 DEF LifecycleInv, StreamInv
<1>5. ReleaseSafeMeansGone' /\ UsageIsFinal' /\ EachLeaseDestroyedOnce'
  BY <1>1 DEF ReleaseSafeMeansGone, UsageIsFinal, EachLeaseDestroyedOnce
<1> QED
  BY <1>2, <1>3, <1>4, <1>5

LEMMA InvInit == Init => LifecycleInv
BY TypeInit DEF Init, LifecycleInv, CreateInv, DestroyInv, StreamInv, ReleaseSafeMeansGone,
   UsageIsFinal, EachLeaseDestroyedOnce

LEMMA InvStep == LifecycleInv /\ [Next]_vars => LifecycleInv'
<1> SUFFICES ASSUME LifecycleInv, [Next]_vars
             PROVE  /\ CreateInv' /\ DestroyInv' /\ StreamInv'
                    /\ ReleaseSafeMeansGone' /\ UsageIsFinal' /\ EachLeaseDestroyedOnce'
  BY TypeStep DEF LifecycleInv
<1> DEFINE Goal == /\ CreateInv' /\ DestroyInv' /\ StreamInv'
                   /\ ReleaseSafeMeansGone' /\ UsageIsFinal' /\ EachLeaseDestroyedOnce'
<1>0. /\ TypeOK /\ CreateInv /\ DestroyInv /\ StreamInv
      /\ ReleaseSafeMeansGone /\ UsageIsFinal /\ EachLeaseDestroyedOnce
      /\ decision.terminal_state \in TerminalStates /\ decision.kill_status \in KillStatuses
  BY DEF LifecycleInv, TypeOK
<1>1. CASE PreAborted
  <2>1. /\ pc = "start" /\ Records("controlled", "not_requested", TRUE, TRUE)
        /\ UNCHANGED <<control, creation, sandbox, handle, execution, closed, meter,
                       decision, cleanup, destroys, abandoned, cause>>
    BY <1>1 DEF PreAborted
  <2>2. creation = "none" /\ sandbox = "none" /\ ~handle /\ destroys = 0 /\ cleanup = "none"
        /\ execution # "running"
    BY <1>0, <2>1 DEF CreateInv, StreamInv
  <2> QED
    BY <2>1, <2>2, RecordsKeepInv
<1>2. CASE Create
  BY <1>0, <1>2 DEF Create, TypeOK, CreateInv, DestroyInv, StreamInv, ReleaseSafeMeansGone,
     UsageIsFinal, EachLeaseDestroyedOnce
<1>3. CASE CreateSucceeds
  <2>1. /\ creation = "inflight" /\ creation' = "created" /\ sandbox' = "alive"
        /\ UNCHANGED <<control, closed, meter, cleanup, abandoned, record>>
        /\ destroys = 0 /\ ~handle /\ cleanup = "none" /\ meter = 0
        /\ record # NoRecord => ~record.release_safe
    BY <1>0, <1>3 DEF CreateSucceeds, CreateInv, StreamInv, ReleaseSafeMeansGone
  <2>2. CASE /\ pc = "create" /\ handle' = TRUE /\ execution' = "running" /\ pc' = "race"
             /\ UNCHANGED <<decision, destroys, cause>>
    BY <1>0, <2>1, <2>2 DEF TypeOK, CreateInv, DestroyInv, StreamInv, ReleaseSafeMeansGone,
       UsageIsFinal, EachLeaseDestroyedOnce
  <2>3. CASE /\ pc = "create" /\ handle' \in BOOLEAN /\ execution' = "execution_failed"
             /\ pc' = "destroy" /\ destroys' = destroys + 1
    BY <1>0, <2>1, <2>3 DEF TypeOK, CreateInv, DestroyInv, StreamInv, ReleaseSafeMeansGone,
       UsageIsFinal, EachLeaseDestroyedOnce
  <2>4. CASE /\ pc = "createControl" /\ pc' = "destroy" /\ destroys' = destroys + 1
             /\ UNCHANGED <<handle, execution, cause>>
    BY <1>0, <2>1, <2>4 DEF TypeOK, CreateInv, DestroyInv, StreamInv, ReleaseSafeMeansGone,
       UsageIsFinal, EachLeaseDestroyedOnce
  <2>5. CASE /\ abandoned /\ destroys' = destroys + 1
             /\ UNCHANGED <<pc, decision, handle, execution, cause>>
    BY <1>0, <2>1, <2>5 DEF TypeOK, CreateInv, DestroyInv, StreamInv, ReleaseSafeMeansGone,
       UsageIsFinal, EachLeaseDestroyedOnce
  <2> QED
    BY <1>3, <2>2, <2>3, <2>4, <2>5 DEF CreateSucceeds, Execute, Decide
<1>4. CASE CreateFails
  <2>1. /\ creation = "inflight" /\ creation' = "failed"
        /\ UNCHANGED <<control, sandbox, handle, execution, closed, meter, decision, cleanup,
                       destroys, abandoned, cause>>
    BY <1>4 DEF CreateFails
  <2>2. destroys = 0 /\ ~handle /\ cleanup = "none" /\ execution # "running"
    BY <1>0, <2>1 DEF CreateInv, StreamInv
  <2>3. CASE Records(CreateTerminal, "not_requested", FALSE, TRUE)
    BY <2>1, <2>2, <2>3, RecordsKeepInv DEF CreateTerminal
  <2>4. CASE UNCHANGED <<pc, record>>  /\ abandoned
    BY <1>0, <2>1, <2>2, <2>4 DEF CreateInv, DestroyInv, StreamInv, ReleaseSafeMeansGone,
       UsageIsFinal, EachLeaseDestroyedOnce
  <2> QED
    BY <1>4, <2>3, <2>4 DEF CreateFails, CreateEnds
<1>5. CASE CreateDeadline
  <2>1. /\ WaitsForCreate /\ Records(CreateTerminal, "not_requested", FALSE, TRUE)
        /\ UNCHANGED <<control, creation, sandbox, handle, execution, closed, meter,
                       decision, cleanup, destroys, cause>>
    BY <1>5 DEF CreateDeadline, CreateEnds
  <2>2. creation = "inflight" /\ destroys = 0 /\ cleanup = "none" /\ execution # "running"
    BY <1>0, <2>1 DEF CreateInv, StreamInv
  <2> QED
    BY <2>1, <2>2, RecordsKeepInv DEF CreateTerminal
<1> USE DEF TypeOK, CreateInv, DestroyInv, StreamInv, ReleaseSafeMeansGone, UsageIsFinal,
            EachLeaseDestroyedOnce
<1>6. CASE ControlAborts
  <2>1. UNCHANGED <<creation, sandbox, handle, execution, closed, meter, cleanup, abandoned,
                    record>>
    BY <1>6 DEF ControlAborts
  <2>2. destroys' = destroys
    BY <1>6 DEF ControlAborts, RequestKill, Stays
  <2>3. CASE pc = "create" /\ pc' = "createControl"
    BY <1>0, <2>1, <2>2, <2>3
  <2>4. CASE pc \in {"race", "afterSoft"} /\ pc' = "kill"
    BY <1>0, <2>1, <2>2, <2>4
  <2>5. CASE pc' = pc /\ decision' = decision
    BY <1>0, <2>1, <2>2, <2>5
  <2> QED
    BY <1>6, <2>3, <2>4, <2>5 DEF ControlAborts, RequestKill, Stays
<1>7. ASSUME NEW o \in Outcomes, ExecutionSettles(o) PROVE Goal
  <2>1. /\ execution = "running" /\ execution' = o
        /\ UNCHANGED <<control, creation, sandbox, handle, closed, meter, cleanup, abandoned,
                       record>>
    BY <1>7 DEF ExecutionSettles
  <2>2. CASE pc = "race" /\ pc' = "kill" /\ destroys' = destroys
    BY <1>0, <2>1, <2>2
  <2>3. CASE pc \in {"race", "afterSoft"} /\ pc' = "destroy" /\ destroys' = destroys + 1
    BY <1>0, <2>1, <2>3
  <2>4. CASE UNCHANGED <<pc, decision, destroys>>
    BY <1>0, <2>1, <2>4
  <2> QED
    BY <1>7, <2>2, <2>3, <2>4 DEF ExecutionSettles, RequestKill, Decide, Stays
<1>8. ASSUME SoftDeadline \/ HardDeadline PROVE Goal
  <2>1. /\ UNCHANGED <<control, creation, sandbox, handle, execution, closed, meter, cleanup,
                       abandoned, record, destroys>>
        /\ pc \in {"race", "afterSoft"} /\ pc' \in {"kill", "softKill"}
    BY <1>8 DEF SoftDeadline, HardDeadline, SoftKill, RequestKill
  <2> QED
    BY <1>0, <2>1
<1>9. ASSUME NEW s \in KillStatuses \ {"not_requested"}, SoftKillEnds(s) \/ KillEnds(s)
      PROVE  Goal
  <2>1. /\ UNCHANGED <<control, creation, sandbox, handle, execution, closed, meter, cleanup,
                       abandoned, record>>
        /\ pc \in {"softKill", "kill"}
    BY <1>9 DEF SoftKillEnds, KillEnds
  <2>2. CASE pc' = "destroy" /\ destroys' = destroys + 1
    BY <1>0, <2>1, <2>2
  <2>3. CASE pc' = "kill" /\ destroys' = destroys
    BY <1>0, <2>1, <2>3
  <2>4. CASE /\ pc' = "afterSoft" /\ destroys' = destroys /\ s \notin Confirmations
             /\ decision' = [decision EXCEPT !.kill_status = s]
             /\ pc = "softKill"
    <3>1. s \in {"failed", "unconfirmed"}
      <4>1. s # "not_requested"
        BY <1>9, <2>4
      <4> QED
        BY <2>4, <4>1 DEF KillStatuses, Confirmations
    <3>2. decision'.kill_status = s
      BY <1>0, <2>4
    <3> QED
      BY <1>0, <2>1, <2>4, <3>1, <3>2
  <2> QED
    BY <1>9, <2>2, <2>3, <2>4 DEF SoftKillEnds, KillEnds, Decide, RequestKill
<1>10. ASSUME NEW result \in {"safe", "unsafe"}, NEW box \in {sandbox, "gone"},
              Cleaned(result, box), result = "safe" => box = "gone"
       PROVE  Goal
  <2>1. /\ pc = "destroy" /\ cleanup' = result /\ sandbox' = box
        /\ UNCHANGED <<control, creation, handle, execution, closed, meter, decision, destroys,
                       abandoned, cause>>
    BY <1>10 DEF Cleaned
  <2>2. creation = "created" /\ destroys = 1
    BY <1>0, <2>1
  <2>3. CASE handle /\ pc' = "closing" /\ UNCHANGED record
    BY <1>0, <1>10, <2>1, <2>2, <2>3
  <2>4. CASE ~handle /\ Records(decision.terminal_state, decision.kill_status,
                                result = "safe", TRUE)
    <3>1. execution # "running"
      BY <1>0, <2>4
    <3> HIDE DEF TypeOK, CreateInv, DestroyInv, StreamInv, ReleaseSafeMeansGone, UsageIsFinal,
                 EachLeaseDestroyedOnce
    <3> QED
      BY <1>0, <1>10, <2>1, <2>2, <2>4, <3>1, RecordsKeepInv
  <2> QED
    BY <1>10, <2>3, <2>4 DEF Cleaned
<1>11. CASE StreamClosed
  <2>1. /\ pc = "closing" /\ closed /\ Settled
        /\ Records(decision.terminal_state, decision.kill_status, cleanup = "safe", TRUE)
        /\ UNCHANGED <<control, creation, sandbox, handle, execution, closed, meter,
                       decision, cleanup, destroys, abandoned, cause>>
    BY <1>11 DEF StreamClosed
  <2>2. /\ creation = "created" /\ destroys = 1 /\ execution # "running"
        /\ cleanup = "safe" => sandbox = "gone"
    BY <1>0, <2>1
  <2> HIDE DEF TypeOK, CreateInv, DestroyInv, StreamInv, ReleaseSafeMeansGone, UsageIsFinal,
               EachLeaseDestroyedOnce
  <2> QED
    BY <1>0, <2>1, <2>2, RecordsKeepInv
<1>12. CASE CloseGrace
  <2>1. /\ pc = "closing"
        /\ Records(decision.terminal_state, decision.kill_status, FALSE, FALSE)
        /\ UNCHANGED <<control, creation, sandbox, handle, execution, closed, meter,
                       decision, cleanup, destroys, abandoned, cause>>
    BY <1>12 DEF CloseGrace
  <2>2. creation = "created" /\ destroys = 1 /\ (cleanup = "safe" => sandbox = "gone")
    BY <1>0, <2>1
  <2> HIDE DEF TypeOK, CreateInv, DestroyInv, StreamInv, ReleaseSafeMeansGone, UsageIsFinal,
               EachLeaseDestroyedOnce
  <2> QED
    BY <1>0, <2>1, <2>2, RecordsKeepInv
<1>13. CASE RecordSettles
  BY <1>0, <1>13 DEF RecordSettles
<1>14. CASE Output
  BY <1>0, <1>14 DEF Output
<1>15. CASE ProducerCloses
  BY <1>0, <1>15 DEF ProducerCloses
<1>16. CASE SandboxGoes
  BY <1>0, <1>16 DEF SandboxGoes
<1>17. CASE UNCHANGED vars
  BY <1>0, <1>17 DEF vars
<1> HIDE DEF TypeOK, CreateInv, DestroyInv, StreamInv, ReleaseSafeMeansGone, UsageIsFinal,
             EachLeaseDestroyedOnce
<1>18. ASSUME DestroyAnswered \/ DestroyGrace PROVE Goal
  BY <1>10, <1>18 DEF DestroyAnswered, DestroyGrace
<1> QED
  BY <1>1, <1>2, <1>3, <1>4, <1>5, <1>6, <1>7, <1>8, <1>9, <1>11, <1>12,
     <1>13, <1>14, <1>15, <1>16, <1>17, <1>18
     DEF Next, Lifecycle, Timer, Environment, KillAnswered, KillGrace

(* What the three properties share: the invariant holds throughout. *)
LEMMA LifecycleInvariant == Spec => []LifecycleInv
BY InvInit, InvStep, PTL DEF Spec

(* A released run has no compute, none coming, and a quiet stream. *)
THEOREM LifecycleReleaseSafeMeansGone == Spec => []ReleaseSafeMeansGone
<1>1. LifecycleInv => ReleaseSafeMeansGone
  BY DEF LifecycleInv
<1> QED
  BY <1>1, LifecycleInvariant, PTL

(* The usage in a record of a closed execution does not change any more. *)
THEOREM LifecycleUsageIsFinal == Spec => []UsageIsFinal
<1>1. LifecycleInv => UsageIsFinal
  BY DEF LifecycleInv
<1> QED
  BY <1>1, LifecycleInvariant, PTL

(* Every lease of a recorded run has been sent exactly one destroy. *)
THEOREM LifecycleEachLeaseDestroyedOnce == Spec => []EachLeaseDestroyedOnce
<1>1. LifecycleInv => EachLeaseDestroyedOnce
  BY DEF LifecycleInv
<1> QED
  BY <1>1, LifecycleInvariant, PTL

(* The steps that send no destroy request. *)
LEMMA QuietSteps ==
    ASSUME PreAborted \/ Create \/ StreamClosed \/ CreateDeadline \/ SoftDeadline
              \/ HardDeadline \/ DestroyGrace \/ CloseGrace \/ CreateFails \/ ControlAborts
              \/ DestroyAnswered \/ Output \/ ProducerCloses \/ SandboxGoes \/ RecordSettles
              \/ UNCHANGED vars
    PROVE  destroys' = destroys
BY DEF PreAborted, Create, StreamClosed, CreateDeadline, SoftDeadline, SoftKill, HardDeadline,
   RequestKill, DestroyGrace, DestroyAnswered, Cleaned, CloseGrace, CreateFails, ControlAborts,
   Stays, Output, ProducerCloses, SandboxGoes, RecordSettles, vars

(* Compute with a running stream is only destroyed after a kill request:   *)
(* the lease of a create step has no stream yet, and a stream that settles *)
(* is not running any more, so the request comes from a kill that ended.   *)
THEOREM LifecycleKillBeforeDestroy == Spec => KillBeforeDestroy
<1> DEFINE Step == destroys' > destroys /\ handle /\ execution' = "running" =>
                       decision'.kill_status # "not_requested"
<1>1. LifecycleInv /\ [Next]_vars => Step
  <2> SUFFICES ASSUME LifecycleInv, [Next]_vars, destroys' > destroys, handle,
                      execution' = "running"
               PROVE  decision'.kill_status # "not_requested"
    OBVIOUS
  <2>1. destroys' # destroys /\ creation = "created"
    BY DEF LifecycleInv, TypeOK, CreateInv
  <2>2. ~CreateSucceeds
    BY <2>1 DEF CreateSucceeds
  <2>3. \A o \in Outcomes : ~ExecutionSettles(o)
    BY DEF ExecutionSettles, Outcomes
  <2>4. PICK s \in KillStatuses \ {"not_requested"} : SoftKillEnds(s) \/ KillEnds(s)
    BY <2>1, <2>2, <2>3, QuietSteps
       DEF Next, Lifecycle, Timer, Environment, KillAnswered, KillGrace, KillStatuses,
           Confirmations
  <2>5. \E t \in TerminalStates : Decide(t, s)
    BY <2>1, <2>4 DEF SoftKillEnds, KillEnds, RequestKill, LifecycleInv, TypeOK, TerminalStates
  <2> QED
    BY <2>4, <2>5 DEF Decide
<1> QED
  BY <1>1, LifecycleInvariant, PTL DEF Spec, KillBeforeDestroy

-----------------------------------------------------------------------------
(* The first cause *)

(* A step that hands out the record of what was decided, or of a run that  *)
(* never executed, keeps CauseInv.                                         *)
LEMMA RecordsKeepCause ==
    ASSUME TypeOK, CauseInv, NEW terminal \in TerminalStates, NEW kill \in KillStatuses,
           NEW safe \in BOOLEAN, NEW quiet \in BOOLEAN, Records(terminal, kill, safe, quiet),
           UNCHANGED <<handle, cause>>, pc # "race",
           cause # "none" => FollowsCause(terminal)
    PROVE  CauseInv'
<1>1. pc' = "recording" /\ record'.terminal_state = terminal
  BY RecordsFacts
<1> QED
  BY <1>1 DEF CauseInv, FirstCauseWins, FollowsCause

(* A decision whose terminal state follows from the first cause keeps it. *)
LEMMA DecisionKeepsCause ==
    ASSUME TypeOK, CauseInv, NEW terminal \in TerminalStates, UNCHANGED record,
           record = NoRecord, pc' = "kill" \/ pc' = "destroy",
           decision'.terminal_state = terminal,
           handle' => cause' # "none",
           cause' # "none" => FollowsCause(terminal)'
    PROVE  CauseInv'
BY DEF CauseInv, FirstCauseWins, FollowsCause

LEMMA CauseInit == Init => CauseInv
BY DEF Init, CauseInv, FirstCauseWins, FollowsCause

LEMMA CauseStep == LifecycleInv /\ CauseInv /\ [Next]_vars => CauseInv'
<1> SUFFICES ASSUME LifecycleInv, CauseInv, [Next]_vars PROVE CauseInv'
  OBVIOUS
<1>0. /\ TypeOK /\ CreateInv /\ StreamInv
      /\ decision.terminal_state \in TerminalStates /\ decision.kill_status \in KillStatuses
      /\ decision = [terminal_state |-> decision.terminal_state,
                     kill_status |-> decision.kill_status]
      /\ ~Recorded => record = NoRecord
  BY DEF LifecycleInv, TypeOK
<1>1. CASE PreAborted
  <2>1. /\ pc = "start" /\ Records("controlled", "not_requested", TRUE, TRUE)
        /\ UNCHANGED <<handle, cause>>
    BY <1>1 DEF PreAborted
  <2>2. cause = "none"
    BY <2>1 DEF CauseInv
  <2> QED
    BY <1>0, <2>1, <2>2, RecordsKeepCause
<1>2. CASE Create
  <2>1. ~handle
    BY <1>0, <1>2 DEF Create, CreateInv
  <2> QED
    BY <1>2, <2>1 DEF Create, CauseInv, FirstCauseWins, FollowsCause
<1>3. CASE CreateSucceeds
  <2>1. ~handle /\ record' = record
    BY <1>0, <1>3 DEF CreateSucceeds, CreateInv
  <2>2. CASE /\ pc = "create" /\ handle' = TRUE /\ pc' = "race"
             /\ UNCHANGED <<decision, cause>>
    BY <1>0, <2>1, <2>2 DEF CauseInv, FirstCauseWins, FollowsCause
  <2>3. CASE /\ pc = "create" /\ Decide("execution_failed", "not_requested")
             /\ Happens("execution_failed")
    <3>1. cause' = "execution_failed" /\ record = NoRecord
      BY <1>0, <2>3 DEF Happens, CauseInv
    <3>2. pc' = "destroy" /\ decision'.terminal_state = "execution_failed"
      BY <2>3 DEF Decide
    <3> QED
      BY <1>0, <2>1, <3>1, <3>2, DecisionKeepsCause DEF FollowsCause
  <2>4. CASE /\ pc = "createControl" /\ Decide("controlled", "not_requested")
             /\ UNCHANGED <<handle, cause>>
    <3>1. cause' = "none" /\ ~handle' /\ record = NoRecord
      BY <1>0, <2>1, <2>4 DEF CauseInv
    <3>2. pc' = "destroy" /\ decision'.terminal_state = "controlled"
      BY <2>4 DEF Decide
    <3> QED
      BY <1>0, <2>1, <3>1, <3>2, DecisionKeepsCause
  <2>5. CASE UNCHANGED <<pc, decision, handle, cause>>
    BY <2>1, <2>5 DEF CauseInv, FirstCauseWins, FollowsCause
  <2> QED
    BY <1>3, <2>2, <2>3, <2>4, <2>5 DEF CreateSucceeds, Execute
<1>4. CASE CreateFails \/ CreateDeadline
  <2>1. /\ UNCHANGED <<handle, decision, cause>>
        /\ \/ WaitsForCreate /\ Records(CreateTerminal, "not_requested", FALSE, TRUE)
           \/ UNCHANGED <<pc, record>>
    BY <1>4 DEF CreateFails, CreateDeadline, CreateEnds
  <2>2. CASE WaitsForCreate /\ Records(CreateTerminal, "not_requested", FALSE, TRUE)
    <3>1. cause = "none"
      BY <2>2 DEF CauseInv
    <3> QED
      BY <1>0, <2>1, <2>2, <3>1, RecordsKeepCause DEF CreateTerminal
  <2> QED
    BY <2>1, <2>2 DEF CauseInv, FirstCauseWins, FollowsCause
<1>5. CASE ControlAborts
  <2>1. UNCHANGED <<handle, record>> /\ IF handle THEN Happens("controlled") ELSE UNCHANGED cause
    BY <1>5 DEF ControlAborts
  <2>2. CASE pc = "create" /\ pc' = "createControl"
    <3>1. ~handle
      BY <1>0, <2>2 DEF CreateInv
    <3> QED
      BY <1>0, <2>1, <2>2, <3>1 DEF CauseInv, FirstCauseWins, FollowsCause
  <2>3. CASE pc \in {"race", "afterSoft"} /\ RequestKill("controlled")
    <3>1. handle /\ record = NoRecord /\ Happens("controlled")
      BY <1>0, <2>1, <2>3 DEF StreamInv
    <3>2. cause' = IF pc = "race" THEN "controlled" ELSE "soft_timeout"
      BY <2>3, <3>1 DEF Happens, CauseInv
    <3>3. pc' = "kill" /\ decision'.terminal_state = "controlled"
      BY <1>0, <2>3 DEF RequestKill
    <3> QED
      BY <1>0, <2>1, <2>3, <3>1, <3>2, <3>3, DecisionKeepsCause DEF FollowsCause
  <2>4. CASE pc \notin {"create", "race", "afterSoft"} /\ Stays
    <3>1. cause' = cause
      BY <2>1, <2>4 DEF Happens, CauseInv
    <3> QED
      BY <2>1, <2>4, <3>1 DEF Stays, CauseInv, FirstCauseWins, FollowsCause
  <2> QED
    BY <1>5, <2>2, <2>3, <2>4 DEF ControlAborts
<1>6. ASSUME NEW o \in Outcomes, ExecutionSettles(o) PROVE CauseInv'
  <2>1. execution = "running" /\ UNCHANGED <<handle, record>> /\ Happens(o) /\ handle
    BY <1>0, <1>6 DEF ExecutionSettles, StreamInv
  <2>2. CASE pc = "race" /\ (RequestKill(o) \/ Decide(o, "not_requested"))
    <3>1. cause' = o /\ record = NoRecord /\ o # "none" /\ o \in TerminalStates
      BY <1>0, <2>1, <2>2 DEF Happens, CauseInv
    <3>2. (pc' = "kill" \/ pc' = "destroy") /\ decision'.terminal_state = o
      BY <1>0, <2>2 DEF RequestKill, Decide
    <3> QED
      BY <1>0, <2>1, <3>1, <3>2, DecisionKeepsCause DEF FollowsCause
  <2>3. CASE pc = "afterSoft" /\ Decide("soft_timeout", decision.kill_status)
    <3>1. cause' = "soft_timeout" /\ record = NoRecord
      BY <1>0, <2>1, <2>3 DEF Happens, CauseInv
    <3>2. pc' = "destroy" /\ decision'.terminal_state = "soft_timeout"
      BY <2>3 DEF Decide
    <3> QED
      BY <1>0, <2>1, <3>1, <3>2, DecisionKeepsCause DEF FollowsCause
  <2>4. CASE pc \notin {"race", "afterSoft"} /\ Stays
    <3>1. cause' = cause
      BY <2>1, <2>4 DEF Happens, CauseInv
    <3> QED
      BY <2>1, <2>4, <3>1 DEF Stays, CauseInv, FirstCauseWins, FollowsCause
  <2> QED
    BY <1>6, <2>2, <2>3, <2>4 DEF ExecutionSettles
<1>7. CASE SoftDeadline
  <2>1. pc = "race" /\ pc' = "softKill" /\ UNCHANGED <<handle, record>> /\ record = NoRecord
    BY <1>0, <1>7 DEF SoftDeadline, SoftKill
  <2>2. cause' = "soft_timeout" /\ decision'.terminal_state = "soft_timeout"
    BY <1>0, <1>7 DEF SoftDeadline, SoftKill, Happens, CauseInv
  <2> QED
    BY <2>1, <2>2 DEF CauseInv, FirstCauseWins, FollowsCause
<1>8. CASE HardDeadline
  <2>1. /\ pc = "afterSoft" /\ pc' = "kill" /\ UNCHANGED <<handle, record, cause>>
        /\ record = NoRecord /\ decision'.terminal_state = "hard_timeout"
    BY <1>0, <1>8 DEF HardDeadline, RequestKill
  <2>2. cause = "soft_timeout"
    BY <2>1 DEF CauseInv
  <2> QED
    BY <1>0, <2>1, <2>2, DecisionKeepsCause DEF FollowsCause
<1>9. ASSUME NEW s \in KillStatuses, SoftKillEnds(s) PROVE CauseInv'
  <2>1. /\ pc = "softKill" /\ UNCHANGED <<handle, record, cause>> /\ record = NoRecord
        /\ cause = "soft_timeout" /\ decision.terminal_state = "soft_timeout"
    BY <1>0, <1>9 DEF SoftKillEnds, CauseInv
  <2>2. CASE Decide("soft_timeout", s)
    <3>1. pc' = "destroy" /\ decision'.terminal_state = "soft_timeout"
      BY <2>2 DEF Decide
    <3> QED
      BY <1>0, <2>1, <3>1, DecisionKeepsCause DEF FollowsCause
  <2>3. CASE RequestKill("controlled")
    <3>1. pc' = "kill" /\ decision'.terminal_state = "controlled"
      BY <1>0, <2>3 DEF RequestKill
    <3> QED
      BY <1>0, <2>1, <3>1, DecisionKeepsCause DEF FollowsCause
  <2>4. CASE pc' = "afterSoft" /\ decision' = [decision EXCEPT !.kill_status = s]
    <3>1. decision'.terminal_state = "soft_timeout"
      BY <1>0, <2>1, <2>4
    <3> QED
      BY <2>1, <2>4, <3>1 DEF CauseInv, FirstCauseWins, FollowsCause
  <2> QED
    BY <1>9, <2>2, <2>3, <2>4 DEF SoftKillEnds
<1>10. ASSUME NEW s \in KillStatuses, KillEnds(s) PROVE CauseInv'
  <2>1. /\ pc = "kill" /\ pc' = "destroy" /\ UNCHANGED <<handle, record, cause>>
        /\ record = NoRecord /\ decision'.terminal_state = decision.terminal_state
    BY <1>0, <1>10 DEF KillEnds, Decide
  <2>2. (handle => cause # "none") /\ (cause # "none" => FollowsCause(decision.terminal_state))
    BY <2>1 DEF CauseInv
  <2> QED
    BY <1>0, <2>1, <2>2, DecisionKeepsCause DEF FollowsCause
<1>11. ASSUME NEW result \in {"safe", "unsafe"}, NEW box, Cleaned(result, box) PROVE CauseInv'
  <2>1. pc = "destroy" /\ UNCHANGED <<handle, decision, cause>>
    BY <1>11 DEF Cleaned
  <2>2. CASE pc' = "closing" /\ UNCHANGED record
    BY <2>1, <2>2 DEF CauseInv, FirstCauseWins, FollowsCause
  <2>3. CASE Records(decision.terminal_state, decision.kill_status, result = "safe", TRUE)
    <3>1. cause # "none" => FollowsCause(decision.terminal_state)
      BY <2>1 DEF CauseInv
    <3> QED
      BY <1>0, <2>1, <2>3, <3>1, RecordsKeepCause
  <2> QED
    BY <1>11, <2>2, <2>3 DEF Cleaned
<1>12. CASE StreamClosed \/ CloseGrace
  <2>1. /\ pc = "closing" /\ UNCHANGED <<handle, decision, cause>>
        /\ \E safe, quiet \in BOOLEAN :
             Records(decision.terminal_state, decision.kill_status, safe, quiet)
    BY <1>12 DEF StreamClosed, CloseGrace
  <2>2. cause # "none" => FollowsCause(decision.terminal_state)
    BY <2>1 DEF CauseInv
  <2> QED
    BY <1>0, <2>1, <2>2, RecordsKeepCause
<1>13. CASE RecordSettles
  BY <1>13 DEF RecordSettles, CauseInv, FirstCauseWins, FollowsCause
<1>14. CASE Output \/ ProducerCloses \/ SandboxGoes \/ UNCHANGED vars
  BY <1>14 DEF Output, ProducerCloses, SandboxGoes, vars, CauseInv, FirstCauseWins, FollowsCause
<1> QED
  BY <1>1, <1>2, <1>3, <1>4, <1>5, <1>6, <1>7, <1>8, <1>9, <1>10, <1>11, <1>12, <1>13, <1>14
     DEF Next, Lifecycle, Timer, Environment, KillAnswered, KillGrace, DestroyAnswered,
         DestroyGrace

(* The recorded cause is the first thing that could end the execution, or  *)
(* the escalation of a soft timeout.                                       *)
THEOREM LifecycleFirstCauseWins == Spec => []FirstCauseWins
<1>1. CauseInv => FirstCauseWins
  BY DEF CauseInv
<1> QED
  BY <1>1, CauseInit, CauseStep, LifecycleInvariant, PTL DEF Spec

-----------------------------------------------------------------------------
(* Refinement *)

(* A step that hands out a record is a write of RunRecord. *)
LEMMA RecordsWrite ==
    ASSUME LifecycleInv, record = NoRecord,
           NEW terminal \in TerminalStates, NEW kill \in KillStatuses,
           NEW safe \in BOOLEAN, NEW quiet \in BOOLEAN, Records(terminal, kill, safe, quiet),
           UNCHANGED <<handle, execution, closed, meter>>,
           sandbox' = sandbox \/ (sandbox = "alive" /\ sandbox' = "gone"),
           creation' = creation \/ (creation = "inflight" /\ creation' = "failed"),
           quiet => ~Active,
           safe => quiet /\ sandbox' # "alive" /\ creation' # "inflight"
    PROVE  Promise!Next
<1>1. /\ record' # NoRecord /\ record'.release_safe = safe
      /\ record'.execution_closed = quiet /\ record'.output_event_count = meter
  BY RecordsFacts, NoRecordAssumption DEF LifecycleInv
<1>2. Verdict = "none" /\ Billed' = meter
  BY <1>1 DEF Verdict, Billed
<1>3. Verdict' = IF safe THEN "released" ELSE IF quiet THEN "closed" ELSE "open"
  BY <1>1 DEF Verdict
<1>4. Active' = Active
  BY DEF Active
<1>5. PICK v \in {"open", "closed", "released"} : v = Verdict'
  BY <1>3
<1>6. (v # "open" => quiet) /\ (v = "released" => safe)
  BY <1>3, <1>5
<1>7. Promise!Write(v)
  BY <1>2, <1>4, <1>5, <1>6 DEF Promise!Write
<1> QED
  BY <1>7 DEF Promise!Next

(* A step that neither records nor moves the compute at most quiets or     *)
(* uses the stream.                                                        *)
LEMMA OthersKeep ==
    ASSUME UNCHANGED <<creation, sandbox, handle, closed, meter, record>>,
           execution' = execution \/ execution = "running"
    PROVE  [Promise!Next]_(Promise!run)
<1>1. Verdict' = Verdict /\ Billed' = Billed
  BY DEF Verdict, Billed
<1>2. Active' = Active \/ (Active /\ Active' = FALSE)
  BY DEF Active
<1> QED
  BY <1>1, <1>2 DEF Promise!Next, Promise!Quiet, Promise!run

LEMMA RunRecordInit == Init => Promise!Init
BY DEF Init, Promise!Init, Active, Verdict, Billed

LEMMA RunRecordNext == LifecycleInv /\ [Next]_vars => [Promise!Next]_(Promise!run)
<1> SUFFICES ASSUME LifecycleInv, [Next]_vars PROVE [Promise!Next]_(Promise!run)
  OBVIOUS
<1> DEFINE Goal == [Promise!Next]_(Promise!run)
<1>0. /\ TypeOK /\ CreateInv /\ StreamInv
      /\ decision.terminal_state \in TerminalStates /\ decision.kill_status \in KillStatuses
      /\ Recorded <=> record # NoRecord
  BY DEF LifecycleInv, TypeOK
<1>1. CASE PreAborted
  <2>1. /\ pc = "start" /\ Records("controlled", "not_requested", TRUE, TRUE)
        /\ UNCHANGED <<creation, sandbox, handle, execution, closed, meter>>
    BY <1>1 DEF PreAborted
  <2>2. record = NoRecord /\ ~Active /\ sandbox # "alive" /\ creation # "inflight"
    BY <1>0, <2>1 DEF CreateInv, Active
  <2> QED
    BY <2>1, <2>2, RecordsWrite
<1>2. CASE Create
  <2>1. /\ pc = "start" /\ creation' = "inflight"
        /\ UNCHANGED <<sandbox, handle, execution, closed, meter, record>>
    BY <1>2 DEF Create
  <2>2. record = NoRecord /\ creation = "none" /\ sandbox = "none"
    BY <1>0, <2>1 DEF CreateInv
  <2>3. Verdict = "none" /\ Verdict' = Verdict /\ Billed' = Billed /\ Active' = Active
    BY <2>1, <2>2 DEF Verdict, Billed, Active
  <2>4. Promise!Begin
    BY <2>1, <2>2, <2>3 DEF Promise!Begin
  <2> QED
    BY <2>4 DEF Promise!Next
<1>3. CASE CreateSucceeds
  <2>1. /\ creation = "inflight" /\ creation' = "created" /\ sandbox' = "alive"
        /\ UNCHANGED <<closed, meter, record>>
        /\ pc \in {"create", "createControl"} \/ UNCHANGED <<handle, execution>>
    BY <1>3 DEF CreateSucceeds
  <2>2. ~handle
    BY <1>0, <2>1 DEF CreateInv
  <2>3. handle' => record = NoRecord
    BY <1>0, <2>1, <2>2
  <2>4. Verdict' = Verdict /\ Billed' = Billed
    BY <2>1 DEF Verdict, Billed
  <2>5. Active' => Verdict = "none"
    BY <2>3 DEF Active, Verdict
  <2>6. handle' \in BOOLEAN
    BY <1>0, <1>3 DEF CreateSucceeds, Execute, TypeOK
  <2>7. Active' \in BOOLEAN
    BY <2>6 DEF Active
  <2>8. Promise!Arrive
    BY <2>1, <2>4, <2>5, <2>7 DEF Promise!Arrive
  <2> QED
    BY <2>8 DEF Promise!Next
<1>4. CASE CreateFails
  <2>1. /\ creation = "inflight" /\ creation' = "failed"
        /\ UNCHANGED <<sandbox, handle, execution, closed, meter>>
    BY <1>4 DEF CreateFails
  <2>2. CASE WaitsForCreate /\ Records(CreateTerminal, "not_requested", FALSE, TRUE)
    <3>1. record = NoRecord /\ ~Active
      BY <1>0, <2>1, <2>2 DEF CreateInv, Active
    <3> QED
      BY <2>1, <2>2, <3>1, RecordsWrite DEF CreateTerminal
  <2>3. CASE UNCHANGED record
    <3>1. Verdict' = Verdict /\ Billed' = Billed /\ Active' = Active
      BY <2>1, <2>3 DEF Verdict, Billed, Active
    <3>2. Promise!NeverArrives
      BY <2>1, <3>1 DEF Promise!NeverArrives
    <3> QED
      BY <3>2 DEF Promise!Next
  <2> QED
    BY <1>4, <2>2, <2>3 DEF CreateFails, CreateEnds
<1>5. CASE CreateDeadline
  <2>1. /\ WaitsForCreate /\ Records(CreateTerminal, "not_requested", FALSE, TRUE)
        /\ UNCHANGED <<creation, sandbox, handle, execution, closed, meter>>
    BY <1>5 DEF CreateDeadline, CreateEnds
  <2>2. record = NoRecord /\ ~Active
    BY <1>0, <2>1 DEF CreateInv, Active
  <2> QED
    BY <2>1, <2>2, RecordsWrite DEF CreateTerminal
<1>6. CASE ControlAborts
  BY <1>6, OthersKeep DEF ControlAborts
<1>7. ASSUME NEW o \in Outcomes, ExecutionSettles(o) PROVE Goal
  BY <1>7, OthersKeep DEF ExecutionSettles
<1>8. CASE SoftDeadline \/ HardDeadline
  BY <1>8, OthersKeep DEF SoftDeadline, HardDeadline
<1>9. ASSUME NEW s \in KillStatuses, SoftKillEnds(s) \/ KillEnds(s) PROVE Goal
  BY <1>9, OthersKeep DEF SoftKillEnds, KillEnds
<1>10. ASSUME NEW result \in {"safe", "unsafe"}, NEW box \in {sandbox, "gone"},
              Cleaned(result, box), result = "safe" => box = "gone"
       PROVE  Goal
  <2>1. /\ pc = "destroy" /\ sandbox' = box
        /\ UNCHANGED <<creation, handle, execution, closed, meter>>
    BY <1>10 DEF Cleaned
  <2>2. creation = "created" /\ record = NoRecord
    BY <1>0, <2>1 DEF CreateInv
  <2>3. sandbox' = sandbox \/ (sandbox = "alive" /\ sandbox' = "gone")
    BY <1>0, <2>1, <2>2 DEF CreateInv, TypeOK
  <2>4. CASE UNCHANGED record
    <3>1. Verdict' = Verdict /\ Billed' = Billed /\ Active' = Active
      BY <2>1, <2>4 DEF Verdict, Billed, Active
    <3> QED
      BY <2>1, <2>3, <3>1 DEF Promise!Next, Promise!Go, Promise!run
  <2>5. CASE ~handle /\ Records(decision.terminal_state, decision.kill_status,
                                result = "safe", TRUE)
    <3>1. ~Active
      BY <2>5 DEF Active
    <3> QED
      BY <1>0, <1>10, <2>1, <2>2, <2>3, <2>5, <3>1, RecordsWrite
  <2> QED
    BY <1>10, <2>4, <2>5 DEF Cleaned
<1>11. CASE StreamClosed
  <2>1. /\ pc = "closing" /\ closed /\ Settled
        /\ Records(decision.terminal_state, decision.kill_status, cleanup = "safe", TRUE)
        /\ UNCHANGED <<creation, sandbox, handle, execution, closed, meter, cleanup>>
    BY <1>11 DEF StreamClosed
  <2>2. creation = "created" /\ record = NoRecord /\ ~Active
    BY <1>0, <2>1 DEF CreateInv, Active
  <2>3. cleanup = "safe" => sandbox = "gone"
    BY DEF LifecycleInv, DestroyInv
  <2> QED
    BY <1>0, <2>1, <2>2, <2>3, RecordsWrite
<1>12. CASE CloseGrace
  <2>1. /\ pc = "closing"
        /\ Records(decision.terminal_state, decision.kill_status, FALSE, FALSE)
        /\ UNCHANGED <<creation, sandbox, handle, execution, closed, meter>>
    BY <1>12 DEF CloseGrace
  <2>2. record = NoRecord
    BY <1>0, <2>1
  <2> QED
    BY <1>0, <2>1, <2>2, RecordsWrite
<1>13. CASE RecordSettles
  BY <1>13, OthersKeep DEF RecordSettles
<1>14. CASE Output
  <2>1. /\ execution = "running" /\ meter' = meter + 1
        /\ UNCHANGED <<creation, sandbox, handle, execution, closed, record>>
    BY <1>14 DEF Output
  <2>2. Active
    BY <1>0, <2>1 DEF StreamInv, Active
  <2>3. Verdict' = Verdict /\ Billed' = Billed /\ Active' = Active
    BY <2>1 DEF Verdict, Billed, Active
  <2>4. Promise!Use
    BY <2>1, <2>2, <2>3 DEF Promise!Use
  <2> QED
    BY <2>4 DEF Promise!Next
<1>15. CASE ProducerCloses
  <2>1. /\ handle /\ ~closed /\ closed' = TRUE
        /\ UNCHANGED <<creation, sandbox, handle, execution, meter, record>>
    BY <1>15 DEF ProducerCloses
  <2>2. Verdict' = Verdict /\ Billed' = Billed
    BY <2>1 DEF Verdict, Billed
  <2>3. Active' = Active \/ (Active /\ Active' = FALSE)
    BY <2>1 DEF Active
  <2> QED
    BY <2>1, <2>2, <2>3 DEF Promise!Next, Promise!Quiet, Promise!run
<1>16. CASE SandboxGoes
  <2>1. /\ sandbox = "alive" /\ sandbox' = "gone"
        /\ UNCHANGED <<creation, handle, execution, closed, meter, record>>
    BY <1>16 DEF SandboxGoes
  <2>2. Verdict' = Verdict /\ Billed' = Billed /\ Active' = Active
    BY <2>1 DEF Verdict, Billed, Active
  <2> QED
    BY <2>1, <2>2 DEF Promise!Next, Promise!Go
<1>17. CASE UNCHANGED vars
  BY <1>17, OthersKeep DEF vars
<1>18. CASE DestroyAnswered \/ DestroyGrace
  BY <1>10, <1>18 DEF DestroyAnswered, DestroyGrace
<1> QED
  BY <1>1, <1>2, <1>3, <1>4, <1>5, <1>6, <1>7, <1>8, <1>9, <1>11, <1>12,
     <1>13, <1>14, <1>15, <1>16, <1>17, <1>18
     DEF Next, Lifecycle, Timer, Environment, KillAnswered, KillGrace

(* One record, honest when it is written and from then on: the lifecycle   *)
(* implements RunRecord for any amount of output.                          *)
THEOREM LifecycleImplementsRunRecord == Spec => ImplementsRunRecord
<1>1. Spec => Promise!Spec
  BY RunRecordInit, RunRecordNext, LifecycleInvariant, PTL DEF Spec, Promise!Spec
<1> QED
  BY <1>1 DEF ImplementsRunRecord

-----------------------------------------------------------------------------
(* The safety half of ComesToRecord *)

(* How far the run has come. *)
Rank ==
    IF pc = "start" THEN 0 ELSE IF pc = "create" THEN 1 ELSE IF pc = "createControl" THEN 2
    ELSE IF pc = "race" THEN 3 ELSE IF pc = "softKill" THEN 4 ELSE IF pc = "afterSoft" THEN 5
    ELSE IF pc = "kill" THEN 6 ELSE IF pc = "destroy" THEN 7 ELSE IF pc = "closing" THEN 8
    ELSE IF pc = "recording" THEN 9 ELSE 10

(* Whatever the backend, the stream or the control signal do, the run does *)
(* not go back, and each timer and each step of the lifecycle's own takes  *)
(* it further, so that a run takes no more than ten of them.               *)
THEOREM LifecycleAdvances ==
    Spec => [][Rank' >= Rank /\ (Lifecycle \/ Timer => Rank' > Rank)]_vars
<1> DEFINE Advances == Rank' >= Rank /\ (Lifecycle \/ Timer => Rank' > Rank)
<1>1. ASSUME LifecycleInv, Next PROVE Advances
  <2>0. /\ abandoned => Recorded
        /\ pc \in {"start", "create", "createControl", "race", "softKill", "afterSoft",
                   "kill", "destroy", "closing", "recording", "recorded", "record_failed"}
    BY <1>1 DEF LifecycleInv, TypeOK, CreateInv
  <2>1. Lifecycle \/ Timer => Rank' > Rank
    <3>1. CASE PreAborted \/ Create \/ StreamClosed
      BY <3>1 DEF PreAborted, Create, StreamClosed, Records, Rank
    <3>2. CASE CreateDeadline \/ CloseGrace
      BY <3>2 DEF CreateDeadline, CloseGrace, CreateEnds, Records, Rank
    <3>3. CASE SoftDeadline \/ HardDeadline
      BY <3>3 DEF SoftDeadline, HardDeadline, SoftKill, RequestKill, Rank
    <3>4. CASE KillGrace
      BY <3>4 DEF KillGrace, SoftKillEnds, KillEnds, Decide, RequestKill, Rank
    <3>5. CASE DestroyGrace
      BY <3>5 DEF DestroyGrace, Cleaned, Records, Rank
    <3> QED
      BY <3>1, <3>2, <3>3, <3>4, <3>5 DEF Lifecycle, Timer
  <2>2. Environment => Rank' >= Rank
    <3>1. CASE CreateSucceeds
      BY <2>0, <3>1 DEF CreateSucceeds, Execute, Decide, Rank
    <3>2. CASE CreateFails
      BY <2>0, <3>2 DEF CreateFails, CreateEnds, Records, Rank
    <3>3. CASE ControlAborts
      BY <3>3 DEF ControlAborts, RequestKill, Stays, Rank
    <3>4. ASSUME NEW o \in Outcomes, ExecutionSettles(o) PROVE Rank' >= Rank
      BY <3>4 DEF ExecutionSettles, RequestKill, Decide, Stays, Rank
    <3>5. CASE KillAnswered
      BY <3>5 DEF KillAnswered, SoftKillEnds, KillEnds, Decide, RequestKill, Rank
    <3>6. CASE DestroyAnswered
      BY <3>6 DEF DestroyAnswered, Cleaned, Records, Rank
    <3>7. CASE Output \/ ProducerCloses \/ SandboxGoes
      BY <3>7 DEF Output, ProducerCloses, SandboxGoes, Rank
    <3>8. CASE RecordSettles
      BY <3>8 DEF RecordSettles, Rank
    <3> QED
      BY <3>1, <3>2, <3>3, <3>4, <3>5, <3>6, <3>7, <3>8 DEF Environment
  <2>3. Rank \in Nat /\ Rank' \in Nat
    BY DEF Rank
  <2> QED
    BY <1>1, <2>1, <2>2, <2>3 DEF Next
<1>2. LifecycleInv /\ [Next]_vars => [Advances]_vars
  BY <1>1
<1> QED
  BY <1>2, LifecycleInvariant, PTL DEF Spec
=============================================================================
