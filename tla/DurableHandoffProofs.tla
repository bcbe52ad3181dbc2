------------------------ MODULE DurableHandoffProofs ------------------------
(***************************************************************************)
(* Proofs about the durable handoff, for any set of candidates: what is    *)
(* stored stays consistent through every failure and every compensation.   *)
(***************************************************************************)
EXTENDS DurableHandoff, TLAPS

Unrecorded(c) == c \notin records \cup lateInserts

(* A candidate is under way at these stages. *)
ItemStages == {"read", "put", "undo_put", "insert", "read_back", "undo_record"}

CurrentOK ==
    /\ stage \in ItemStages => current \in Candidates /\ item[current] = "none"
    /\ stage = "insert" => current \in objects

(* Records and their objects.  An insert that may still take effect keeps  *)
(* its object, and has cost the client, so that no later answer of the     *)
(* store can deny it.                                                      *)
StoresOK ==
    /\ records \cup lateInserts \subseteq objects
    /\ lateInserts = {} \/ client = "lost"

(* What is stored of a candidate goes with its result. *)
ItemOK(c) ==
    /\ item[c] = "none" =>
           /\ Unrecorded(c) \/ (c = current /\ stage \in {"read_back", "crashed"})
           /\ \/ c \notin objects \/ c \in strayed
              \/ c = current /\ stage \in (ItemStages \ {"read"}) \cup {"crashed"}
    /\ item[c] = "rejected" => Unrecorded(c) /\ (c \in objects => c \in strayed)
    /\ item[c] = "persisted" => c \in records

EndOK ==
    /\ stage \in {"destroy", "done"} /\ ~thrown => \A c \in Candidates : item[c] # "none"
    /\ stage = "done" /\ sandbox = "live" => cleanup = "destroy_failed"

Inv ==
    /\ TypeOK
    /\ CurrentOK
    /\ StoresOK
    /\ \A c \in Candidates : ItemOK(c)
    /\ EndOK

-----------------------------------------------------------------------------
(* Type correctness *)

LEMMA StepType ==
    ASSUME TypeOK, CurrentOK, Next
    PROVE  TypeOK'
<1>0. stage \in ItemStages => current \in Candidates
    BY DEF CurrentOK
<1> USE DEF TypeOK, stores, Stages, ItemStatuses, Cleanups, ItemStages, Goto, Finish, Throw
<1>1. CASE authorize
    BY <1>1 DEF authorize
<1>2. CASE chooseCandidate
    BY <1>2 DEF chooseCandidate
<1>3. CASE readAndScan
    BY <1>3 DEF readAndScan
<1>4. CASE putObject
    BY <1>0, <1>4 DEF putObject
<1>5. CASE undoPut
    BY <1>5 DEF undoPut, deleteObject
<1>6. CASE insertRecord
    BY <1>0, <1>6 DEF insertRecord
<1>7. CASE readBack
    BY <1>7 DEF readBack
<1>8. CASE undoRecord
    BY <1>8 DEF undoRecord, deleteObject
<1>9. CASE cleanupSandbox
    BY <1>9 DEF cleanupSandbox
<1>10. CASE SandboxEnds
    BY <1>10 DEF SandboxEnds
<1>11. CASE LoseClient
    BY <1>11 DEF LoseClient
<1>12. CASE Crash
    BY <1>12 DEF Crash
<1>13. CASE \E c \in Candidates : LandPut(c) \/ LandInsert(c)
    BY <1>13 DEF LandPut, LandInsert
<1> QED
    BY <1>1, <1>2, <1>3, <1>4, <1>5, <1>6, <1>7, <1>8, <1>9, <1>10, <1>11, <1>12, <1>13
    DEF Next

-----------------------------------------------------------------------------
(* The inductive invariant *)

(* Finishing a candidate whose stored parts fit the result it gets, while  *)
(* nothing stored of another changes.                                      *)
LEMMA FinishOK ==
    ASSUME Inv, TypeOK', NEW status \in ItemStatuses \ {"none"}, Finish(status),
           stage \in ItemStages, StoresOK',
           \A c \in Candidates \ {current} :
               /\ c \in objects' <=> c \in objects
               /\ c \in records' <=> c \in records
               /\ c \in lateInserts' <=> c \in lateInserts
               /\ c \in strayed' <=> c \in strayed,
           status = "rejected" =>
               /\ current \notin records' \cup lateInserts'
               /\ current \in objects' => current \in strayed',
           status = "persisted" => current \in records'
    PROVE  Inv'
<1>1. /\ current \in Candidates /\ item[current] = "none"
      /\ item'[current] = status
      /\ \A c \in Candidates \ {current} : item'[c] = item[c]
      /\ stage' = "choose"
    BY DEF Finish, Inv, TypeOK, CurrentOK
<1>2. CurrentOK'
    BY <1>1 DEF CurrentOK, ItemStages
<1>3. ASSUME NEW c \in Candidates PROVE ItemOK(c)'
  <2>1. CASE c = current
      BY <1>1, <2>1 DEF ItemOK, Unrecorded
  <2>2. CASE c # current
      BY <1>1, <2>2 DEF Inv, ItemOK, Unrecorded
  <2> QED
      BY <2>1, <2>2
<1>4. EndOK'
    BY <1>1 DEF EndOK
<1> QED
    BY <1>2, <1>3, <1>4 DEF Inv

(* Deleting the object of a candidate that has no record and will get none. *)
LEMMA DeleteOK ==
    ASSUME Inv, TypeOK', deleteObject, stage \in {"undo_put", "undo_record"},
           UNCHANGED <<records, latePuts, lateInserts, strayed, client>>
    PROVE  Inv'
<1>1. current \in Candidates /\ Unrecorded(current) /\ stage \in ItemStages
    BY DEF Inv, CurrentOK, ItemOK, ItemStages
<1>2. StoresOK'
    BY <1>1 DEF deleteObject, Inv, StoresOK, Unrecorded
<1>3. CASE objects' = objects \ {current} /\ Finish("rejected")
    BY <1>1, <1>2, <1>3, FinishOK DEF Unrecorded, ItemStatuses
<1>4. CASE objects' \in {objects, objects \ {current}} /\ Finish("cleanup_required")
    BY <1>1, <1>2, <1>4, FinishOK DEF ItemStatuses
<1> QED
    BY <1>3, <1>4 DEF deleteObject

LEMMA HandoffInvariant ==
    Spec => []Inv
<1>1. Init => Inv
    BY DEF Init, Inv, TypeOK, Stages, ItemStatuses, Cleanups, CurrentOK, ItemStages,
           StoresOK, ItemOK, Unrecorded, EndOK
<1>2. ASSUME Inv, Next PROVE Inv'
  <2>t. TypeOK'
      BY <1>2, StepType DEF Inv
  <2>s. TypeOK /\ CurrentOK /\ StoresOK /\ EndOK /\ \A c \in Candidates : ItemOK(c)
      BY <1>2 DEF Inv
  <2>1. CASE authorize
      BY <2>t, <2>s, <2>1 DEF authorize, stores, Goto, Throw, Inv, CurrentOK, ItemStages,
             StoresOK, ItemOK, Unrecorded, EndOK
  <2>2. CASE chooseCandidate
      BY <2>t, <2>s, <2>2 DEF chooseCandidate, stores, Goto, Inv, CurrentOK, ItemStages,
             StoresOK, ItemOK, Unrecorded, EndOK
  <2>3. CASE readAndScan
    <3>1. CASE Goto("put") \/ Throw
        BY <2>t, <2>s, <2>3, <3>1 DEF readAndScan, stores, Goto, Throw, Inv, CurrentOK,
               ItemStages, StoresOK, ItemOK, Unrecorded, EndOK
    <3>2. CASE Finish("rejected")
      <4>1. UNCHANGED stores /\ stage \in ItemStages
          BY <2>3 DEF readAndScan, ItemStages
      <4>2. Unrecorded(current) /\ (current \in objects => current \in strayed)
          BY <2>3, <2>s DEF readAndScan, CurrentOK, ItemOK, ItemStages
      <4>3. StoresOK'
          BY <4>1, <2>s DEF StoresOK, stores
      <4> QED
          BY <1>2, <2>t, <3>2, <4>1, <4>2, <4>3, FinishOK DEF stores, Unrecorded, ItemStatuses
    <3> QED
        BY <2>3, <3>1, <3>2 DEF readAndScan
  <2>4. CASE putObject
      BY <2>t, <2>s, <2>4 DEF putObject, Goto, Inv, CurrentOK, ItemStages,
             StoresOK, ItemOK, Unrecorded, EndOK
  <2>5. CASE undoPut
      BY <1>2, <2>t, <2>5, DeleteOK DEF undoPut
  <2>6. CASE insertRecord
    <3>0. stage \in ItemStages /\ current \in objects
        BY <2>6, <2>s DEF insertRecord, ItemStages, CurrentOK
    <3>1. StoresOK'
        BY <2>6, <2>s, <3>0 DEF insertRecord, StoresOK
    <3>2. CASE Finish("persisted") /\ records' = records \cup {current} /\ UNCHANGED lateInserts
        BY <1>2, <2>t, <2>6, <3>0, <3>1, <3>2, FinishOK DEF insertRecord, ItemStatuses
    <3>3. CASE Goto("read_back")
        BY <2>t, <2>s, <2>6, <3>0, <3>1, <3>3 DEF insertRecord, Goto, Inv, CurrentOK,
               ItemStages, ItemOK, Unrecorded, EndOK
    <3> QED
        BY <2>6, <3>2, <3>3 DEF insertRecord
  <2>7. CASE readBack
    <3>0. stage \in ItemStages /\ UNCHANGED stores
        BY <2>7 DEF readBack, ItemStages
    <3>1. StoresOK'
        BY <2>s, <3>0 DEF StoresOK, stores
    <3>2. CASE Finish("persisted") /\ current \in records
        BY <1>2, <2>t, <3>0, <3>1, <3>2, FinishOK DEF stores, ItemStatuses
    <3>3. CASE Finish("cleanup_required")
        BY <1>2, <2>t, <3>0, <3>1, <3>3, FinishOK DEF stores, ItemStatuses
    <3>4. CASE client = "open" /\ current \notin records /\ Goto("undo_record")
      <4>1. Unrecorded(current)
          BY <2>s, <3>4 DEF Unrecorded, StoresOK
      <4> QED
          BY <2>t, <2>s, <3>0, <3>1, <3>4, <4>1 DEF stores, Goto, Inv, CurrentOK,
                 ItemStages, ItemOK, Unrecorded, EndOK
    <3> QED
        BY <2>7, <3>2, <3>3, <3>4 DEF readBack
  <2>8. CASE undoRecord
      BY <1>2, <2>t, <2>8, DeleteOK DEF undoRecord
  <2>9. CASE cleanupSandbox
      BY <2>t, <2>s, <2>9 DEF cleanupSandbox, stores, Inv, TypeOK, CurrentOK, ItemStages,
             StoresOK, ItemOK, Unrecorded, EndOK
  <2>10. CASE SandboxEnds
      BY <2>t, <2>s, <2>10 DEF SandboxEnds, stores, Inv, CurrentOK,
             StoresOK, ItemOK, Unrecorded, EndOK
  <2>11. CASE LoseClient
      BY <2>t, <2>s, <2>11 DEF LoseClient, Inv, CurrentOK, StoresOK, ItemOK, Unrecorded, EndOK
  <2>12. CASE Crash
      BY <2>t, <2>s, <2>12 DEF Crash, stores, Goto, Inv, CurrentOK, ItemStages,
             StoresOK, ItemOK, Unrecorded, EndOK
  <2>13. ASSUME NEW c \in Candidates, LandPut(c) PROVE Inv'
      BY <2>t, <2>s, <2>13 DEF LandPut, Inv, CurrentOK, StoresOK, ItemOK, Unrecorded, EndOK
  <2>14. ASSUME NEW c \in Candidates, LandInsert(c) PROVE Inv'
    <3>1. \A d \in Candidates : Unrecorded(d)' <=> Unrecorded(d)
        BY <2>14 DEF LandInsert, Unrecorded
    <3> QED
        BY <2>t, <2>s, <2>14, <3>1 DEF LandInsert, Inv, CurrentOK, StoresOK, ItemOK, EndOK
  <2> QED
      BY <1>2, <2>1, <2>2, <2>3, <2>4, <2>5, <2>6, <2>7, <2>8, <2>9, <2>10, <2>11, <2>12,
         <2>13, <2>14 DEF Next
<1>3. ASSUME Inv, UNCHANGED vars PROVE Inv'
    BY <1>3 DEF Inv, TypeOK, CurrentOK, StoresOK, ItemOK, Unrecorded, EndOK, vars, stores
<1> QED
    BY <1>1, <1>2, <1>3, PTL DEF Spec

-----------------------------------------------------------------------------
(* The theorems *)

(* TypeOK: every variable has its type in every reachable state. *)
THEOREM HandoffTypeSafe ==
    Spec => []TypeOK
<1>1. Inv => TypeOK
    BY DEF Inv
<1> QED
    BY <1>1, HandoffInvariant, PTL

(* RecordHasObject: no failure and no compensation leaves a record whose   *)
(* object is missing, and what is reported as persisted is recorded.       *)
THEOREM RecordsHaveObjects ==
    Spec => []RecordHasObject
<1>1. Inv => RecordHasObject
    BY DEF Inv, StoresOK, ItemOK, RecordHasObject
<1> QED
    BY <1>1, HandoffInvariant, PTL

(* RejectedLeavesNothing: a rejected candidate has no record, now or       *)
(* later, and no object but a late one.                                    *)
THEOREM RejectedLeaveNothing ==
    Spec => []RejectedLeavesNothing
<1>1. Inv => RejectedLeavesNothing
    BY DEF Inv, ItemOK, Unrecorded, RejectedLeavesNothing
<1> QED
    BY <1>1, HandoffInvariant, PTL

(* HandoffEndsClean: an ended handoff has destroyed the sandbox or says    *)
(* that it has not, and is safe to release only when nothing is left over. *)
THEOREM HandoffsEndClean ==
    Spec => []HandoffEndsClean
<1>1. Inv => HandoffEndsClean
  <2> SUFFICES ASSUME Inv, stage = "done"
               PROVE  /\ sandbox = "live" => cleanup = "destroy_failed"
                      /\ releaseSafe => sandbox = "gone" /\ objects \ strayed \subseteq records
      BY DEF HandoffEndsClean
  <2>1. sandbox = "live" => cleanup = "destroy_failed"
      BY DEF Inv, EndOK
  <2>2. ASSUME releaseSafe PROVE sandbox = "gone"
      BY <2>1, <2>2 DEF releaseSafe, Inv, TypeOK
  <2>3. ASSUME releaseSafe PROVE objects \ strayed \subseteq records
    <3>1. \A c \in Candidates : item[c] \in {"rejected", "persisted"}
        BY <2>3 DEF releaseSafe, Inv, EndOK, TypeOK, ItemStatuses
    <3> QED
        BY <3>1 DEF Inv, TypeOK, ItemOK
  <2> QED
      BY <2>1, <2>2, <2>3
<1> QED
    BY <1>1, HandoffInvariant, PTL

-----------------------------------------------------------------------------
(* Refinement *)

Litter == objects \ (records \cup strayed)

(* Finishing a candidate decides its fate, if nothing stored of another    *)
(* changes and what is stored of this one fits.                            *)
LEMMA FinishDecides ==
    ASSUME Inv, NEW status \in {"persisted", "rejected", "cleanup_required"}, Finish(status),
           stage \in ItemStages, records' = records \/ records' = records \cup {current},
           Litter' \ {current} = Litter \ {current}, strayed' = strayed,
           status = "persisted" => current \in records',
           status = "rejected" => current \notin records' \cup Litter'
    PROVE  Keeper!Next
<1>1. /\ current \in Candidates /\ item[current] = "none"
      /\ item' = [item EXCEPT ![current] = status]
      /\ sandbox' = sandbox /\ stage' = "choose"
    BY DEF Finish, Inv, CurrentOK
<1>2. Over = "no" /\ Over' = "no"
    BY <1>1 DEF Over, ItemStages
<1>3. records' \ {current} = records \ {current} /\ records \subseteq records'
    OBVIOUS
<1>4. Keeper!Decide(current, status)
    BY <1>1, <1>2, <1>3 DEF Keeper!Decide, Keeper!Touches, Litter
<1> QED
    BY <1>1, <1>4 DEF Keeper!Next

(* Going on with a candidate touches nothing but what is stored of it. *)
LEMMA GotoWorks ==
    ASSUME Inv, NEW next \in Stages, Goto(next), stage \in ItemStages,
           next \notin {"done", "crashed"},
           records' = records \/ records' = records \cup {current},
           Litter' \ {current} = Litter \ {current}, strayed' = strayed
    PROVE  Keeper!Next
<1>1. current \in Candidates /\ item[current] = "none"
    BY DEF Inv, CurrentOK
<1>2. Over = "no" /\ Over' = "no"
    BY DEF Over, ItemStages, Goto
<1>3. Keeper!Work(current)
    BY <1>1, <1>2 DEF Keeper!Work, Keeper!Touches, Litter, Goto
<1> QED
    BY <1>1, <1>3 DEF Keeper!Next

(* A step between two stages that are not the end, with nothing stored,    *)
(* decided or destroyed, is none for the keeper.                           *)
LEMMA Unseen ==
    ASSUME UNCHANGED <<sandbox, objects, records, strayed, item>>,
           \/ stage \notin {"done", "crashed"} /\ stage' \notin {"done", "crashed"}
           \/ UNCHANGED <<stage, thrown, cleanup>>
    PROVE  UNCHANGED Keeper!promise
<1>1. Over' = Over
    BY DEF Over, releaseSafe
<1> QED
    BY <1>1 DEF Keeper!promise

LEMMA DeleteDecides ==
    ASSUME Inv, deleteObject, stage \in {"undo_put", "undo_record"},
           UNCHANGED <<records, strayed>>
    PROVE  Keeper!Next
<1>1. current \notin records /\ stage \in ItemStages
    BY DEF Inv, CurrentOK, ItemOK, Unrecorded, ItemStages
<1>2. Litter' \ {current} = Litter \ {current}
    BY DEF deleteObject, Litter
<1>3. CASE objects' = objects \ {current} /\ Finish("rejected")
  <2>1. current \notin records' \cup Litter'
      BY <1>1, <1>3 DEF Litter
  <2> QED
      BY <1>1, <1>2, <1>3, <2>1, FinishDecides
<1>4. CASE Finish("cleanup_required")
    BY <1>1, <1>2, <1>4, FinishDecides
<1> QED
    BY <1>3, <1>4 DEF deleteObject

LEMMA EndKeeps ==
    ASSUME Inv, cleanupSandbox
    PROVE  Keeper!Next
<1>1. /\ stage = "destroy" /\ stage' = "done"
      /\ sandbox' = sandbox \/ (sandbox = "live" /\ sandbox' = "gone")
      /\ sandbox' = "live" => cleanup' = "destroy_failed"
      /\ UNCHANGED <<objects, records, strayed, item, thrown>>
    BY DEF cleanupSandbox, stores, Inv, TypeOK
<1>2. Over = "no" /\ Over' = IF releaseSafe' THEN "clean" ELSE "dirty"
    BY <1>1 DEF Over
<1>3. CASE releaseSafe'
  <2>1. sandbox' # "live" /\ ~thrown
      BY <1>1, <1>3 DEF releaseSafe
  <2>2. \A c \in Candidates : item[c] \in {"persisted", "rejected"}
      BY <1>1, <1>3, <2>1 DEF releaseSafe, Inv, TypeOK, EndOK, ItemStatuses
  <2>3. Litter = {}
      BY <2>2 DEF Litter, Inv, TypeOK, ItemOK
  <2>4. Keeper!End("clean")
      BY <1>1, <1>2, <1>3, <2>1, <2>2, <2>3 DEF Keeper!End, Litter
  <2> QED
      BY <2>4 DEF Keeper!Next
<1>4. CASE ~releaseSafe'
  <2>1. Keeper!End("dirty")
      BY <1>1, <1>2, <1>4 DEF Keeper!End
  <2> QED
      BY <2>1 DEF Keeper!Next
<1> QED
    BY <1>3, <1>4

(* An insert that takes effect late is one of a candidate on which nothing *)
(* was decided but that it needs a cleanup, or one whose record is there.  *)
LEMMA LandInsertKeeps ==
    ASSUME Inv, NEW c \in Candidates, LandInsert(c)
    PROVE  [Keeper!Next]_(Keeper!promise)
<1>1. /\ c \in lateInserts /\ records' = records \cup {c}
      /\ UNCHANGED <<sandbox, objects, strayed, stage, item, thrown, cleanup>>
    BY DEF LandInsert
<1>2. Over' = Over
    BY <1>1 DEF Over, releaseSafe
<1>3. CASE c \in records
  <2>1. records' = records
      BY <1>1, <1>3
  <2> QED
      BY <1>1, <1>2, <2>1 DEF Keeper!promise
<1>4. CASE c \notin records
  <2>1. item[c] \in {"none", "cleanup_required"}
      BY <1>1, <1>4 DEF Inv, TypeOK, ItemStatuses, ItemOK, Unrecorded
  <2>2. Over # "clean"
      BY <2>1 DEF Over, releaseSafe, Inv, EndOK
  <2>3. Litter' = Litter \ {c}
      BY <1>1 DEF Litter
  <2>4. Keeper!ComeLate(c)
      BY <1>1, <1>2, <2>1, <2>2, <2>3 DEF Keeper!ComeLate, Litter
  <2> QED
      BY <2>4 DEF Keeper!Next
<1> QED
    BY <1>3, <1>4

LEMMA StepKeeps ==
    ASSUME Inv, Next
    PROVE  [Keeper!Next]_(Keeper!promise)
<1>1. CASE authorize
    BY <1>1, Unseen DEF authorize, Throw, Goto, stores
<1>2. CASE chooseCandidate
    BY <1>2, Unseen DEF chooseCandidate, Goto, stores
<1>3. CASE readAndScan
  <2>0. stage = "read" /\ UNCHANGED stores
      BY <1>3 DEF readAndScan
  <2>1. CASE Goto("put") \/ Throw
      BY <2>0, <2>1, Unseen DEF Goto, Throw, stores
  <2>2. CASE Finish("rejected")
    <3>1. stage \in ItemStages
        BY <2>0 DEF ItemStages
    <3>2. Litter' = Litter
        BY <2>0 DEF Litter, stores
    <3>3. current \notin records /\ current \notin Litter
        BY <2>0 DEF Inv, CurrentOK, ItemStages, ItemOK, Unrecorded, Litter
    <3> QED
        BY <2>0, <2>2, <3>1, <3>2, <3>3, FinishDecides DEF stores
  <2> QED
      BY <1>3, <2>1, <2>2 DEF readAndScan
<1>4. CASE putObject
  <2>1. stage \in ItemStages /\ UNCHANGED <<records, strayed>>
      BY <1>4 DEF putObject, ItemStages
  <2>2. Litter' \ {current} = Litter \ {current}
      BY <1>4 DEF putObject, Litter
  <2>3. PICK next \in {"insert", "undo_put"} : Goto(next)
      BY <1>4 DEF putObject
  <2> QED
      BY <2>1, <2>2, <2>3, GotoWorks DEF Stages
<1>5. CASE undoPut
    BY <1>5, DeleteDecides DEF undoPut
<1>6. CASE insertRecord
  <2>1. /\ stage \in ItemStages /\ UNCHANGED <<objects, strayed>>
        /\ records' = records \/ records' = records \cup {current}
      BY <1>6 DEF insertRecord, ItemStages
  <2>2. Litter' \ {current} = Litter \ {current}
      BY <2>1 DEF Litter
  <2>3. CASE Finish("persisted") /\ records' = records \cup {current}
      BY <2>1, <2>2, <2>3, FinishDecides
  <2>4. CASE Goto("read_back")
      BY <2>1, <2>2, <2>4, GotoWorks DEF Stages
  <2> QED
      BY <1>6, <2>3, <2>4 DEF insertRecord
<1>7. CASE readBack
  <2>1. stage \in ItemStages /\ UNCHANGED stores /\ stage = "read_back"
      BY <1>7 DEF readBack, ItemStages
  <2>2. Litter' = Litter
      BY <2>1 DEF Litter, stores
  <2>3. CASE Finish("persisted") /\ current \in records
      BY <2>1, <2>2, <2>3, FinishDecides DEF stores
  <2>4. CASE Finish("cleanup_required")
      BY <2>1, <2>2, <2>4, FinishDecides DEF stores
  <2>5. CASE Goto("undo_record")
      BY <2>1, <2>5, Unseen DEF Goto, stores
  <2> QED
      BY <1>7, <2>3, <2>4, <2>5 DEF readBack
<1>8. CASE undoRecord
    BY <1>8, DeleteDecides DEF undoRecord
<1>9. CASE cleanupSandbox
    BY <1>9, EndKeeps
<1>10. CASE SandboxEnds
  <2>1. /\ sandbox = "live" /\ sandbox' = "gone"
        /\ UNCHANGED <<objects, records, strayed, stage, item, thrown, cleanup>>
      BY <1>10 DEF SandboxEnds, stores
  <2>2. Keeper!Stop
      BY <2>1 DEF Keeper!Stop, Over, releaseSafe
  <2> QED
      BY <2>2 DEF Keeper!Next
<1>11. CASE LoseClient
    BY <1>11, Unseen DEF LoseClient
<1>12. CASE Crash
  <2>1. /\ stage \notin {"done", "crashed"} /\ stage' = "crashed"
        /\ UNCHANGED <<sandbox, objects, records, strayed, item>>
      BY <1>12 DEF Crash, Goto, stores
  <2>2. Keeper!End("dirty")
      BY <2>1 DEF Keeper!End, Over
  <2> QED
      BY <2>2 DEF Keeper!Next
<1>13. ASSUME NEW c \in Candidates, LandPut(c) PROVE Keeper!Next
  <2>1. /\ objects' = objects \cup {c} /\ strayed' = strayed \cup {c}
        /\ UNCHANGED <<sandbox, records, stage, item, thrown, cleanup>>
      BY <1>13 DEF LandPut
  <2>2. Litter' = Litter \ {c} /\ Over' = Over
      BY <2>1 DEF Litter, Over, releaseSafe
  <2>3. Keeper!Stray(c)
      BY <2>1, <2>2 DEF Keeper!Stray, Litter
  <2> QED
      BY <2>3 DEF Keeper!Next
<1>14. ASSUME NEW c \in Candidates, LandInsert(c) PROVE [Keeper!Next]_(Keeper!promise)
    BY <1>14, LandInsertKeeps
<1> QED
    BY <1>1, <1>2, <1>3, <1>4, <1>5, <1>6, <1>7, <1>8, <1>9, <1>10, <1>11, <1>12, <1>13,
       <1>14 DEF Next

(* ImplementsArchive: each output is decided once and left alone, and a    *)
(* clean end is one with nothing left, for any set of candidates.          *)
THEOREM HandoffImplementsArchive ==
    Spec => ImplementsArchive
<1>1. Init => Keeper!Init
    BY DEF Init, Keeper!Init, Over
<1>2. Inv /\ [Next]_vars => [Keeper!Next]_(Keeper!promise)
  <2>1. ASSUME UNCHANGED vars PROVE UNCHANGED Keeper!promise
      BY <2>1, Unseen DEF vars, stores
  <2> QED
      BY <2>1, StepKeeps
<1>3. Spec => Keeper!Spec
    BY <1>1, <1>2, HandoffInvariant, PTL DEF Spec, Keeper!Spec
<1> QED
    BY <1>3 DEF ImplementsArchive

=============================================================================
