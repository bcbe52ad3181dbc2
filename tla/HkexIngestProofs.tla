-------------------------- MODULE HkexIngestProofs --------------------------
(***************************************************************************)
(* Proofs about the HKEX News ingest, for any number of invocations,       *)
(* documents and ranks, and reports of any length: its type invariant, and *)
(* what holds of a version that is being worked on or has been released.   *)
(***************************************************************************)
EXTENDS HkexIngest, FiniteSetTheorems, TLAPS

(* What holds of an invocation while its session lives: past the lock it   *)
(* holds it, and what it has read or written still stands.                 *)
CallOK(p) ==
    /\ call[p].session => call[p].stage \notin Answers \cup {"idle"}
    /\ call[p].session /\ call[p].stage # "lock" => lock = p
    /\ At(p, "daily", "open") => release # "released"
    /\ \A stage \in {"crawl", "fail", "save"} :
           At(p, "daily", stage) => release = "held" /\ crawl.status = "running"
    /\ At(p, "release", "update") => Passes

(* What is stored belongs to the last completed run, except for facts that *)
(* earlier runs left under other ranks of its documents.                   *)
StoredOK ==
    /\ observed = DocumentsOf(facts)
    /\ transform # NoTransform =>
           /\ transform = [documents |-> Len(saved), facts |-> Len(saved)]
           /\ observed = DocumentsOf(ItemsOf(saved))
           /\ ItemsOf(saved) \subseteq facts

Inv ==
    /\ TypeOK
    /\ \A p \in Invocations : CallOK(p)
    /\ StoredOK
    /\ ReleasedIsLastReport

-----------------------------------------------------------------------------
(* Reports and counts *)

(* The items of a report are finitely many, no more than it has entries,   *)
(* and so are their documents.                                             *)
LEMMA ReportCounts ==
    ASSUME NEW report \in Reports
    PROVE  /\ Len(report) \in Nat
           /\ ItemsOf(report) \in SUBSET Items
           /\ IsFiniteSet(ItemsOf(report))
           /\ Cardinality(ItemsOf(report)) <= Len(report)
           /\ Cardinality(DocumentsOf(ItemsOf(report))) <= Cardinality(ItemsOf(report))
<1>1. PICK n \in 0 .. MaxItems : report \in [1 .. n -> Items]
    BY DEF Reports
<1>2. n \in Nat
    BY <1>1, ConstantsAssumption
<1>3. Len(report) = n /\ DOMAIN report = 1 .. n
    BY <1>1, <1>2
<1>4. ItemsOf(report) \in SUBSET Items
    BY <1>1 DEF ItemsOf
<1>5. IsFiniteSet(1 .. n) /\ Cardinality(1 .. n) = n
    BY <1>2, FS_Interval
<1>6. IsFiniteSet(ItemsOf(report)) /\ Cardinality(ItemsOf(report)) <= n
  <2>1. report \in Surjection(1 .. n, ItemsOf(report))
      BY <1>1, <1>3 DEF Surjection, ItemsOf
  <2> QED
      BY <2>1, <1>5, FS_Surjection
<1>7. Cardinality(DocumentsOf(ItemsOf(report))) <= Cardinality(ItemsOf(report))
  <2> DEFINE first == [item \in ItemsOf(report) |-> item[1]]
  <2>1. first \in Surjection(ItemsOf(report), DocumentsOf(ItemsOf(report)))
      BY DEF Surjection, DocumentsOf
  <2> QED
      BY <2>1, <1>6, FS_Surjection
<1> QED
    BY <1>2, <1>3, <1>4, <1>6, <1>7

(* Items of a report that are among the facts are all of them when there   *)
(* are as many documents, and as many facts, as the report has entries.    *)
LEMMA CountsSuffice ==
    ASSUME NEW report \in Reports, NEW stored \in SUBSET Items,
           ItemsOf(report) \subseteq stored,
           Cardinality(DocumentsOf(ItemsOf(report))) = Len(report),
           Cardinality(stored) = Len(report)
    PROVE  stored = ItemsOf(report)
<1>1. IsFiniteSet(Items)
    BY FS_Product, ConstantsAssumption DEF Items
<1>2. IsFiniteSet(stored)
    BY <1>1, FS_Subset
<1>3. /\ Cardinality(ItemsOf(report)) \in Nat
      /\ Cardinality(ItemsOf(report)) = Len(report)
    BY ReportCounts, FS_CardinalityType
<1> QED
    BY <1>2, <1>3, FS_Subset

(* A version that passes validation holds the last report and no more. *)
LEMMA PassesMeansLastReport ==
    ASSUME TypeOK, StoredOK, Passes
    PROVE  facts = ItemsOf(saved) /\ crawl = [status |-> "completed", errors |-> 0]
<1>1. /\ transform = [documents |-> Len(saved), facts |-> Len(saved)]
      /\ observed = DocumentsOf(ItemsOf(saved))
      /\ ItemsOf(saved) \subseteq facts
    BY DEF StoredOK, Passes
<1>2. /\ Cardinality(DocumentsOf(ItemsOf(saved))) = Len(saved)
      /\ Cardinality(facts) = Len(saved)
    BY <1>1 DEF Passes
<1>3. facts = ItemsOf(saved)
    BY <1>1, <1>2, CountsSuffice DEF TypeOK
<1> QED
    BY <1>3 DEF Passes, TypeOK, CrawlRuns

-----------------------------------------------------------------------------
(* Type correctness *)

LEMMA InitType ==
    Init => TypeOK
<1> SUFFICES ASSUME Init PROVE TypeOK
    OBVIOUS
<1>1. <<>> \in Reports
    BY ConstantsAssumption DEF Reports
<1>2. call \in [Invocations -> Invocation]
    BY <1>1 DEF Init, Invocation, Stages
<1> QED
    BY <1>1, <1>2 DEF Init, TypeOK, ReleaseStates, CrawlRuns

(* Leaving keeps the types of the two variables that it writes. *)
LEMMA ExitType ==
    ASSUME TypeOK, NEW p \in Invocations, NEW answer \in Answers, Exit(p, answer)
    PROVE  call' \in [Invocations -> Invocation] /\ lock' \in Invocations \cup {Nobody}
BY DEF TypeOK, Exit, Exited, Unlocked, Invocation, Stages

LEMMA GotoType ==
    ASSUME TypeOK, NEW p \in Invocations, NEW stage \in Stages, Goto(p, stage)
    PROVE  call' \in [Invocations -> Invocation] /\ lock' \in Invocations \cup {Nobody}
BY DEF TypeOK, Goto, Invocation

LEMMA StepType ==
    ASSUME TypeOK, NEW p \in Invocations, Step(p)
    PROVE  TypeOK'
<1>0. {"completed", "released", "skipped_locked", "not_mutable", "crawl_failed",
       "not_found", "not_held", "not_validated", "database_failure"} \subseteq Answers
    BY DEF Answers
<1>s. {"lock", "open", "crawl", "update"} \subseteq Stages
    BY DEF Stages, DailyStages, ReleaseStages
<1>1. CASE Connect(p)
    BY <1>1, <1>s DEF Connect, TypeOK, version, Invocation
<1>2. CASE TryLock(p)
  <2>1. CASE lock = Nobody
      BY <1>2, <2>1 DEF TryLock, TypeOK, version, Invocation, Stages, DailyStages, ReleaseStages
  <2>2. CASE lock # Nobody
      BY <1>2, <2>2, <1>0, ExitType DEF TryLock, TypeOK, version
  <2> QED
      BY <2>1, <2>2
<1>3. CASE LoseSession(p)
    BY <1>3 DEF LoseSession, TypeOK, version, Invocation, Unlocked
<1>4. CASE Fail(p)
    BY <1>4, <1>0, ExitType DEF Fail, TypeOK, version
<1>5. CASE ReadReleaseState(p)
    BY <1>5, <1>0, <1>s, ExitType, GotoType DEF ReadReleaseState, TypeOK, version
<1>6. CASE OpenRun(p)
    BY <1>6, <1>0, <1>s, ExitType, GotoType
    DEF OpenRun, AfterCommit, TypeOK, ReleaseStates, CrawlRuns
<1>7. CASE runScrapy(p)
  <2>1. call' \in [Invocations -> Invocation]
      BY <1>7 DEF runScrapy, TypeOK, Invocation, Stages, DailyStages
  <2> QED
      BY <1>7, <2>1 DEF runScrapy, TypeOK, version
<1>8. CASE markCrawlFailed(p)
    BY <1>8, <1>0, ExitType DEF markCrawlFailed, TypeOK, CrawlRuns
<1>9. CASE SaveRun(p)
  <2>1. call[p].report \in Reports
      BY DEF TypeOK, Invocation
  <2>2. ItemsOf(call[p].report) \in SUBSET Items /\ Len(call[p].report) \in Nat
      BY <2>1, ReportCounts
  <2>3. DocumentsOf(ItemsOf(call[p].report)) \in SUBSET Documents
      BY <2>2 DEF DocumentsOf, Items
  <2>4. Reconciled(call[p].report) \in SUBSET Items
      BY DEF Reconciled, TypeOK
  <2>5. call' \in [Invocations -> Invocation] /\ lock' \in Invocations \cup {Nobody}
      BY <1>9, <1>0, ExitType DEF SaveRun
  <2> QED
      BY <1>9, <2>1, <2>2, <2>3, <2>4, <2>5
      DEF SaveRun, TypeOK, CrawlRuns, Transforms
<1>10. CASE Validate(p)
    BY <1>10, <1>0, <1>s, ExitType, GotoType DEF Validate, TypeOK, version
<1>11. CASE Release(p)
    BY <1>11, <1>0, ExitType DEF Release, TypeOK, ReleaseStates
<1> QED
    BY <1>1, <1>2, <1>3, <1>4, <1>5, <1>6, <1>7, <1>8, <1>9, <1>10, <1>11 DEF Step

(* TypeOK: every variable has its type in every reachable state. *)
THEOREM IngestTypeSafe ==
    Spec => []TypeOK
<1>1. Init => TypeOK
    BY InitType
<1>2. TypeOK /\ [Next]_vars => TypeOK'
  <2>1. ASSUME TypeOK, UNCHANGED vars PROVE TypeOK'
      BY <2>1 DEF TypeOK, vars, version
  <2> QED
      BY <2>1, StepType DEF Next
<1> QED
    BY <1>1, <1>2, PTL DEF Spec

-----------------------------------------------------------------------------
(* The inductive invariant *)

(* A step of one invocation leaves what holds of another: either it writes *)
(* nothing of the version, or it holds the lock, and the other does not.   *)
LEMMA OthersKeep ==
    ASSUME Inv, NEW p \in Invocations, NEW q \in Invocations, p # q,
           call'[q] = call[q],
           lock = q => lock' = q,
           UNCHANGED version \/ lock = p
    PROVE  CallOK(q)'
<1>0. CallOK(q)
    BY DEF Inv
<1>1. CASE UNCHANGED version
  <2>1. Passes' <=> Passes
      BY <1>1 DEF Passes, version
  <2> QED
      BY <1>0, <1>1, <2>1 DEF CallOK, At, version
<1>2. CASE lock = p
  <2>1. ~(call[q].session /\ call[q].stage # "lock")
      BY <1>0, <1>2 DEF CallOK
  <2> QED
      BY <2>1, <1>0 DEF CallOK, At
<1> QED
    BY <1>1, <1>2

(* An invocation that has lost its session, or left, is bound to nothing. *)
LEMMA Detached ==
    ASSUME NEW p \in Invocations, ~call'[p].session
    PROVE  CallOK(p)'
BY DEF CallOK, At

(* What leaving does to the invocations. *)
LEMMA ExitOK ==
    ASSUME Inv, NEW p \in Invocations, NEW answer, Exit(p, answer),
           UNCHANGED version \/ lock = p
    PROVE  \A q \in Invocations : CallOK(q)'
<1>1. /\ ~call'[p].session
      /\ \A q \in Invocations \ {p} : call'[q] = call[q] /\ (lock = q => lock' = q)
    BY DEF Exit, Exited, Unlocked, Inv, TypeOK, Invocation
<1> QED
    BY <1>1, Detached, OthersKeep

(* What is stored stays right when nothing of it changes. *)
LEMMA StoredKeeps ==
    ASSUME Inv, UNCHANGED <<observed, facts, transform, saved>>
    PROVE  StoredOK'
BY DEF Inv, StoredOK

LEMMA VersionKeeps ==
    ASSUME Inv, UNCHANGED <<version, saved>>
    PROVE  StoredOK' /\ ReleasedIsLastReport'
BY DEF Inv, StoredOK, ReleasedIsLastReport, version

(* Going on under the lock with nothing of the version changed: only the   *)
(* invocation itself has anything new to satisfy.                          *)
LEMMA LocalStep ==
    ASSUME Inv, TypeOK', NEW p \in Invocations, UNCHANGED <<version, saved>>,
           \A q \in Invocations \ {p} : call'[q] = call[q] /\ (lock = q => lock' = q),
           CallOK(p)'
    PROVE  Inv'
BY OthersKeep, VersionKeeps DEF Inv

LEMMA ExitStep ==
    ASSUME Inv, TypeOK', NEW p \in Invocations, NEW answer, Exit(p, answer),
           UNCHANGED <<version, saved>>
    PROVE  Inv'
BY ExitOK, VersionKeeps DEF Inv

LEMMA GotoOthers ==
    ASSUME Inv, NEW p \in Invocations, NEW stage, Goto(p, stage)
    PROVE  /\ call'[p] = [call[p] EXCEPT !.stage = stage]
           /\ \A q \in Invocations \ {p} : call'[q] = call[q] /\ (lock = q => lock' = q)
           /\ call[p] \in Invocation
BY DEF Goto, Inv, TypeOK

LEMMA ConnectInv ==
    ASSUME Inv, TypeOK', NEW p \in Invocations, Connect(p)
    PROVE  Inv'
<1>1. call'[p] = [call[p] EXCEPT !.stage = "lock", !.session = TRUE]
    BY DEF Connect, Inv, TypeOK
<1>2. \A q \in Invocations \ {p} : call'[q] = call[q] /\ (lock = q => lock' = q)
    BY DEF Connect, Inv, TypeOK
<1>3. CallOK(p)'
    BY <1>1 DEF CallOK, At, Answers, Inv, TypeOK, Invocation
<1> QED
    BY <1>2, <1>3, LocalStep DEF Connect

LEMMA TryLockInv ==
    ASSUME Inv, TypeOK', NEW p \in Invocations, TryLock(p)
    PROVE  Inv'
<1>1. CASE lock = Nobody
  <2>1. lock' = p /\ UNCHANGED <<version, saved>>
      BY <1>1 DEF TryLock
  <2>2. /\ call[p] \in Invocation
        /\ call'[p] = [call[p] EXCEPT !.stage =
                           IF call[p].kind = "daily" THEN "state" ELSE "validate"]
      BY <1>1 DEF TryLock, Inv, TypeOK
  <2>3. \A q \in Invocations \ {p} : call'[q] = call[q] /\ (lock = q => lock' = q)
      BY <1>1, ConstantsAssumption DEF TryLock, Inv, TypeOK
  <2>4. CallOK(p)'
      BY <2>1, <2>2 DEF CallOK, At, Answers, Invocation
  <2> QED
      BY <2>1, <2>3, <2>4, LocalStep
<1>2. CASE lock # Nobody
    BY <1>2, ExitStep DEF TryLock
<1> QED
    BY <1>1, <1>2

LEMMA LoseSessionInv ==
    ASSUME Inv, TypeOK', NEW p \in Invocations, LoseSession(p)
    PROVE  Inv'
<1>1. ~call'[p].session
    BY DEF LoseSession, Inv, TypeOK, Invocation
<1>2. \A q \in Invocations \ {p} : call'[q] = call[q] /\ (lock = q => lock' = q)
    BY DEF LoseSession, Unlocked, Inv, TypeOK
<1> QED
    BY <1>1, <1>2, Detached, LocalStep DEF LoseSession

LEMMA ReadReleaseStateInv ==
    ASSUME Inv, TypeOK', NEW p \in Invocations, ReadReleaseState(p)
    PROVE  Inv'
<1>1. CASE release \in {"none", "held"}
  <2>1. Goto(p, "open") /\ UNCHANGED <<version, saved>>
      BY <1>1 DEF ReadReleaseState
  <2>2. lock = p /\ lock' = lock
      BY <2>1 DEF ReadReleaseState, At, Inv, CallOK, Goto
  <2>3. release' # "released"
      BY <1>1, <2>1 DEF version
  <2>g. call[p] \in Invocation /\ call'[p] = [call[p] EXCEPT !.stage = "open"]
      BY <2>1, GotoOthers
  <2>4. CallOK(p)'
      BY <2>g, <2>2, <2>3 DEF CallOK, At, Answers, Invocation
  <2> QED
      BY <2>1, <2>4, GotoOthers, LocalStep
<1>2. CASE release \notin {"none", "held"}
    BY <1>2, ExitStep DEF ReadReleaseState
<1> QED
    BY <1>1, <1>2

LEMMA ValidateInv ==
    ASSUME Inv, TypeOK', NEW p \in Invocations, Validate(p)
    PROVE  Inv'
<1>1. CASE Passes /\ Goto(p, "update")
  <2>1. UNCHANGED <<version, saved>>
      BY DEF Validate
  <2>2. lock = p /\ lock' = lock
      BY <1>1 DEF Validate, At, Inv, CallOK, Goto
  <2>3. Passes'
      BY <1>1, <2>1 DEF Passes, version
  <2>g. call[p] \in Invocation /\ call'[p] = [call[p] EXCEPT !.stage = "update"]
      BY <1>1, GotoOthers
  <2>4. CallOK(p)'
      BY <2>g, <2>2, <2>3 DEF CallOK, At, Answers, Invocation
  <2> QED
      BY <1>1, <2>1, <2>4, GotoOthers, LocalStep
<1>2. CASE \E answer \in Answers : Exit(p, answer)
    BY <1>2, ExitStep DEF Validate
<1> QED
    BY <1>1, <1>2 DEF Validate, Answers

LEMMA runScrapyInv ==
    ASSUME Inv, TypeOK', NEW p \in Invocations, runScrapy(p)
    PROVE  Inv'
<1>1. \A q \in Invocations \ {p} : call'[q] = call[q] /\ (lock = q => lock' = q)
    BY DEF runScrapy, Inv, TypeOK
<1>2. /\ call[p] \in Invocation
      /\ call[p].kind = "daily" /\ call[p].stage = "crawl"
      /\ call'[p].kind = call[p].kind /\ call'[p].session = call[p].session
      /\ call'[p].stage \in {"save", "fail"}
    BY DEF runScrapy, Inv, TypeOK, Invocation
<1>3. release' = release /\ crawl' = crawl /\ lock' = lock
    BY DEF runScrapy, version
<1>4. CallOK(p)
    BY DEF Inv
<1>5. CallOK(p)'
    BY <1>2, <1>3, <1>4 DEF CallOK, At, Answers
<1> QED
    BY <1>1, <1>5, LocalStep DEF runScrapy

(* Who writes the version holds the lock. *)
LEMMA WriterHoldsLock ==
    ASSUME Inv, NEW p \in Invocations, NEW kind, NEW stage, At(p, kind, stage), stage # "lock"
    PROVE  lock = p
BY DEF Inv, CallOK, At

LEMMA OpenRunInv ==
    ASSUME Inv, TypeOK', NEW p \in Invocations, OpenRun(p)
    PROVE  Inv'
<1>1. lock = p
    BY WriterHoldsLock DEF OpenRun
<1>2. release # "released" /\ release' = "held" /\ crawl' = [status |-> "running", errors |-> 0]
  <2>1. release # "released"
      BY DEF OpenRun, Inv, CallOK
  <2> QED
      BY <2>1 DEF OpenRun, Inv, TypeOK, ReleaseStates
<1>3. StoredOK'
    BY StoredKeeps DEF OpenRun
<1>4. ReleasedIsLastReport'
    BY <1>2 DEF ReleasedIsLastReport
<1>5. CASE Goto(p, "crawl")
  <2>1. lock' = p
      BY <1>1, <1>5 DEF Goto
  <2>g. call[p] \in Invocation /\ call'[p] = [call[p] EXCEPT !.stage = "crawl"]
      BY <1>5, GotoOthers
  <2>2. CallOK(p)'
      BY <1>2, <2>g, <2>1 DEF CallOK, At, Answers, Invocation
  <2>3. \A q \in Invocations \ {p} : CallOK(q)'
      BY <1>1, <1>5, GotoOthers, OthersKeep
  <2> QED
      BY <1>3, <1>4, <2>2, <2>3 DEF Inv
<1>6. CASE Exit(p, "database_failure")
    BY <1>1, <1>3, <1>4, <1>6, ExitOK DEF Inv
<1> QED
    BY <1>5, <1>6 DEF OpenRun, AfterCommit

LEMMA markCrawlFailedInv ==
    ASSUME Inv, TypeOK', NEW p \in Invocations, markCrawlFailed(p)
    PROVE  Inv'
<1>1. lock = p /\ release = "held"
    BY WriterHoldsLock DEF markCrawlFailed, Inv, CallOK
<1>2. \E answer \in Answers : Exit(p, answer)
    BY DEF markCrawlFailed, Answers
<1>3. StoredOK'
    BY StoredKeeps DEF markCrawlFailed
<1>4. ReleasedIsLastReport'
    BY <1>1 DEF ReleasedIsLastReport, markCrawlFailed
<1> QED
    BY <1>1, <1>2, <1>3, <1>4, ExitOK DEF Inv

LEMMA SaveRunInv ==
    ASSUME Inv, TypeOK', NEW p \in Invocations, SaveRun(p)
    PROVE  Inv'
<1>1. lock = p /\ release = "held"
    BY WriterHoldsLock DEF SaveRun, Inv, CallOK
<1>2. \E answer \in Answers : Exit(p, answer)
    BY DEF SaveRun, Answers
<1>3. StoredOK'
  <2> DEFINE report == call[p].report
  <2>1. DocumentsOf(Reconciled(report) \cup ItemsOf(report)) = DocumentsOf(ItemsOf(report))
      BY DEF Reconciled, DocumentsOf
  <2> QED
      BY <2>1 DEF SaveRun, StoredOK
<1>4. ReleasedIsLastReport'
    BY <1>1 DEF ReleasedIsLastReport, SaveRun
<1> QED
    BY <1>1, <1>2, <1>3, <1>4, ExitOK DEF Inv

LEMMA ReleaseInv ==
    ASSUME Inv, TypeOK', NEW p \in Invocations, Release(p)
    PROVE  Inv'
<1>1. lock = p /\ Passes
    BY WriterHoldsLock DEF Release, Inv, CallOK
<1>2. \E answer \in Answers : Exit(p, answer)
    BY DEF Release, Answers
<1>3. StoredOK'
    BY StoredKeeps DEF Release
<1>4. ReleasedIsLastReport'
  <2>1. facts = ItemsOf(saved) /\ crawl = [status |-> "completed", errors |-> 0]
      BY <1>1, PassesMeansLastReport DEF Inv
  <2> QED
      BY <2>1 DEF Release, ReleasedIsLastReport, Inv, StoredOK
<1> QED
    BY <1>1, <1>2, <1>3, <1>4, ExitOK DEF Inv

LEMMA IngestInvariant ==
    Spec => []Inv
<1>1. Init => Inv
  <2> SUFFICES ASSUME Init PROVE Inv
      OBVIOUS
  <2>1. \A p \in Invocations : CallOK(p)
      BY DEF Init, CallOK, At
  <2>2. StoredOK /\ ReleasedIsLastReport
      BY DEF Init, StoredOK, ReleasedIsLastReport, DocumentsOf
  <2> QED
      BY <2>1, <2>2, InitType DEF Inv
<1>2. Inv /\ [Next]_vars => Inv'
  <2>1. ASSUME Inv, UNCHANGED vars PROVE Inv'
      BY <2>1 DEF Inv, TypeOK, CallOK, At, Passes, StoredOK, ReleasedIsLastReport, vars, version
  <2>2. ASSUME Inv, NEW p \in Invocations, Step(p) PROVE Inv'
    <3>1. TypeOK'
        BY <2>2, StepType DEF Inv
    <3>2. CASE Connect(p)
        BY <2>2, <3>1, <3>2, ConnectInv
    <3>3. CASE TryLock(p)
        BY <2>2, <3>1, <3>3, TryLockInv
    <3>4. CASE LoseSession(p)
        BY <2>2, <3>1, <3>4, LoseSessionInv
    <3>5. CASE Fail(p)
        BY <2>2, <3>1, <3>5, ExitStep DEF Fail
    <3>6. CASE ReadReleaseState(p)
        BY <2>2, <3>1, <3>6, ReadReleaseStateInv
    <3>7. CASE OpenRun(p)
        BY <2>2, <3>1, <3>7, OpenRunInv
    <3>8. CASE runScrapy(p)
        BY <2>2, <3>1, <3>8, runScrapyInv
    <3>9. CASE markCrawlFailed(p)
        BY <2>2, <3>1, <3>9, markCrawlFailedInv
    <3>10. CASE SaveRun(p)
        BY <2>2, <3>1, <3>10, SaveRunInv
    <3>11. CASE Validate(p)
        BY <2>2, <3>1, <3>11, ValidateInv
    <3>12. CASE Release(p)
        BY <2>2, <3>1, <3>12, ReleaseInv
    <3> QED
        BY <2>2, <3>2, <3>3, <3>4, <3>5, <3>6, <3>7, <3>8, <3>9, <3>10, <3>11, <3>12 DEF Step
  <2> QED
      BY <2>1, <2>2 DEF Next
<1> QED
    BY <1>1, <1>2, PTL DEF Spec

-----------------------------------------------------------------------------
(* The theorems *)

(* ReleasedIsLastReport: released data is what the last completed run      *)
(* reported, and nothing of an earlier run.                                *)
THEOREM ReleasedDataIsLastReport ==
    Spec => []ReleasedIsLastReport
<1>1. Inv => ReleasedIsLastReport
    BY DEF Inv
<1> QED
    BY <1>1, IngestInvariant, PTL

(* NoReleaseMidRun: between the two transactions of a run the version is   *)
(* held, marked running and does not validate.                             *)
THEOREM NoReleaseDuringRun ==
    Spec => []NoReleaseMidRun
<1>1. Inv => NoReleaseMidRun
    BY DEF Inv, CallOK, NoReleaseMidRun, Passes
<1> QED
    BY <1>1, IngestInvariant, PTL

(* ReleasedIsFrozen: no step changes a released version. *)
THEOREM ReleasedVersionsAreFrozen ==
    Spec => ReleasedIsFrozen
<1>1. Inv /\ [Next]_vars => [release = "released" => UNCHANGED version]_vars
  <2>1. ASSUME Inv, NEW p \in Invocations, Step(p), release = "released"
        PROVE  UNCHANGED version
    <3>1. ~OpenRun(p)
        BY <2>1 DEF Inv, CallOK, OpenRun
    <3>2. ~markCrawlFailed(p) /\ ~SaveRun(p)
        BY <2>1 DEF Inv, CallOK, markCrawlFailed, SaveRun
    <3>3. ~Release(p)
        BY <2>1 DEF Inv, CallOK, Release, Passes
    <3> QED
        BY <2>1, <3>1, <3>2, <3>3
        DEF Step, Connect, TryLock, LoseSession, Fail, ReadReleaseState, runScrapy, Validate
  <2> QED
      BY <2>1 DEF Next
<1> QED
    BY <1>1, IngestInvariant, PTL DEF Spec, ReleasedIsFrozen

-----------------------------------------------------------------------------
(* Refinement *)

(* A step that leaves the version alone is a stutter to its readers. *)
LEMMA VersionUnseen ==
    ASSUME UNCHANGED <<version, saved>>
    PROVE  UNCHANGED Readers!publication
BY DEF Readers!publication, Visible, version, ItemsOf

LEMMA StepPublishes ==
    ASSUME Inv, Inv', NEW p \in Invocations, Step(p)
    PROVE  [Readers!Next]_(Readers!publication)
<1>1. CASE OpenRun(p)
  <2>1. release # "released"
      BY <1>1 DEF Inv, CallOK, OpenRun
  <2>2. release' # "released" /\ crawl'.status = "running"
      BY <1>1, <2>1 DEF OpenRun
  <2>3. Readers!Begin
      BY <1>1, <2>1, <2>2 DEF OpenRun, Readers!Begin, Visible, ItemsOf
  <2> QED
      BY <2>3 DEF Readers!Next
<1>2. CASE markCrawlFailed(p)
  <2>1. release = "held"
      BY <1>2 DEF Inv, CallOK, markCrawlFailed
  <2>2. Readers!Begin
      BY <1>2, <2>1 DEF markCrawlFailed, Readers!Begin, Visible, ItemsOf
  <2> QED
      BY <2>2 DEF Readers!Next
<1>3. CASE SaveRun(p)
  <2>1. release = "held"
      BY <1>3 DEF Inv, CallOK, SaveRun
  <2>2. ItemsOf(saved)' \in SUBSET Items
      BY ReportCounts DEF Inv, TypeOK
  <2>3. Readers!CarryThrough
      BY <1>3, <2>1, <2>2 DEF SaveRun, Readers!CarryThrough, Visible
  <2> QED
      BY <2>3 DEF Readers!Next
<1>4. CASE Release(p)
  <2>1. release = "held" /\ Passes
      BY <1>4 DEF Inv, CallOK, Release, Passes
  <2>2. /\ facts = ItemsOf(saved) /\ crawl.status = "completed"
        /\ observed = DocumentsOf(facts)
      BY <2>1, PassesMeansLastReport DEF Inv, StoredOK
  <2>3. release' = "released" /\ UNCHANGED <<crawl, observed, facts, transform, saved>>
      BY <1>4, <2>1 DEF Release
  <2>4. Readers!Publish
      BY <2>1, <2>2, <2>3 DEF Readers!Publish, Visible, ItemsOf, DocumentsOf
  <2> QED
      BY <2>4 DEF Readers!Next
<1>5. CASE UNCHANGED <<version, saved>>
    BY <1>5, VersionUnseen
<1> QED
    BY <1>1, <1>2, <1>3, <1>4, <1>5
    DEF Step, Connect, TryLock, LoseSession, Fail, ReadReleaseState, runScrapy, Validate

(* ImplementsPublication: readers of a version see nothing, and then, in   *)
(* one step and for good, what the last run reported that was carried      *)
(* through.                                                                *)
THEOREM IngestImplementsPublication ==
    Spec => ImplementsPublication
<1>1. Init => Readers!Init
    BY DEF Init, Readers!Init, Visible, ItemsOf
<1>2. Inv /\ Inv' /\ [Next]_vars => [Readers!Next]_(Readers!publication)
  <2>1. ASSUME UNCHANGED vars PROVE UNCHANGED Readers!publication
      BY <2>1, VersionUnseen DEF vars
  <2> QED
      BY <2>1, StepPublishes DEF Next
<1>3. Spec => Readers!Spec
    BY <1>1, <1>2, IngestInvariant, PTL DEF Spec, Readers!Spec
<1> QED
    BY <1>3 DEF ImplementsPublication

=============================================================================
