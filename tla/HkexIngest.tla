----------------------------- MODULE HkexIngest -----------------------------
(***************************************************************************)
(* The HKEX News ingest command line (data-ingest): one business date, its *)
(* data version and the invocations of `daily', `run resume' and `release' *)
(* that touch it.  `run resume' runs the daily procedure for the date of   *)
(* the run id, so both are the kind "daily" here.                          *)
(*                                                                         *)
(* An invocation holds one database session; the advisory lock belongs to  *)
(* the session, and goes when the session does.  Each transaction of the   *)
(* procedure is one step: everything it reads and writes belongs to the    *)
(* date, and only lock holders write that.                                 *)
(*                                                                         *)
(* A document of a crawl report is its id and its place (the locator with  *)
(* the result rank that its facts are keyed by); it stands for the one     *)
(* fact every document yields, its source record id.  The optional fields  *)
(* of a document are keyed by the same locator and are left out, as are    *)
(* raw snapshots, document contents, IPO links and extraction runs, which  *)
(* validation does not read.                                               *)
(***************************************************************************)
EXTENDS Naturals, Sequences, FiniteSets

CONSTANTS
    Invocations,  \* runs of the command
    Nobody,       \* the advisory lock is free
    Documents,    \* document ids
    Ranks,        \* result ranks
    NoTransform,  \* the version has no transform run
    MaxItems      \* bound: documents in one crawl report

Items == Documents \X Ranks

(* What the spider may report: its job directory is kept from run to run,  *)
(* so that a later run may report anything from nothing at all to a        *)
(* document it has already reported, at another rank; two of the search    *)
(* profiles may lead to one document.                                      *)
Reports == UNION {[1 .. n -> Items] : n \in 0 .. MaxItems}

Transforms == [documents : Nat, facts : Nat]

ASSUME ConstantsAssumption ==
    /\ Nobody \notin Invocations
    /\ IsFiniteSet(Documents) /\ IsFiniteSet(Ranks)
    /\ MaxItems \in Nat
    /\ NoTransform \notin Transforms

VARIABLES
    release,    \* data_version_batch.release_state
    crawl,      \* hkex_news_crawl_run: its status and error count
    observed,   \* the documents of hkex_news_document_observation
    facts,      \* hkex_news_extracted_fact
    transform,  \* the validation report of hkex_news_transform_run
    lock,       \* the holder of the advisory lock of the date
    call,       \* the progress of each invocation
    saved       \* history: the report that the last completed run stored

version == <<release, crawl, observed, facts, transform>>
vars == <<version, lock, call, saved>>

-----------------------------------------------------------------------------
(* States and records *)

ReleaseStates == {"none", "held", "released"}
CrawlRuns == [status : {"none", "running", "failed", "completed"}, errors : Nat]

(* What an invocation does next, then what it exits with. *)
DailyStages == {"state", "open", "crawl", "fail", "save"}
ReleaseStages == {"validate", "update"}
Answers == {"completed", "released", "skipped_locked", "not_mutable", "crawl_failed",
            "not_found", "not_held", "not_validated", "database_failure"}
Stages == {"idle", "lock"} \cup DailyStages \cup ReleaseStages \cup Answers

Invocation == [kind : {"daily", "release"}, stage : Stages,
               session : BOOLEAN, report : Reports]

TypeOK ==
    /\ release \in ReleaseStates
    /\ crawl \in CrawlRuns
    /\ observed \in SUBSET Documents
    /\ facts \in SUBSET Items
    /\ transform \in Transforms \cup {NoTransform}
    /\ lock \in Invocations \cup {Nobody}
    /\ call \in [Invocations -> Invocation]
    /\ saved \in Reports

Init ==
    /\ release = "none"
    /\ crawl = [status |-> "none", errors |-> 0]
    /\ observed = {}
    /\ facts = {}
    /\ transform = NoTransform
    /\ lock = Nobody
    /\ call \in [Invocations -> [kind : {"daily", "release"}, stage : {"idle"},
                                 session : {FALSE}, report : {<<>>}]]
    /\ saved = <<>>

-----------------------------------------------------------------------------
(* The session and the lock *)

At(p, kind, stage) ==
    /\ call[p].kind = kind
    /\ call[p].stage = stage
    /\ call[p].session

(* Leaving the command ends the session, which frees the lock. *)
Unlocked(p) == IF lock = p THEN Nobody ELSE lock

Exited(p, answer) ==
    [call EXCEPT ![p] = [@ EXCEPT !.stage = answer, !.session = FALSE]]

Exit(p, answer) ==
    /\ call' = Exited(p, answer)
    /\ lock' = Unlocked(p)

Goto(p, stage) ==
    /\ call' = [call EXCEPT ![p].stage = stage]
    /\ UNCHANGED lock

(* A commit is the last statement a session answers, or one whose answer   *)
(* never arrives: it is stored all the same, and the command reports a     *)
(* failure and leaves.                                                     *)
AfterCommit(p, next) == next \/ Exit(p, "database_failure")

Connect(p) ==
    /\ call[p].stage = "idle"
    /\ call' = [call EXCEPT ![p] = [@ EXCEPT !.stage = "lock", !.session = TRUE]]
    /\ UNCHANGED <<version, lock, saved>>

(* Mutant: the answer of pg_try_advisory_lock is not looked at. *)
TryLock_Ignores(p) ==
    /\ call[p].stage = "lock" /\ call[p].session
    /\ lock' = p
    /\ call' = [call EXCEPT ![p].stage =
                    IF call[p].kind = "daily" THEN "state" ELSE "validate"]
    /\ UNCHANGED <<version, saved>>

(* pg_try_advisory_lock: an invocation that does not get it leaves. *)
TryLock(p) ==
    /\ call[p].stage = "lock" /\ call[p].session
    /\ IF lock = Nobody
       THEN /\ lock' = p
            /\ call' = [call EXCEPT ![p].stage =
                            IF call[p].kind = "daily" THEN "state" ELSE "validate"]
       ELSE Exit(p, "skipped_locked")
    /\ UNCHANGED <<version, saved>>

(* The session dies under a command that has not noticed: the crawl runs   *)
(* in the foreground and may take long.                                    *)
LoseSession(p) ==
    /\ call[p].session
    /\ call' = [call EXCEPT ![p].session = FALSE]
    /\ lock' = Unlocked(p)
    /\ UNCHANGED <<version, saved>>

(* A statement fails, because the session is gone or for a reason of its   *)
(* own; the open transaction, if any, is rolled back.  So does a killed    *)
(* command end.                                                            *)
Fail(p) ==
    /\ call[p].stage \notin Answers \cup {"idle"}
    /\ Exit(p, "database_failure")
    /\ UNCHANGED <<version, saved>>

-----------------------------------------------------------------------------
(* The daily run *)

(* Mutant: a version is worked on whatever its release state. *)
ReadReleaseState_Skipped(p) ==
    /\ At(p, "daily", "state")
    /\ Goto(p, "open")
    /\ UNCHANGED <<version, saved>>

(* Only a version that is new or held may be worked on. *)
ReadReleaseState(p) ==
    /\ At(p, "daily", "state")
    /\ IF release \in {"none", "held"} THEN Goto(p, "open") ELSE Exit(p, "not_mutable")
    /\ UNCHANGED <<version, saved>>

(* The first transaction.  A run found running for too long is marked      *)
(* failed here, and overwritten two statements on like any other.          *)
OpenRun(p) ==
    /\ At(p, "daily", "open")
    /\ release' = IF release = "none" THEN "held" ELSE release
    /\ crawl' = [status |-> "running", errors |-> 0]
    /\ AfterCommit(p, Goto(p, "crawl"))
    /\ UNCHANGED <<observed, facts, transform, saved>>

(* The crawl ends, and its report is read; or it ends with an error.  It   *)
(* needs no session.                                                       *)
runScrapy(p) ==
    /\ call[p].kind = "daily" /\ call[p].stage = "crawl"
    /\ \/ \E report \in Reports :
              call' = [call EXCEPT ![p] = [@ EXCEPT !.stage = "save", !.report = report]]
       \/ call' = [call EXCEPT ![p].stage = "fail"]
    /\ UNCHANGED <<version, lock, saved>>

(* Mutant: the run is marked with the other status the schema knows. *)
markCrawlFailed_Cancelled(p) ==
    /\ At(p, "daily", "fail")
    /\ crawl' = [status |-> "cancelled", errors |-> crawl.errors + 1]
    /\ Exit(p, "crawl_failed") \/ Exit(p, "database_failure")
    /\ UNCHANGED <<release, observed, facts, transform, saved>>

markCrawlFailed(p) ==
    /\ At(p, "daily", "fail")
    /\ crawl' = [status |-> "failed", errors |-> crawl.errors + 1]
    /\ Exit(p, "crawl_failed") \/ Exit(p, "database_failure")
    /\ UNCHANGED <<release, observed, facts, transform, saved>>

ItemsOf(report) == {report[i] : i \in DOMAIN report}
DocumentsOf(items) == {item[1] : item \in items}

(* What is left of the facts when those of documents that the report does  *)
(* not name are deleted: every fact is pending and HOLD, as it was written *)
(* here.  Facts of a named document under another rank are not deleted.    *)
Reconciled(report) == {fact \in facts : fact[1] \in DocumentsOf(ItemsOf(report))}

(* The second transaction: observations, reconciliation, facts, transform  *)
(* and the completed run.  The transform counts what was written, and the  *)
(* same fact written twice is counted twice.                               *)
SaveRun(p) ==
    LET report == call[p].report IN
    /\ At(p, "daily", "save")
    /\ observed' = DocumentsOf(ItemsOf(report))
    /\ facts' = Reconciled(report) \cup ItemsOf(report)
    /\ transform' = [documents |-> Len(report), facts |-> Len(report)]
    /\ crawl' = [status |-> "completed", errors |-> 0]
    /\ saved' = report
    /\ Exit(p, "completed") \/ Exit(p, "database_failure")
    /\ UNCHANGED release

-----------------------------------------------------------------------------
(* The release *)

(* Mutant: only the facts are counted. *)
Passes_CountsFactsOnly ==
    /\ release = "held"
    /\ crawl.status = "completed" /\ crawl.errors = 0
    /\ observed = {} \/ facts # {}
    /\ transform # NoTransform
    /\ Cardinality(facts) = transform.facts

(* readValidationState's verdict.  It compares counts, never contents. *)
Passes ==
    /\ release = "held"
    /\ crawl.status = "completed" /\ crawl.errors = 0
    /\ observed = {} \/ facts # {}
    /\ transform # NoTransform
    /\ Cardinality(observed) = transform.documents
    /\ Cardinality(facts) = transform.facts

Validate(p) ==
    /\ At(p, "release", "validate")
    /\ \/ release = "none" /\ Exit(p, "not_found")
       \/ release = "released" /\ Exit(p, "not_held")
       \/ release = "held" /\ ~Passes /\ Exit(p, "not_validated")
       \/ Passes /\ Goto(p, "update")
    /\ UNCHANGED <<version, saved>>

(* The update names a held version again, and commits. *)
Release(p) ==
    /\ At(p, "release", "update")
    /\ IF release = "held"
       THEN /\ release' = "released"
            /\ Exit(p, "released") \/ Exit(p, "database_failure")
       ELSE UNCHANGED release /\ Exit(p, "not_held")
    /\ UNCHANGED <<crawl, observed, facts, transform, saved>>

Step(p) ==
    \/ Connect(p) \/ TryLock(p) \/ LoseSession(p) \/ Fail(p)
    \/ ReadReleaseState(p) \/ OpenRun(p) \/ runScrapy(p) \/ markCrawlFailed(p) \/ SaveRun(p)
    \/ Validate(p) \/ Release(p)

Next == \E p \in Invocations : Step(p)

Spec == Init /\ [][Next]_vars

-----------------------------------------------------------------------------
(* Properties *)

(* Released data is exactly what the last completed run reported, of a run *)
(* that completed without error: equal counts are enough for it, although  *)
(* a report may name a document twice and facts of earlier runs may be     *)
(* left under other ranks.                                                 *)
ReleasedIsLastReport ==
    release = "released" =>
        /\ crawl = [status |-> "completed", errors |-> 0]
        /\ facts = ItemsOf(saved)
        /\ observed = DocumentsOf(facts)

(* While a run that still has its session is between its two transactions, *)
(* the version stays held, marked running, and cannot pass validation.     *)
NoReleaseMidRun ==
    \A p \in Invocations :
        (\E stage \in {"crawl", "fail", "save"} : At(p, "daily", stage)) =>
            release = "held" /\ crawl.status = "running" /\ ~Passes

(* No invocation changes anything of a released version, whatever sessions *)
(* were lost before or after the release.                                  *)
ReleasedIsFrozen == [][release = "released" => UNCHANGED version]_vars

-----------------------------------------------------------------------------
(* Refinement *)

Visible(rows) == IF release = "released" THEN rows ELSE {}

Readers == INSTANCE Publication
             WITH published <- release = "released", complete <- crawl.status = "completed",
                  report <- ItemsOf(saved), facts <- Visible(facts),
                  documents <- Visible(observed)

(* Invocations that overlap, lose their session or their answer, or fail   *)
(* at any statement, and validation that compares counts only, publish a   *)
(* version as Publication promises.                                        *)
ImplementsPublication == Readers!Spec

=============================================================================
