--------------------------- MODULE DurableHandoff ---------------------------
(***************************************************************************)
(* The handoff of a sandbox's outputs to durable storage, and the end of   *)
(* the sandbox: each approved candidate becomes an object in R2 and a      *)
(* record in Postgres, with nothing transactional between the two; each    *)
(* failure is compensated, and what cannot be compensated is reported.     *)
(*                                                                         *)
(* Every key and record id is made from the candidate and the instant of   *)
(* this handoff, so that a candidate stands for its object and its record. *)
(* The record store works over one Postgres client, which answers its      *)
(* queries in order.  Candidates are taken in any order; contents, scans   *)
(* and the approval's decisions are left out: they can only reject a       *)
(* candidate before anything of it is stored.                              *)
(***************************************************************************)
EXTENDS FiniteSets

CONSTANTS
    Candidates,  \* the outputs proposed to the handoff
    NoCandidate  \* none is being processed

ASSUME ConstantsAssumption == NoCandidate \notin Candidates

VARIABLES
    sandbox,      \* the sandbox of the lease: "live" or "gone"
    objects,      \* candidates whose object is stored
    records,      \* candidates whose record is stored
    latePuts,     \* puts that failed and may still take effect
    lateInserts,  \* inserts that failed and may still take effect
    strayed,      \* history: candidates whose failed put took effect later
    client,       \* the Postgres client: "open" or "lost"
    stage,        \* what the handoff does next, or how it ended
    current,      \* the candidate being processed
    item,         \* the result of each candidate so far
    thrown,       \* the handoff will throw instead of returning its items
    cleanup       \* what became of the destroy

stores == <<objects, records, latePuts, lateInserts, strayed, client>>
vars == <<sandbox, stores, stage, current, item, thrown, cleanup>>

-----------------------------------------------------------------------------
(* States *)

Stages == {"authorize", "choose", "read", "put", "undo_put", "insert", "read_back",
           "undo_record", "destroy", "done", "crashed"}
ItemStatuses == {"none", "rejected", "persisted", "cleanup_required"}
Cleanups == {"none", "destroyed", "already_destroyed", "destroy_failed"}

TypeOK ==
    /\ sandbox \in {"live", "gone"}
    /\ objects \in SUBSET Candidates
    /\ records \in SUBSET Candidates
    /\ latePuts \in SUBSET Candidates
    /\ lateInserts \in SUBSET Candidates
    /\ strayed \in SUBSET Candidates
    /\ client \in {"open", "lost"}
    /\ stage \in Stages
    /\ current \in Candidates \cup {NoCandidate}
    /\ item \in [Candidates -> ItemStatuses]
    /\ thrown \in BOOLEAN
    /\ cleanup \in Cleanups

Init ==
    /\ sandbox \in {"live", "gone"}
    /\ objects = {} /\ records = {}
    /\ latePuts = {} /\ lateInserts = {} /\ strayed = {}
    /\ client \in {"open", "lost"}
    /\ stage = "authorize"
    /\ current = NoCandidate
    /\ item = [c \in Candidates |-> "none"]
    /\ thrown = FALSE
    /\ cleanup = "none"

(* release_safe of the result *)
releaseSafe ==
    /\ ~thrown
    /\ cleanup \in {"destroyed", "already_destroyed"}
    /\ \A c \in Candidates : item[c] # "cleanup_required"

-----------------------------------------------------------------------------
(* The handoff *)

Goto(next) ==
    /\ stage' = next
    /\ UNCHANGED <<sandbox, current, item, thrown, cleanup>>

(* The current candidate is finished with a status. *)
Finish(status) ==
    /\ item' = [item EXCEPT ![current] = status]
    /\ current' = NoCandidate
    /\ stage' = "choose"
    /\ UNCHANGED <<sandbox, thrown, cleanup>>

(* An error that the handoff will throw, once the sandbox is destroyed. *)
Throw ==
    /\ thrown' = TRUE
    /\ stage' = "destroy"
    /\ UNCHANGED <<sandbox, current, item, cleanup>>

(* The input is invalid, the approval authority fails or its answer breaks *)
(* the contract; or the decisions are there.                               *)
authorize ==
    /\ stage = "authorize"
    /\ Throw \/ Goto("choose")
    /\ UNCHANGED stores

(* The next candidate, or no more of them. *)
chooseCandidate ==
    /\ stage = "choose"
    /\ \/ \E c \in Candidates :
              /\ item[c] = "none"
              /\ current' = c
              /\ stage' = "read"
              /\ UNCHANGED <<sandbox, item, thrown, cleanup>>
       \/ /\ \A c \in Candidates : item[c] # "none"
          /\ Goto("destroy")
    /\ UNCHANGED stores

(* The decision, the file, its size and its scan.  A file is read from a   *)
(* live sandbox only; anything but a clean scan rejects the candidate, and *)
(* an unexpected error ends the processing.                                *)
readAndScan ==
    /\ stage = "read"
    /\ \/ sandbox = "live" /\ Goto("put")
       \/ Finish("rejected")
       \/ Throw
    /\ UNCHANGED stores

(* A put that fails may have taken effect, may still take effect, or not.  *)
putObject ==
    /\ stage = "put"
    /\ \/ objects' = objects \cup {current} /\ Goto("insert") /\ UNCHANGED latePuts
       \/ /\ objects' \in {objects, objects \cup {current}}
          /\ latePuts' \in {latePuts, latePuts \cup {current}}
          /\ Goto("undo_put")
    /\ UNCHANGED <<records, lateInserts, strayed, client>>

(* Deleting the current object, whose failure may come after the deed. *)
deleteObject ==
    \/ objects' = objects \ {current} /\ Finish("rejected")
    \/ objects' \in {objects, objects \ {current}} /\ Finish("cleanup_required")

(* Mutant: the outcome of the compensating delete is not looked at. *)
undoPut_IgnoresFailure ==
    /\ stage = "undo_put"
    /\ objects' \in {objects, objects \ {current}}
    /\ Finish("rejected")
    /\ UNCHANGED <<records, latePuts, lateInserts, strayed, client>>

undoPut ==
    /\ stage = "undo_put"
    /\ deleteObject
    /\ UNCHANGED <<records, latePuts, lateInserts, strayed, client>>

(* An insert that fails with the client still open has taken effect or     *)
(* not; one that loses the client may take effect later.  A lost client    *)
(* inserts nothing.                                                        *)
insertRecord ==
    /\ stage = "insert"
    /\ \/ /\ client = "open"
          /\ records' = records \cup {current}
          /\ Finish("persisted")
          /\ UNCHANGED <<lateInserts, client>>
       \/ /\ client = "open"
          /\ records' \in {records, records \cup {current}}
          /\ Goto("read_back")
          /\ UNCHANGED <<lateInserts, client>>
       \/ /\ client = "open"
          /\ client' = "lost"
          /\ lateInserts' = lateInserts \cup {current}
          /\ Goto("read_back")
          /\ UNCHANGED records
       \/ /\ client = "lost"
          /\ Goto("read_back")
          /\ UNCHANGED <<records, lateInserts, client>>
    /\ UNCHANGED <<objects, latePuts, strayed>>

(* Mutant: the question is asked over a connection of its own. *)
readBack_FreshConnection ==
    /\ stage = "read_back"
    /\ \/ current \in records /\ Finish("persisted")
       \/ Finish("cleanup_required")
       \/ current \notin records /\ Goto("undo_record")
    /\ UNCHANGED stores

(* Mutant: a record that is not this one ends the item with its reason *)
(* code where the status belongs.                                      *)
readBack_ReasonAsStatus ==
    /\ stage = "read_back"
    /\ \/ client = "open" /\ current \in records /\ Finish("persisted")
       \/ Finish("object_compensation_failed")
       \/ client = "open" /\ current \notin records /\ Goto("undo_record")
    /\ UNCHANGED stores

(* The record is there after all; the question fails, or finds a record    *)
(* that is not this one; or it is not there, and will not be: the client   *)
(* that answers has answered the insert before.                            *)
readBack ==
    /\ stage = "read_back"
    /\ \/ client = "open" /\ current \in records /\ Finish("persisted")
       \/ Finish("cleanup_required")
       \/ client = "open" /\ current \notin records /\ Goto("undo_record")
    /\ UNCHANGED stores

undoRecord ==
    /\ stage = "undo_record"
    /\ deleteObject
    /\ UNCHANGED <<records, latePuts, lateInserts, strayed, client>>

(* Mutant: an error of the backend counts as an answer. *)
cleanupSandbox_TrustsErrors ==
    /\ stage = "destroy"
    /\ sandbox' \in {sandbox, "gone"}
    /\ cleanup' = "destroyed"
    /\ stage' = "done"
    /\ UNCHANGED <<stores, current, item, thrown>>

(* The one destroy of every path; its failure may come after the deed. *)
cleanupSandbox ==
    /\ stage = "destroy"
    /\ \/ sandbox = "live" /\ sandbox' = "gone" /\ cleanup' = "destroyed"
       \/ sandbox = "gone" /\ UNCHANGED sandbox /\ cleanup' = "already_destroyed"
       \/ sandbox' \in {sandbox, "gone"} /\ cleanup' = "destroy_failed"
    /\ stage' = "done"
    /\ UNCHANGED <<stores, current, item, thrown>>

-----------------------------------------------------------------------------
(* The environment *)

(* The sandbox ends on its own or at another's hands. *)
SandboxEnds ==
    /\ sandbox = "live"
    /\ sandbox' = "gone"
    /\ UNCHANGED <<stores, stage, current, item, thrown, cleanup>>

(* The client is lost between two queries. *)
LoseClient ==
    /\ client = "open"
    /\ client' = "lost"
    /\ UNCHANGED <<sandbox, objects, records, latePuts, lateInserts, strayed,
                   stage, current, item, thrown, cleanup>>

LandPut(c) ==
    /\ c \in latePuts
    /\ latePuts' = latePuts \ {c}
    /\ objects' = objects \cup {c}
    /\ strayed' = strayed \cup {c}
    /\ UNCHANGED <<sandbox, records, lateInserts, client, stage, current, item, thrown, cleanup>>

LandInsert(c) ==
    /\ c \in lateInserts
    /\ lateInserts' = lateInserts \ {c}
    /\ records' = records \cup {c}
    /\ UNCHANGED <<sandbox, objects, latePuts, strayed, client, stage, current, item,
                   thrown, cleanup>>

(* The worker stops in the middle of a handoff, which is not resumed. *)
Crash ==
    /\ stage \notin {"done", "crashed"}
    /\ Goto("crashed")
    /\ UNCHANGED stores

Next ==
    \/ authorize \/ chooseCandidate \/ readAndScan
    \/ putObject \/ undoPut \/ insertRecord \/ readBack \/ undoRecord
    \/ cleanupSandbox
    \/ SandboxEnds \/ LoseClient \/ Crash
    \/ \E c \in Candidates : LandPut(c) \/ LandInsert(c)

Spec == Init /\ [][Next]_vars

-----------------------------------------------------------------------------
(* Properties *)

(* A stored record always has its object, in every state of the handoff    *)
(* and after it, so that readDurableHandoff finds what a record promises;  *)
(* and a candidate reported as persisted has its record.                   *)
RecordHasObject ==
    /\ records \subseteq objects
    /\ \A c \in Candidates : item[c] = "persisted" => c \in records

(* A candidate reported as rejected has left no record and will leave      *)
(* none, and no object but one whose failed put took effect later.         *)
RejectedLeavesNothing ==
    \A c \in Candidates : item[c] = "rejected" =>
        /\ c \notin records \cup lateInserts
        /\ c \in objects => c \in strayed

(* However a handoff ended, with its items or by throwing, the sandbox is  *)
(* gone or said not to be; and one that calls itself safe to release has   *)
(* left no sandbox, and no object without a record but late ones.          *)
HandoffEndsClean ==
    stage = "done" =>
        /\ sandbox = "live" => cleanup = "destroy_failed"
        /\ releaseSafe => sandbox = "gone" /\ objects \ strayed \subseteq records

-----------------------------------------------------------------------------
(* Refinement *)

Over ==
    IF stage = "done" /\ releaseSafe THEN "clean"
    ELSE IF stage \in {"done", "crashed"} THEN "dirty" ELSE "no"

Keeper == INSTANCE Archive
            WITH live <- sandbox = "live", fate <- item, archive <- records,
                 litter <- objects \ (records \cup strayed), late <- strayed, over <- Over

(* With failed puts, inserts whose answer is lost, compensations that fail *)
(* and a worker that stops anywhere, the handoff keeps the promises of     *)
(* Archive.                                                                *)
ImplementsArchive == Keeper!Spec

=============================================================================
