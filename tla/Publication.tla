----------------------------- MODULE Publication -----------------------------
(***************************************************************************)
(* What the ingest promises to the readers of a data version, with nothing *)
(* of invocations, sessions, locks or counts: the version is published in  *)
(* one step, after a run that was carried through, with what that run      *)
(* reported and nothing else; and then it stays as it is.                  *)
(***************************************************************************)
CONSTANT Items   \* what may be reported: pairs of a document and a rank

VARIABLES
    published,   \* the version may be read
    complete,    \* the last run that was begun was carried through
    report,      \* the items reported by the last run carried through
    facts,       \* what a reader finds: the facts of the version
    documents    \* and its documents

publication == <<published, complete, report, facts, documents>>

Init ==
    /\ ~published /\ ~complete
    /\ report = {}
    /\ facts = {} /\ documents = {}

(* A run begins, or ends with nothing to show. *)
Begin ==
    /\ ~published
    /\ complete' = FALSE
    /\ UNCHANGED <<published, report, facts, documents>>

CarryThrough ==
    /\ ~published
    /\ complete' = TRUE
    /\ report' \in SUBSET Items
    /\ UNCHANGED <<published, facts, documents>>

Publish ==
    /\ ~published /\ complete
    /\ published' = TRUE
    /\ facts' = report
    /\ documents' = {item[1] : item \in report}
    /\ UNCHANGED <<complete, report>>

Next == Begin \/ CarryThrough \/ Publish

Spec == Init /\ [][Next]_publication
=============================================================================
