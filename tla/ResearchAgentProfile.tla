------------------------ MODULE ResearchAgentProfile ------------------------
(***************************************************************************)
(* The research-agent lifecycle service: one profile row in Postgres, its  *)
(* audit events, and the FastClaw user and agent it stands for.            *)
(*                                                                         *)
(* A call of the lifecycle route runs in ONE database transaction at read  *)
(* committed: what it writes (call[c].row, call[c].event) is seen by no    *)
(* other call before its Commit, and the row it has written is locked      *)
(* until then.  The FastClaw requests it makes take effect at once and are *)
(* not undone when the transaction rolls back.                             *)
(*                                                                         *)
(* Left out: the two answers for an account or workspace that does not     *)
(* exist (such a call writes nothing), reasons, hashes and timestamps.     *)
(* Nothing here writes the platform tables: a call may read any authority. *)
(***************************************************************************)
EXTENDS Naturals, FiniteSets

CONSTANTS
    Calls,      \* invocations of the route that may be under way together
    Requests,   \* values of the x-request-id header
    NoRow,      \* the profile row does not exist; a call has not written it
    NoEvent,    \* no audit event; a call has not written one
    NoRequest,  \* the lease owner of a row that is not leased
    MaxUsers,   \* bound: FastClaw users ever created for this identity
    MaxStray    \* bound: FastClaw requests given up on and still on their way

ASSUME ConstantsAssumption ==
    /\ MaxUsers \in Nat \ {0}
    /\ MaxStray \in Nat
    /\ NoRequest \notin Requests

VARIABLES
    row,        \* the committed profile row
    events,     \* the committed audit event of each request
    call,       \* the progress of each call
    fastclaw,   \* the FastClaw side of this identity
    stray,      \* requests that were given up on and may still land
    landed      \* the strays that have landed: none, none that provisions, or one that does

vars == <<row, events, call, fastclaw, stray, landed>>

-----------------------------------------------------------------------------
(* States and records *)

Intents == {"activate", "disable", "delete"}

pendingStatusForIntent ==
    [activate |-> "provisioning", disable |-> "disable_pending", delete |-> "delete_pending"]

terminalStatusForIntent ==
    [activate |-> "active", disable |-> "disabled", delete |-> "deleted"]

Pending == {"provisioning", "disable_pending", "delete_pending"}
Settled == {"active", "disabled", "deleted", "blocked_retryable"}

RemoteOps == {"provision", "enable", "agent", "off", "remove"}
Stages == {"idle", "deny", "denied", "read", "update", "reread", "record",
           "succeed", "fail", "commit"} \cup RemoteOps

(* User 0 is "no user"; the others are numbered in the order of creation. *)
Users == 0 .. MaxUsers

Rows == [status : Pending \cup Settled, lease : Requests \cup {NoRequest},
         user : Users, agent : BOOLEAN]

(* An audit event is the outcome it records. *)
Outcomes == {"succeeded", "denied", "conflict", "failed"}

ASSUME NothingAssumption == NoRow \notin Rows /\ NoEvent \notin Outcomes

(* from is the status a call last read without holding the row: claim's    *)
(* previousStatus, and what recordTerminal records.  user and agent are    *)
(* what reconcileRemote holds.                                             *)
Idle == [stage |-> "idle", request |-> NoRequest, intent |-> "disable", from |-> "disabled",
         user |-> 0, agent |-> FALSE, row |-> NoRow, event |-> NoEvent]

CallRecords ==
    [stage : Stages, request : Requests \cup {NoRequest}, intent : Intents,
     from : Pending \cup Settled, user : Users, agent : BOOLEAN,
     row : Rows \cup {NoRow}, event : Outcomes \cup {NoEvent}]

FastClaws == [user : Users, enabled : BOOLEAN, agent : BOOLEAN, created : Users]

TypeOK ==
    /\ row \in Rows \cup {NoRow}
    /\ events \in [Requests -> Outcomes \cup {NoEvent}]
    /\ call \in [Calls -> CallRecords]
    /\ fastclaw \in FastClaws
    /\ stray \subseteq [op : RemoteOps, user : Users]
    /\ landed \in {"nothing", "other", "provision"}

Init ==
    /\ row = NoRow
    /\ events = [r \in Requests |-> NoEvent]
    /\ call = [c \in Calls |-> Idle]
    /\ fastclaw = [user |-> 0, enabled |-> FALSE, agent |-> FALSE, created |-> 0]
    /\ stray = {}
    /\ landed = "nothing"

-----------------------------------------------------------------------------
(* The database as one call sees it *)

(* Only the transaction that wrote the row sees what it wrote. *)
Visible(c) == IF call[c].row # NoRow THEN call[c].row ELSE row

(* A statement that writes the row waits for the transaction that wrote it. *)
RowIsFree(c) == \A d \in Calls \ {c} : call[d].row = NoRow

(* An insert waits for the transaction that inserted the same key. *)
KeyIsFree(c) ==
    \A d \in Calls \ {c} : call[d].event # NoEvent => call[d].request # call[c].request

(* Mutant: the audit insert overwrites on conflict. *)
writeEvent_Overwrites(c, outcome) == outcome

(* What writeEvent leaves in the transaction: nothing if the event exists. *)
writeEvent(c, outcome) == IF events[call[c].request] # NoEvent THEN NoEvent ELSE outcome

(* Mutant: a new profile starts in the state that the type lists first. *)
NewRow_Pending == [status |-> "provision_pending", lease |-> NoRequest, user |-> 0, agent |-> FALSE]

NewRow == [status |-> "disabled", lease |-> NoRequest, user |-> 0, agent |-> FALSE]

-----------------------------------------------------------------------------
(* The route, the replay of a request and its preconditions *)

Authorities == [activate_allowed : BOOLEAN, closed : BOOLEAN]

preconditionDenial(i, authority) ==
    \/ i = "activate" /\ ~authority.activate_allowed
    \/ i = "delete" /\ ~authority.closed

(* begin, readEvent and readAuthority.  A request that has an event is     *)
(* answered from it, or refused if its intent was another; either way      *)
(* nothing is written.                                                     *)
Begin(c) ==
    /\ call[c].stage = "idle"
    /\ \E r \in Requests, i \in Intents, authority \in Authorities :
          /\ events[r] = NoEvent
          /\ call' = [call EXCEPT ![c] = [Idle EXCEPT
                          !.stage = IF preconditionDenial(i, authority) THEN "deny" ELSE "read",
                          !.request = r,
                          !.intent = i]]
    /\ UNCHANGED <<row, events, fastclaw, stray, landed>>

(* The upsert writes the row (so it waits for it, and holds it) but not    *)
(* its status; the event is the transaction's next statement.              *)
recordDenied(c) ==
    /\ call[c].stage = "deny"
    /\ RowIsFree(c)
    /\ call' = [call EXCEPT ![c] = [@ EXCEPT !.stage = "denied",
                                             !.row = IF row = NoRow THEN NewRow ELSE row]]
    /\ UNCHANGED <<row, events, fastclaw, stray, landed>>

recordDeniedEvent(c) ==
    /\ call[c].stage = "denied"
    /\ KeyIsFree(c)
    /\ call' = [call EXCEPT ![c] = [@ EXCEPT !.stage = "commit",
                                             !.event = writeEvent(c, "denied")]]
    /\ UNCHANGED <<row, events, fastclaw, stray, landed>>

-----------------------------------------------------------------------------
(* claim *)

(* Mutant: the claim announces itself in the audit table before it takes the row. *)
claimRead_AnnouncesItself(c) ==
    /\ call[c].stage = "read"
    /\ row = NoRow => RowIsFree(c)
    /\ KeyIsFree(c)
    /\ LET current == IF row = NoRow THEN NewRow ELSE row
           settled == current.status \in {terminalStatusForIntent[call[c].intent], "deleted"}
       IN  call' = [call EXCEPT ![c] = [@ EXCEPT
                        !.stage = IF settled THEN "record" ELSE "update",
                        !.from = current.status,
                        !.event = writeEvent(c, "failed"),
                        !.row = IF row = NoRow THEN NewRow ELSE call[c].row]]
    /\ UNCHANGED <<row, events, fastclaw, stray, landed>>

(* insert ... on conflict do nothing, then readProfile.  Without a         *)
(* committed row the insert waits for another call's insert.               *)
claimRead(c) ==
    /\ call[c].stage = "read"
    /\ row = NoRow => RowIsFree(c)
    /\ LET current == IF row = NoRow THEN NewRow ELSE row
           settled == current.status \in {terminalStatusForIntent[call[c].intent], "deleted"}
       IN  call' = [call EXCEPT ![c] = [@ EXCEPT
                        !.stage = IF settled THEN "record" ELSE "update",
                        !.from = current.status,
                        !.row = IF row = NoRow THEN NewRow ELSE call[c].row]]
    /\ UNCHANGED <<row, events, fastclaw, stray, landed>>

(* Mutant: an activation provisions its user whether it has one or not. *)
FirstOp_AlwaysProvisions(i, user) ==
    IF user = 0 \/ i = "activate" THEN "provision"
    ELSE [disable |-> "off", delete |-> "remove"][i]

(* Mutant: a delete without a known user takes it that there is none. *)
FirstOp_TrustsRow(i, user) ==
    IF user = 0 THEN (IF i = "delete" THEN "succeed" ELSE "provision")
    ELSE [activate |-> "enable", disable |-> "off", delete |-> "remove"][i]

FirstOp(i, user) ==
    IF user = 0 THEN "provision"
    ELSE [activate |-> "enable", disable |-> "off", delete |-> "remove"][i]

(* Mutant: the update trusts the status that was read before it waited. *)
claimUpdate_TrustsRead(c) ==
    /\ call[c].stage = "update"
    /\ RowIsFree(c)
    /\ LET before == Visible(c)
           leased == [before EXCEPT !.status = pendingStatusForIntent[call[c].intent],
                                    !.lease = call[c].request]
       IN  call' = [call EXCEPT ![c] = [@ EXCEPT
                        !.stage = FirstOp(call[c].intent, before.user),
                        !.row = leased, !.user = before.user, !.agent = before.agent]]
    /\ UNCHANGED <<row, events, fastclaw, stray, landed>>

(* The conditional update of the lease.  It waits for the row and looks at *)
(* it again: profile is the row as updated, previousStatus is not.         *)
claimUpdate(c) ==
    /\ call[c].stage = "update"
    /\ RowIsFree(c)
    /\ \E expired \in BOOLEAN :
          LET before == Visible(c)
              leased == [before EXCEPT !.status = pendingStatusForIntent[call[c].intent],
                                       !.lease = call[c].request]
              taken == before.status # "deleted" /\ (before.lease = NoRequest \/ expired)
          IN  call' = [call EXCEPT ![c] =
                  IF taken
                  THEN [@ EXCEPT !.stage = FirstOp(call[c].intent, before.user),
                                 !.row = leased, !.user = before.user,
                                 !.agent = before.agent]
                  ELSE [@ EXCEPT !.stage = "reread"]]
    /\ UNCHANGED <<row, events, fastclaw, stray, landed>>

(* The update matched no row: a second readProfile says why.  A call that  *)
(* finds its own request at work writes no event.                          *)
claimReread(c) ==
    /\ call[c].stage = "reread"
    /\ LET busy == Visible(c)
           inProgress == /\ busy.status \notin {terminalStatusForIntent[call[c].intent], "deleted"}
                         /\ busy.lease = call[c].request
       IN  call' = [call EXCEPT ![c] = [@ EXCEPT !.from = busy.status,
                                           !.stage = IF inProgress THEN "commit" ELSE "record"]]
    /\ UNCHANGED <<row, events, fastclaw, stray, landed>>

(* Terminal, deleted and busy: the event of the profile that was read. *)
terminalOutcome(i, status) ==
    CASE status = terminalStatusForIntent[i] -> "succeeded"
      [] status = "deleted" -> "denied"
      [] OTHER -> "conflict"

recordTerminal(c) ==
    /\ call[c].stage = "record"
    /\ KeyIsFree(c)
    /\ call' = [call EXCEPT ![c] = [@ EXCEPT !.stage = "commit",
                     !.event = writeEvent(c, terminalOutcome(call[c].intent, call[c].from))]]
    /\ UNCHANGED <<row, events, fastclaw, stray, landed>>

-----------------------------------------------------------------------------
(* reconcileRemote: the requests to FastClaw *)

(* What FastClaw does with a request; creating is idempotent by identity,  *)
(* and a request that names a user it does not have is answered 404,       *)
(* except the removal, which is answered "already absent".                 *)
Accepts(op, user) ==
    CASE op = "provision" -> fastclaw.user # 0 \/ fastclaw.created < MaxUsers
      [] op = "remove"    -> TRUE
      [] OTHER            -> fastclaw.user = user /\ user # 0

Effect(op, user) ==
    CASE op = "provision" /\ fastclaw.user = 0 ->
            [user |-> fastclaw.created + 1, enabled |-> TRUE, agent |-> FALSE,
             created |-> fastclaw.created + 1]
      [] op = "enable" -> [fastclaw EXCEPT !.enabled = TRUE]
      [] op = "off"    -> [fastclaw EXCEPT !.enabled = FALSE]
      [] op = "agent"  -> [fastclaw EXCEPT !.agent = TRUE]
      [] op = "remove" /\ fastclaw.user = user ->
            [fastclaw EXCEPT !.user = 0, !.enabled = FALSE, !.agent = FALSE]
      [] OTHER -> fastclaw

(* Mutant: a disable that had to provision its user forgets to disable it. *)
NextOp_SkipsOff(op, i, agent) ==
    CASE op = "provision" /\ i = "delete" -> "remove"
      [] op \in {"provision", "enable"} /\ i = "activate" /\ ~agent -> "agent"
      [] OTHER -> "succeed"

NextOp(op, i, agent) ==
    CASE op = "provision" /\ i = "disable" -> "off"
      [] op = "provision" /\ i = "delete"  -> "remove"
      [] op \in {"provision", "enable"} /\ i = "activate" /\ ~agent -> "agent"
      [] OTHER -> "succeed"

(* The request is answered and the answer says it was done. *)
RemoteAnswered(c, op) ==
    /\ call[c].stage = op
    /\ Accepts(op, call[c].user)
    /\ fastclaw' = Effect(op, call[c].user)
    /\ call' = [call EXCEPT ![c] = [@ EXCEPT
                    !.stage = NextOp(op, call[c].intent, call[c].agent),
                    !.user = IF op = "provision" THEN fastclaw'.user ELSE call[c].user,
                    !.agent = call[c].agent \/ op = "agent"]]
    /\ UNCHANGED <<row, events, stray, landed>>

(* An error status, an unreadable answer, or no answer within the timeout: *)
(* the request may or may not have been carried out.                       *)
RemoteFailed(c, op) ==
    /\ call[c].stage = op
    /\ call' = [call EXCEPT ![c].stage = "fail"]
    /\ \/ UNCHANGED fastclaw
       \/ Accepts(op, call[c].user) /\ fastclaw' = Effect(op, call[c].user)
    /\ UNCHANGED <<row, events, stray, landed>>

(* The timeout aborts a request that FastClaw has yet to see. *)
RemoteAbandoned(c, op) ==
    /\ call[c].stage = op
    /\ Cardinality(stray) < MaxStray
    /\ stray' = stray \cup {[op |-> op, user |-> call[c].user]}
    /\ call' = [call EXCEPT ![c].stage = "fail"]
    /\ UNCHANGED <<row, events, fastclaw, landed>>

Land ==
    \E s \in stray :
        /\ stray' = stray \ {s}
        /\ landed' = IF "provision" \in {s.op, landed} THEN "provision" ELSE "other"
        /\ fastclaw' = IF Accepts(s.op, s.user) THEN Effect(s.op, s.user) ELSE fastclaw
        /\ UNCHANGED <<row, events, call>>

-----------------------------------------------------------------------------
(* finalizeSuccess, finalizeFailure and the end of the transaction *)

(* Both update the row where it carries the request's lease, and throw (so *)
(* that the route rolls back) when it does not.                            *)
HoldsLease(c) == call[c].row # NoRow /\ call[c].row.lease = call[c].request

(* Mutant: a disabled profile drops its ids as a deleted one does. *)
finalizeSuccess_DropsIds(c) ==
    /\ call[c].stage = "succeed"
    /\ HoldsLease(c)
    /\ KeyIsFree(c)
    /\ LET stays == call[c].intent = "activate"
           final == [status |-> terminalStatusForIntent[call[c].intent], lease |-> NoRequest,
                     user |-> IF stays THEN call[c].user ELSE 0,
                     agent |-> stays /\ call[c].agent]
       IN  call' = [call EXCEPT ![c] = [@ EXCEPT !.stage = "commit", !.row = final,
                                                 !.event = writeEvent(c, "succeeded")]]
    /\ UNCHANGED <<row, events, fastclaw, stray, landed>>

finalizeSuccess(c) ==
    /\ call[c].stage = "succeed"
    /\ HoldsLease(c)
    /\ KeyIsFree(c)
    /\ LET terminal == terminalStatusForIntent[call[c].intent]
           gone == call[c].intent = "delete"
           final == [status |-> terminal, lease |-> NoRequest,
                     user |-> IF gone THEN 0 ELSE call[c].user,
                     agent |-> IF gone THEN FALSE ELSE call[c].agent]
       IN  call' = [call EXCEPT ![c] = [@ EXCEPT !.stage = "commit", !.row = final,
                                                 !.event = writeEvent(c, "succeeded")]]
    /\ UNCHANGED <<row, events, fastclaw, stray, landed>>

finalizeFailure(c) ==
    /\ call[c].stage = "fail"
    /\ HoldsLease(c)
    /\ KeyIsFree(c)
    /\ \E failureStatus \in {"blocked_retryable", call[c].from} :
          LET final == [status |-> failureStatus, lease |-> NoRequest,
                        user |-> IF call[c].user # 0 THEN call[c].user ELSE call[c].row.user,
                        agent |-> call[c].agent \/ call[c].row.agent]
          IN  call' = [call EXCEPT ![c] = [@ EXCEPT !.stage = "commit", !.row = final,
                                             !.event = writeEvent(c, "failed")]]
    /\ UNCHANGED <<row, events, fastclaw, stray, landed>>

Commit(c) ==
    /\ call[c].stage = "commit"
    /\ row' = Visible(c)
    /\ events' = IF call[c].event = NoEvent THEN events
                 ELSE [events EXCEPT ![call[c].request] = call[c].event]
    /\ call' = [call EXCEPT ![c] = Idle]
    /\ UNCHANGED <<fastclaw, stray, landed>>

(* A statement fails, the connection is lost or the Worker is stopped.  A  *)
(* request to FastClaw that was under way may still land.                  *)
Rollback(c) ==
    /\ call[c].stage # "idle"
    /\ call' = [call EXCEPT ![c] = Idle]
    /\ \/ UNCHANGED stray
       \/ /\ call[c].stage \in RemoteOps
          /\ Cardinality(stray) < MaxStray
          /\ stray' = stray \cup {[op |-> call[c].stage, user |-> call[c].user]}
    /\ UNCHANGED <<row, events, fastclaw, landed>>

-----------------------------------------------------------------------------
(* The steps that a call takes when nothing goes wrong around it. *)
Step(c) ==
    \/ recordDenied(c)
    \/ recordDeniedEvent(c)
    \/ claimRead(c)
    \/ claimUpdate(c)
    \/ claimReread(c)
    \/ recordTerminal(c)
    \/ finalizeSuccess(c)
    \/ finalizeFailure(c)
    \/ Commit(c)
    \/ \E op \in RemoteOps : RemoteAnswered(c, op) \/ RemoteFailed(c, op)

Next ==
    \/ \E c \in Calls :
          \/ Begin(c)
          \/ Step(c)
          \/ Rollback(c)
          \/ \E op \in RemoteOps : RemoteAbandoned(c, op)
    \/ Land

Spec == Init /\ [][Next]_vars

-----------------------------------------------------------------------------
(* Properties *)

(* The notes on the lifecycle have a claim written, in a transaction of its *)
(* own, before FastClaw is called: a disable or delete stops the profile    *)
(* from running first, and other calls see that it is busy.  The code does  *)
(* not keep this: one transaction spans the claim and the requests, so the  *)
(* committed row still says what it said before the call.                   *)
ClaimIsWrittenFirst ==
    \A c \in Calls : call[c].stage \in RemoteOps =>
        row # NoRow /\ row.status = pendingStatusForIntent[call[c].intent]

(* FastClaw and the row never speak of different users, whatever failed,   *)
(* was rolled back or landed late in between, unless it was a provisioning *)
(* that landed late: a rolled-back one is found again by its identity.     *)
OneIdentity ==
    row # NoRow /\ landed # "provision" => row.user = 0 \/ fastclaw.user \in {0, row.user}

(* The database's check (an active profile names a user and an agent) is   *)
(* never violated, though a failure restores a status that was read before *)
(* the row was held: once an active row has existed its ids stay until it  *)
(* is deleted.                                                             *)
ActiveNamesAgent ==
    \A r \in {row} \cup {call[c].row : c \in Calls} :
        r # NoRow /\ r.status = "active" => r.user # 0 /\ r.agent

(* A call that is about to commit a success of its own says the truth about *)
(* FastClaw: other calls cannot have interfered since the request was      *)
(* answered, nor, with a delete, any stray request but a provisioning.     *)
(* (An activation proves the user and agent, not that the user is enabled: *)
(* provisioning does not enable a user that exists.)                       *)
SuccessIsReal ==
    \A c \in Calls :
        /\ call[c].stage = "commit"
        /\ call[c].event = "succeeded"
        /\ call[c].from # terminalStatusForIntent[call[c].intent]
        => CASE call[c].intent = "activate" ->
                    landed = "nothing" => /\ fastclaw.user = call[c].row.user
                                          /\ fastclaw.user # 0
                                          /\ fastclaw.agent
             [] call[c].intent = "disable" -> landed = "nothing" => ~fastclaw.enabled
             [] call[c].intent = "delete" -> landed # "provision" => fastclaw.user = 0

(* A deleted profile names nothing, and FastClaw has no user for it unless *)
(* a provisioning that was given up on has landed: no other stray request  *)
(* brings a user back.                                                     *)
DeletedMeansAbsent ==
    row # NoRow /\ row.status = "deleted" =>
        /\ row.user = 0 /\ ~row.agent
        /\ landed = "provision" \/ fastclaw.user = 0

(* No call, however stale the row it read, brings a deleted profile back.  *)
DeletedIsFinal ==
    [][row # NoRow /\ row.status = "deleted" => row' = row]_vars

(* A request has one answer: of two calls that carry the same request id,  *)
(* under way together, the later one does not replace the audit event.     *)
OneAnswerPerRequest ==
    [][\A r \in Requests : events[r] # NoEvent => events'[r] = events[r]]_vars

(* What a statement of the call waits for: the row, or the key of the event. *)
WaitsFor(c, d) ==
    /\ c # d
    /\ \/ /\ call[d].row # NoRow
          /\ \/ call[c].stage \in {"deny", "update"}
             \/ call[c].stage = "read" /\ row = NoRow
       \/ /\ call[d].event # NoEvent /\ call[d].request = call[c].request
          /\ call[c].stage \in {"denied", "record", "succeed", "fail"}

(* Transactions never wait for each other in a circle (Postgres would      *)
(* abort one of them, after its FastClaw requests were carried out): in    *)
(* every set of calls one waits for none of the others.                    *)
NoWaitCycle ==
    \A S \in (SUBSET Calls) \ {{}} : \E c \in S : \A d \in S : ~WaitsFor(c, d)

-----------------------------------------------------------------------------
(* Refinement *)

Profile ==
    IF row = NoRow THEN [status |-> "absent", user |-> 0, agent |-> FALSE]
    ELSE [status |-> row.status, user |-> row.user, agent |-> row.agent]

Ledger == INSTANCE ProfileLedger WITH profile <- Profile

(* To a reader of the database every call is one atomic transaction of     *)
(* ProfileLedger with its event, though it read the profile before it held *)
(* it and called FastClaw in between: no user or agent that another call   *)
(* wrote is lost (its status may be, to a failure that restores an older   *)
(* one), nothing follows a deletion, and no commit is without its event.   *)
ImplementsLedger == Ledger!Spec

=============================================================================
