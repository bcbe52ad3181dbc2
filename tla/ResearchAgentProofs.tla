------------------------- MODULE ResearchAgentProofs -------------------------
(* Theorems about ResearchAgentProfile for any number of calls, requests   *)
(* and FastClaw users.                                                     *)
EXTENDS ResearchAgentProfile, TLAPS

-----------------------------------------------------------------------------
(* The inductive invariant, part by part.  Its parts are operators of the  *)
(* row, the events, FastClaw's state f and landed l, so that a step can be *)
(* judged by what it makes of each.                                        *)

WorkStages == RemoteOps \cup {"succeed", "fail"}

(* A user and agent that somebody holds are the ones that FastClaw has.    *)
Names(u, a, f, l) ==
    /\ a => u # 0
    /\ l = "provision" \/ u = 0 \/ f.user = 0 \/ f.user = u
    /\ l # "nothing" \/ u = 0 \/ f.user = 0 \/ (a => f.agent)

(* A row that is committed, or may be.                                     *)
RowFits(r, f, l) ==
    /\ r.status \in Settled
    /\ r.lease = NoRequest
    /\ r.status = "active" => r.user # 0 /\ r.agent
    /\ r.status = "deleted" => r.user = 0 /\ ~r.agent /\ (l = "provision" \/ f.user = 0)
    /\ Names(r.user, r.agent, f, l)

(* What a transaction may make of the committed row.                       *)
Keeps(old, new) ==
    old # NoRow =>
        /\ old.status = "deleted" => new = old
        /\ old.user # 0 => new.status = "deleted" \/ new.user = old.user
        /\ old.agent => new.status = "deleted" \/ new.agent

(* What a call has read and not yet acted on still says enough.            *)
ReadFits(k, r) ==
    /\ k.stage = "update" =>
          /\ k.from \notin {terminalStatusForIntent[k.intent], "deleted"}
          /\ IF k.row # NoRow THEN k.row = NewRow /\ r = NoRow ELSE r # NoRow
          /\ k.from = "active" =>
                r # NoRow /\ (r.status = "deleted" \/ (r.user # 0 /\ r.agent))
    /\ k.stage = "reread" => r # NoRow /\ r.status = "deleted"
    /\ k.stage = "record" => k.from \in {terminalStatusForIntent[k.intent], "deleted"}

(* Where a working call is with FastClaw.                                  *)
StageFits(k, f, l) ==
    /\ k.stage = "provision" => k.user = 0
    /\ k.stage = "enable" => k.user # 0 /\ k.intent = "activate"
    /\ k.stage = "agent" => k.user # 0 /\ k.intent = "activate" /\ (l # "nothing" \/ f.user = k.user)
    /\ k.stage = "off" => k.user # 0 /\ k.intent = "disable"
    /\ k.stage = "remove" => k.user # 0 /\ k.intent = "delete"
    /\ k.stage = "succeed" =>
          /\ k.intent = "activate" =>
                k.user # 0 /\ k.agent /\ (l # "nothing" \/ (f.user = k.user /\ f.agent))
          /\ k.intent = "disable" => l # "nothing" \/ ~f.enabled
          /\ k.intent = "delete" => l = "provision" \/ f.user = 0

(* A working call holds the row under its lease.                           *)
WorkFits(k, r, f, l) ==
    /\ k.row # NoRow
    /\ k.row.lease = k.request /\ k.row.status \in Pending
    /\ k.from \notin {terminalStatusForIntent[k.intent], "deleted"}
    /\ k.from = "active" => k.row.user # 0 /\ k.row.agent
    /\ IF r = NoRow THEN k.row.user = 0 /\ ~k.row.agent
       ELSE r.status # "deleted" /\ r.user = k.row.user /\ r.agent = k.row.agent
    /\ k.row.user # 0 => k.user = k.row.user
    /\ k.row.agent => k.agent
    /\ Names(k.user, k.agent, f, l)
    /\ StageFits(k, f, l)

(* A success of its own that a call is about to commit.                    *)
SuccessFits(k, f, l) ==
    /\ k.stage = "commit"
    /\ k.event = "succeeded"
    /\ k.from # terminalStatusForIntent[k.intent]
    => /\ k.row # NoRow
       /\ k.intent = "activate" => l # "nothing" \/ (f.user = k.row.user /\ f.user # 0 /\ f.agent)
       /\ k.intent = "disable" => l # "nothing" \/ ~f.enabled
       /\ k.intent = "delete" => l = "provision" \/ f.user = 0

CallFits(k, r, e, f, l) ==
    /\ k.from \in Settled
    /\ k.event # "conflict"
    /\ k.event # NoEvent => k.stage = "commit" /\ e[k.request] = NoEvent
    /\ k.stage # "idle" => k.request \in Requests
    /\ k.stage \in {"idle", "deny", "read", "reread"} => k.row = NoRow
    /\ k.row # NoRow /\ k.stage \notin WorkStages => RowFits(k.row, f, l) /\ Keeps(r, k.row)
    /\ k.stage \in WorkStages => WorkFits(k, r, f, l)
    /\ ReadFits(k, r)
    /\ SuccessFits(k, f, l)

(* One transaction holds the row, and one the key of an event. *)
Exclusive ==
    \A c, d \in Calls : c # d =>
        /\ call[c].row = NoRow \/ call[d].row = NoRow
        /\ \/ call[c].event = NoEvent
           \/ call[d].event = NoEvent
           \/ call[c].request # call[d].request

IInv ==
    /\ TypeOK
    /\ row # NoRow => RowFits(row, fastclaw, landed)
    /\ \A c \in Calls : CallFits(call[c], row, events, fastclaw, landed)
    /\ Exclusive

-----------------------------------------------------------------------------
(* Steps of one call that change nothing but its own progress. *)

LEMMA CallType == ASSUME IInv, NEW c \in Calls PROVE call[c] \in CallRecords
BY DEF IInv, TypeOK

(* The transaction that has written the row is alone with it. *)
LEMMA HolderAlone ==
    ASSUME IInv, NEW c \in Calls, call[c].row # NoRow PROVE RowIsFree(c)
BY DEF IInv, Exclusive, RowIsFree

(* A call may go on to k if k is typed and fits, and it waited for what it *)
(* writes.                                                                 *)
LEMMA LocalStep ==
    ASSUME IInv, NEW c \in Calls, NEW k \in CallRecords, call' = [call EXCEPT ![c] = k],
           UNCHANGED <<row, events, fastclaw, landed>>,
           stray' \subseteq [op : RemoteOps, user : Users],
           CallFits(k, row, events, fastclaw, landed),
           k.row # NoRow => RowIsFree(c),
           k.event # NoEvent => KeyIsFree(c) /\ k.request = call[c].request
    PROVE  IInv'
<1>1. TypeOK'
  BY DEF IInv, TypeOK
<1>2. row' # NoRow => RowFits(row', fastclaw', landed')
  BY DEF IInv
<1>3. \A d \in Calls : call'[d] = IF d = c THEN k ELSE call[d]
  BY DEF IInv, TypeOK
<1>4. \A d \in Calls : CallFits(call'[d], row', events', fastclaw', landed')
  BY <1>3 DEF IInv
<1>5. Exclusive'
  <2>1. ASSUME NEW d \in Calls, NEW e \in Calls, d # e
        PROVE  /\ call'[d].row = NoRow \/ call'[e].row = NoRow
               /\ \/ call'[d].event = NoEvent
                  \/ call'[e].event = NoEvent
                  \/ call'[d].request # call'[e].request
    <3>1. CASE d # c /\ e # c
      BY <1>3, <2>1, <3>1 DEF IInv, Exclusive
    <3>2. CASE d = c
      BY <1>3, <2>1, <3>2 DEF RowIsFree, KeyIsFree
    <3>3. CASE e = c
      BY <1>3, <2>1, <3>3 DEF RowIsFree, KeyIsFree
    <3> QED
      BY <3>1, <3>2, <3>3
  <2> QED
    BY <2>1 DEF Exclusive
<1> QED
  BY <1>1, <1>2, <1>4, <1>5 DEF IInv

LEMMA NewRowFits ==
    /\ NewRow \in Rows /\ NewRow # NoRow
    /\ \A f, l : RowFits(NewRow, f, l)
<1>1. NewRow \in Rows
  BY ConstantsAssumption DEF NewRow, Rows, Settled, Users
<1>2. NewRow # NoRow
  BY <1>1, NothingAssumption
<1>3. ASSUME NEW f, NEW l PROVE RowFits(NewRow, f, l)
  BY DEF NewRow, RowFits, Names, Settled
<1> QED
  BY <1>1, <1>2, <1>3

(* A call that has read nothing yet fits anything. *)
LEMMA FreshFits ==
    ASSUME NEW k \in CallRecords, k.stage \in {"idle", "deny", "read"}, k.row = NoRow,
           k.event = NoEvent, k.from \in Settled, k.stage # "idle" => k.request \in Requests,
           NEW r, NEW e, NEW f, NEW l
    PROVE  CallFits(k, r, e, f, l)
<1>1. k.event # "conflict" /\ k.event # "succeeded"
  BY NothingAssumption DEF Outcomes
<1> QED
  BY <1>1 DEF CallFits, WorkStages, RemoteOps, ReadFits, SuccessFits

LEMMA IdleFacts ==
    /\ Idle \in CallRecords
    /\ Idle.stage = "idle" /\ Idle.row = NoRow /\ Idle.event = NoEvent /\ Idle.from \in Settled
BY ConstantsAssumption
   DEF Idle, CallRecords, Stages, Intents, Settled, Users, Rows, Outcomes

LEMMA InitInv == Init => IInv
<1> SUFFICES ASSUME Init PROVE IInv
  OBVIOUS
<1>1. \A c \in Calls : call[c] = Idle
  BY DEF Init
<1>2. TypeOK
  <2>1. call \in [Calls -> CallRecords] /\ events \in [Requests -> Outcomes \cup {NoEvent}]
    BY IdleFacts DEF Init
  <2>2. fastclaw \in FastClaws
    BY ConstantsAssumption DEF Init, FastClaws, Users
  <2> QED
    BY <2>1, <2>2 DEF Init, TypeOK
<1>3. CallFits(Idle, row, events, fastclaw, landed)
  BY IdleFacts, FreshFits
<1>4. Exclusive
  BY <1>1, IdleFacts DEF Exclusive
<1> QED
  BY <1>1, <1>2, <1>3, <1>4 DEF Init, IInv

LEMMA BeginInv == ASSUME IInv, NEW c \in Calls, Begin(c) PROVE IInv'
<1>1. PICK r \in Requests, i \in Intents, authority \in Authorities :
          call' = [call EXCEPT ![c] = [Idle EXCEPT
                          !.stage = IF preconditionDenial(i, authority) THEN "deny" ELSE "read",
                          !.request = r,
                          !.intent = i]]
  BY DEF Begin
<1> DEFINE first == IF preconditionDenial(i, authority) THEN "deny" ELSE "read"
           k == [Idle EXCEPT !.stage = first, !.request = r, !.intent = i]
<1>2. first \in {"deny", "read"}
  OBVIOUS
<1> HIDE DEF first
<1>3. k \in CallRecords /\ k.row = NoRow /\ k.event = NoEvent /\ k.from \in Settled
      /\ k.stage = first /\ k.request = r
  BY <1>2, IdleFacts DEF CallRecords, Stages
<1>4. call' = [call EXCEPT ![c] = k]
  BY <1>1 DEF first
<1> HIDE DEF k
<1>5. CallFits(k, row, events, fastclaw, landed)
  BY <1>2, <1>3, FreshFits
<1>6. stray' \subseteq [op : RemoteOps, user : Users]
  BY DEF Begin, IInv, TypeOK
<1> QED
  BY <1>3, <1>4, <1>5, <1>6, LocalStep DEF Begin

LEMMA recordDeniedInv == ASSUME IInv, NEW c \in Calls, recordDenied(c) PROVE IInv'
<1> DEFINE kept == IF row = NoRow THEN NewRow ELSE row
           k == [call[c] EXCEPT !.stage = "denied", !.row = kept]
<1>1. call[c] \in CallRecords /\ CallFits(call[c], row, events, fastclaw, landed)
      /\ call[c].stage = "deny"
  BY CallType DEF IInv, recordDenied
<1>2. kept \in Rows /\ kept # NoRow /\ RowFits(kept, fastclaw, landed) /\ Keeps(row, kept)
  BY NewRowFits DEF IInv, TypeOK, Keeps
<1> HIDE DEF kept
<1>3. k \in CallRecords /\ k.stage = "denied" /\ k.row = kept /\ k.event = NoEvent
      /\ k.from = call[c].from /\ k.request = call[c].request
  BY <1>1, <1>2 DEF CallRecords, Stages, CallFits
<1>4. CallFits(k, row, events, fastclaw, landed)
  <2> HIDE DEF k
  <2> QED
    BY <1>1, <1>2, <1>3 DEF CallFits, ReadFits, SuccessFits, WorkStages, RemoteOps
<1>5. call' = [call EXCEPT ![c] = k] /\ RowIsFree(c)
      /\ UNCHANGED <<row, events, fastclaw, landed>>
      /\ stray' \subseteq [op : RemoteOps, user : Users]
  BY DEF recordDenied, kept, IInv, TypeOK
<1> HIDE DEF k
<1> QED
  BY <1>3, <1>4, <1>5, LocalStep

(* recordDenied's second statement, recordTerminal and an abandoned reread *)
(* end in a commit that claims no success of its own.                      *)
LEMMA PlainCommit ==
    ASSUME IInv, NEW c \in Calls, call[c].stage \in {"denied", "record", "reread"},
           NEW event \in Outcomes \cup {NoEvent}, event # "conflict",
           event = "succeeded" => call[c].from = terminalStatusForIntent[call[c].intent],
           event # NoEvent => KeyIsFree(c) /\ events[call[c].request] = NoEvent,
           call' = [call EXCEPT ![c] = [@ EXCEPT !.stage = "commit", !.event = event]],
           UNCHANGED <<row, events, fastclaw, stray, landed>>
    PROVE  IInv'
<1> DEFINE k == [call[c] EXCEPT !.stage = "commit", !.event = event]
<1>1. call[c] \in CallRecords /\ CallFits(call[c], row, events, fastclaw, landed)
  BY CallType DEF IInv
<1>2. k \in CallRecords /\ k.stage = "commit" /\ k.row = call[c].row /\ k.event = event
      /\ k.from = call[c].from /\ k.request = call[c].request /\ k.intent = call[c].intent
  BY <1>1 DEF CallRecords, Stages
<1>3. call' = [call EXCEPT ![c] = k]
  BY <1>1 DEF IInv, TypeOK
<1> HIDE DEF k
<1>4. CallFits(k, row, events, fastclaw, landed)
  BY <1>1, <1>2 DEF CallFits, ReadFits, SuccessFits, WorkStages, RemoteOps
<1>5. k.row # NoRow => RowIsFree(c)
  BY <1>2, HolderAlone
<1>6. stray' \subseteq [op : RemoteOps, user : Users]
  BY DEF IInv, TypeOK
<1> QED
  BY <1>2, <1>3, <1>4, <1>5, <1>6, LocalStep

LEMMA recordDeniedEventInv ==
    ASSUME IInv, NEW c \in Calls, recordDeniedEvent(c) PROVE IInv'
<1> DEFINE event == writeEvent(c, "denied")
<1>1. call[c].stage = "denied" /\ call[c].request \in Requests
  BY DEF recordDeniedEvent, IInv, CallFits
<1>2. event \in Outcomes \cup {NoEvent} /\ event # "conflict" /\ event # "succeeded"
      /\ (event # NoEvent => events[call[c].request] = NoEvent)
  BY NothingAssumption DEF writeEvent, Outcomes
<1>3. /\ KeyIsFree(c)
      /\ call' = [call EXCEPT ![c] = [@ EXCEPT !.stage = "commit", !.event = event]]
      /\ UNCHANGED <<row, events, fastclaw, stray, landed>>
  BY DEF recordDeniedEvent
<1> HIDE DEF event
<1> QED
  BY <1>1, <1>2, <1>3, PlainCommit

LEMMA recordTerminalInv == ASSUME IInv, NEW c \in Calls, recordTerminal(c) PROVE IInv'
<1> DEFINE outcome == terminalOutcome(call[c].intent, call[c].from)
           event == writeEvent(c, outcome)
<1>1. call[c].stage = "record" /\ call[c].request \in Requests
      /\ call[c].from \in {terminalStatusForIntent[call[c].intent], "deleted"}
  BY DEF recordTerminal, IInv, CallFits, ReadFits
<1>2. \/ outcome = "succeeded" /\ call[c].from = terminalStatusForIntent[call[c].intent]
      \/ outcome = "denied"
  BY <1>1 DEF terminalOutcome
<1> HIDE DEF outcome
<1>3. /\ event \in Outcomes \cup {NoEvent} /\ event # "conflict"
      /\ event = "succeeded" => call[c].from = terminalStatusForIntent[call[c].intent]
      /\ event # NoEvent => events[call[c].request] = NoEvent
  BY <1>2, NothingAssumption DEF writeEvent, Outcomes
<1>4. /\ KeyIsFree(c)
      /\ call' = [call EXCEPT ![c] = [@ EXCEPT !.stage = "commit", !.event = event]]
      /\ UNCHANGED <<row, events, fastclaw, stray, landed>>
  BY DEF recordTerminal, outcome
<1> HIDE DEF event
<1> QED
  BY <1>1, <1>3, <1>4, PlainCommit

LEMMA claimRereadInv == ASSUME IInv, NEW c \in Calls, claimReread(c) PROVE IInv'
<1> DEFINE k == [call[c] EXCEPT !.from = "deleted", !.stage = "record"]
<1>1. call[c] \in CallRecords /\ CallFits(call[c], row, events, fastclaw, landed)
      /\ call[c].stage = "reread"
  BY CallType DEF IInv, claimReread
<1>2. call[c].row = NoRow /\ row # NoRow /\ row.status = "deleted" /\ call[c].event = NoEvent
  BY <1>1 DEF CallFits, ReadFits
<1>3. call' = [call EXCEPT ![c] = k] /\ UNCHANGED <<row, events, fastclaw, stray, landed>>
  BY <1>1, <1>2 DEF claimReread, Visible, IInv, TypeOK
<1>4. k \in CallRecords /\ k.stage = "record" /\ k.row = NoRow /\ k.event = NoEvent
      /\ k.from = "deleted" /\ k.request = call[c].request
  BY <1>1, <1>2 DEF CallRecords, Stages, Settled
<1> HIDE DEF k
<1>5. CallFits(k, row, events, fastclaw, landed)
  BY <1>1, <1>4, NothingAssumption
     DEF CallFits, ReadFits, SuccessFits, WorkStages, RemoteOps, Settled, Outcomes
<1>6. stray' \subseteq [op : RemoteOps, user : Users]
  BY <1>3 DEF IInv, TypeOK
<1> QED
  BY <1>3, <1>4, <1>5, <1>6, LocalStep

LEMMA claimReadInv == ASSUME IInv, NEW c \in Calls, claimRead(c) PROVE IInv'
<1> DEFINE current == IF row = NoRow THEN NewRow ELSE row
           next == IF current.status \in {terminalStatusForIntent[call[c].intent], "deleted"}
                   THEN "record" ELSE "update"
           own == IF row = NoRow THEN NewRow ELSE call[c].row
           k == [call[c] EXCEPT !.stage = next, !.from = current.status, !.row = own]
<1>1. call[c] \in CallRecords /\ CallFits(call[c], row, events, fastclaw, landed)
      /\ call[c].stage = "read" /\ call[c].row = NoRow /\ call[c].event = NoEvent
  BY CallType DEF IInv, claimRead, CallFits
<1>2. /\ current \in Rows /\ current # NoRow /\ RowFits(current, fastclaw, landed)
      /\ row # NoRow => current = row
      /\ row = NoRow => current = NewRow /\ current.status = "disabled"
  BY NewRowFits, NothingAssumption DEF IInv, TypeOK, NewRow
<1>3. /\ own \in Rows \cup {NoRow}
      /\ IF row = NoRow THEN own = NewRow /\ own # NoRow ELSE own = NoRow
  BY <1>1, NewRowFits
<1>4. IF current.status \in {terminalStatusForIntent[call[c].intent], "deleted"}
      THEN next = "record" ELSE next = "update"
  OBVIOUS
<1>5. call' = [call EXCEPT ![c] = k] /\ UNCHANGED <<row, events, fastclaw, stray, landed>>
      /\ (row = NoRow => RowIsFree(c))
  BY <1>1 DEF claimRead, IInv, TypeOK
<1> HIDE DEF current, next, own
<1>6. k \in CallRecords /\ k.stage = next /\ k.row = own /\ k.event = NoEvent
      /\ k.from = current.status /\ k.request = call[c].request /\ k.intent = call[c].intent
  <2>1. current.status \in Pending \cup Settled
    BY <1>2 DEF Rows
  <2>2. next \in Stages
    BY <1>4 DEF Stages
  <2> QED
    BY <1>1, <1>3, <2>1, <2>2 DEF CallRecords
<1> HIDE DEF k
<1>7. ReadFits(k, row)
  <2>1. current.status = "active" =>
           row # NoRow /\ row.user # 0 /\ row.agent
    BY <1>2 DEF RowFits
  <2> QED
    BY <2>1, <1>2, <1>3, <1>4, <1>6 DEF ReadFits
<1>8. k.row # NoRow => RowFits(k.row, fastclaw, landed) /\ Keeps(row, k.row)
  BY <1>2, <1>3, <1>6 DEF Keeps
<1>9. CallFits(k, row, events, fastclaw, landed)
  BY <1>1, <1>2, <1>4, <1>6, <1>7, <1>8, NothingAssumption
     DEF CallFits, SuccessFits, WorkStages, RemoteOps, RowFits, Outcomes, Settled
<1>10. stray' \subseteq [op : RemoteOps, user : Users]
  BY <1>5 DEF IInv, TypeOK
<1> QED
  BY <1>3, <1>5, <1>6, <1>9, <1>10, LocalStep

(* The update that takes the lease, and the one that finds the row deleted. *)
LEMMA claimUpdateInv == ASSUME IInv, NEW c \in Calls, claimUpdate(c) PROVE IInv'
<1> DEFINE before == Visible(c)
           leased == [before EXCEPT !.status = pendingStatusForIntent[call[c].intent],
                                    !.lease = call[c].request]
           next == FirstOp(call[c].intent, before.user)
           k == [call[c] EXCEPT !.stage = next, !.row = leased, !.user = before.user,
                                !.agent = before.agent]
           m == [call[c] EXCEPT !.stage = "reread"]
<1>1. /\ call[c] \in CallRecords /\ CallFits(call[c], row, events, fastclaw, landed)
      /\ call[c].stage = "update" /\ call[c].event = NoEvent /\ call[c].request \in Requests
      /\ RowIsFree(c) /\ ReadFits(call[c], row)
      /\ UNCHANGED <<row, events, fastclaw, stray, landed>>
  BY CallType DEF IInv, claimUpdate, CallFits
<1>2. /\ before \in Rows /\ RowFits(before, fastclaw, landed)
      /\ IF row = NoRow THEN before = NewRow ELSE before = row /\ call[c].row = NoRow
      /\ call[c].from = "active" => before.status = "deleted" \/ (before.user # 0 /\ before.agent)
  BY <1>1, NewRowFits DEF IInv, TypeOK, Visible, ReadFits
<1>3. before.lease = NoRequest
  BY <1>2 DEF RowFits
<1>4. \/ before.status # "deleted" /\ call' = [call EXCEPT ![c] = k]
      \/ before.status = "deleted" /\ call' = [call EXCEPT ![c] = m]
  BY <1>1, <1>3 DEF claimUpdate, IInv, TypeOK
<1>5. stray' \subseteq [op : RemoteOps, user : Users]
  BY <1>1 DEF IInv, TypeOK
<1>6. CASE before.status = "deleted"
  <2>1. row # NoRow /\ before = row /\ call[c].row = NoRow
    BY <1>2, <1>6 DEF NewRow
  <2>2. m \in CallRecords /\ m.stage = "reread" /\ m.row = NoRow /\ m.event = NoEvent
        /\ m.from = call[c].from /\ m.request = call[c].request
    BY <1>1, <2>1 DEF CallRecords, Stages
  <2>3. call' = [call EXCEPT ![c] = m]
    BY <1>4, <1>6
  <2> HIDE DEF m
  <2>4. CallFits(m, row, events, fastclaw, landed)
    BY <1>1, <1>6, <2>1, <2>2, NothingAssumption
       DEF CallFits, ReadFits, SuccessFits, WorkStages, RemoteOps, Outcomes
  <2> QED
    BY <1>1, <1>5, <2>2, <2>3, <2>4, LocalStep
<1>7. CASE before.status # "deleted"
  <2>1. call[c].intent \in Intents
    BY <1>1 DEF CallRecords
  <2>2. leased \in Rows /\ leased # NoRow /\ leased.lease = call[c].request
        /\ leased.status \in Pending
        /\ leased.user = before.user /\ leased.agent = before.agent
    <3>1. pendingStatusForIntent[call[c].intent] \in Pending
      BY <2>1 DEF Intents, pendingStatusForIntent, Pending
    <3>2. leased \in Rows
      BY <1>1, <1>2, <3>1 DEF Rows
    <3> QED
      BY <1>2, <3>1, <3>2, NothingAssumption DEF Rows
  <2>3. /\ next \in RemoteOps
        /\ before.user = 0 => next = "provision"
        /\ before.user # 0 =>
              \/ next = "enable" /\ call[c].intent = "activate"
              \/ next = "off" /\ call[c].intent = "disable"
              \/ next = "remove" /\ call[c].intent = "delete"
    BY <2>1 DEF FirstOp, Intents, RemoteOps
  <2> HIDE DEF leased, next
  <2>4. k \in CallRecords /\ k.stage = next /\ k.row = leased /\ k.user = before.user
        /\ k.agent = before.agent /\ k.event = NoEvent /\ k.from = call[c].from
        /\ k.request = call[c].request /\ k.intent = call[c].intent
    BY <1>1, <1>2, <2>2, <2>3 DEF CallRecords, Stages, Rows
  <2>5. call' = [call EXCEPT ![c] = k]
    BY <1>4, <1>7 DEF k, leased, next
  <2> HIDE DEF k, before
  <2>6. StageFits(k, fastclaw, landed)
    BY <2>3, <2>4 DEF StageFits, RemoteOps
  <2>7. k.from \notin {terminalStatusForIntent[k.intent], "deleted"} /\ k.from \in Settled
    BY <1>1, <2>4 DEF ReadFits, CallFits
  <2>8. IF row = NoRow THEN k.row.user = 0 /\ ~k.row.agent
        ELSE row.status # "deleted" /\ row.user = k.row.user /\ row.agent = k.row.agent
    BY <1>2, <1>7, <2>2, <2>4 DEF NewRow
  <2>9. Names(k.user, k.agent, fastclaw, landed)
    BY <1>2, <2>4 DEF RowFits
  <2>10. WorkFits(k, row, fastclaw, landed)
    BY <1>2, <1>7, <2>2, <2>4, <2>6, <2>7, <2>8, <2>9 DEF WorkFits
  <2>11. CallFits(k, row, events, fastclaw, landed)
    BY <1>1, <2>3, <2>4, <2>7, <2>10, NothingAssumption
       DEF CallFits, ReadFits, SuccessFits, WorkStages, RemoteOps, Outcomes
  <2> QED
    BY <1>1, <1>5, <2>4, <2>5, <2>11, LocalStep
<1> QED
  BY <1>6, <1>7

-----------------------------------------------------------------------------
(* What a FastClaw request does to what is known of FastClaw.              *)

LEMMA EffectFacts ==
    ASSUME TypeOK, NEW op \in RemoteOps, NEW u \in Users, Accepts(op, u),
           op = "provision" => u = 0
    PROVE  /\ Effect(op, u) \in FastClaws
           /\ op = "provision" => Effect(op, u).user # 0
           /\ op # "provision" => Effect(op, u).user \in {0, fastclaw.user}
           /\ op \notin {"provision", "remove"} =>
                 u # 0 /\ Effect(op, u).user = u /\ fastclaw.user = u
           /\ fastclaw.user # 0 /\ op # "remove" => Effect(op, u).user = fastclaw.user
           /\ op # "remove" => (fastclaw.user # 0 /\ fastclaw.agent => Effect(op, u).agent)
           /\ op = "remove" /\ fastclaw.user = u => Effect(op, u).user = 0
           /\ op = "remove" /\ fastclaw.user # u => Effect(op, u) = fastclaw
           /\ op = "off" => ~Effect(op, u).enabled
           /\ op = "agent" => Effect(op, u).agent
<1>1. /\ fastclaw = [user |-> fastclaw.user, enabled |-> fastclaw.enabled,
                     agent |-> fastclaw.agent, created |-> fastclaw.created]
      /\ fastclaw.user \in Users /\ fastclaw.enabled \in BOOLEAN
      /\ fastclaw.agent \in BOOLEAN /\ fastclaw.created \in Users
  BY DEF TypeOK, FastClaws
<1>2. CASE op = "provision"
  <2>1. CASE fastclaw.user = 0
    <3>1. fastclaw.created + 1 \in Users \ {0}
      BY <1>1, <1>2, <2>1, ConstantsAssumption DEF Accepts, Users
    <3>2. Effect(op, u) = [user |-> fastclaw.created + 1, enabled |-> TRUE, agent |-> FALSE,
                           created |-> fastclaw.created + 1]
      BY <1>2, <2>1 DEF Effect
    <3>3. /\ Effect(op, u) \in FastClaws /\ Effect(op, u).user # 0
      BY <1>1, <3>1, <3>2 DEF FastClaws
    <3> QED
      BY <1>2, <2>1, <3>3
  <2>2. CASE fastclaw.user # 0
    BY <1>1, <1>2, <2>2 DEF Effect, TypeOK
  <2> QED
    BY <2>1, <2>2
<1>3. CASE op = "remove"
  <2>1. CASE fastclaw.user = u
    <3>1. Effect(op, u) = [fastclaw EXCEPT !.user = 0, !.enabled = FALSE, !.agent = FALSE]
      BY <1>3, <2>1 DEF Effect
    <3>2. 0 \in Users
      BY ConstantsAssumption DEF Users
    <3> QED
      BY <1>1, <1>3, <2>1, <3>1, <3>2 DEF FastClaws
  <2>2. CASE fastclaw.user # u
    BY <1>1, <1>3, <2>2 DEF Effect, TypeOK
  <2> QED
    BY <2>1, <2>2
<1>4. CASE op \in {"enable", "off", "agent"}
  BY <1>1, <1>4 DEF Accepts, Effect, FastClaws
<1> QED
  BY <1>2, <1>3, <1>4 DEF RemoteOps

(* Whoever names FastClaw's user still does after a request of the call    *)
(* that holds the row: it names the same user.                             *)
LEMMA EffectNames ==
    ASSUME TypeOK, NEW op \in RemoteOps, NEW u \in Users, Accepts(op, u),
           op = "provision" => u = 0, NEW v \in Users, NEW a \in BOOLEAN,
           Names(v, a, fastclaw, landed),
           op = "provision" => v = 0
    PROVE  Names(v, a, Effect(op, u), landed)
<1> DEFINE g == Effect(op, u)
<1>1. /\ op # "provision" => g.user \in {0, fastclaw.user}
      /\ fastclaw.user # 0 /\ op # "remove" => g.user = fastclaw.user
      /\ op # "remove" => (fastclaw.user # 0 /\ fastclaw.agent => g.agent)
      /\ op = "remove" /\ fastclaw.user = u => g.user = 0
      /\ op = "remove" /\ fastclaw.user # u => g = fastclaw
  BY EffectFacts
<1>0. g.agent \in BOOLEAN /\ fastclaw.agent \in BOOLEAN /\ landed \in {"nothing", "other", "provision"}
  BY EffectFacts DEF FastClaws, TypeOK
<1> HIDE DEF g
<1>2. CASE op = "provision"
  BY <1>0, <1>2 DEF Names
<1>3. CASE op = "remove"
  BY <1>0, <1>1, <1>3 DEF Names, g
<1>4. CASE op \notin {"provision", "remove"}
  BY <1>0, <1>1, <1>4 DEF Names, g
<1> QED
  BY <1>2, <1>3, <1>4 DEF g

(* While a call works nobody else holds the row, so that only its own      *)
(* progress and the committed row depend on FastClaw.                      *)
LEMMA RemoteStep ==
    ASSUME IInv, NEW c \in Calls, call[c].stage \in WorkStages,
           NEW k \in CallRecords, NEW g \in FastClaws,
           call' = [call EXCEPT ![c] = k], fastclaw' = g,
           UNCHANGED <<row, events, landed>>,
           stray' \subseteq [op : RemoteOps, user : Users],
           k.stage \in WorkStages, k.event = NoEvent, k.from = call[c].from,
           k.request = call[c].request,
           WorkFits(k, row, g, landed),
           row # NoRow => Names(row.user, row.agent, g, landed)
    PROVE  IInv'
<1>1. WorkFits(call[c], row, fastclaw, landed) /\ call[c].row # NoRow
      /\ call[c].request \in Requests /\ call[c].from \in Settled
  BY DEF IInv, CallFits, WorkFits, WorkStages, RemoteOps
<1>2. RowIsFree(c)
  BY <1>1, HolderAlone
<1>3. TypeOK'
  BY DEF IInv, TypeOK
<1>4. row' # NoRow => RowFits(row', fastclaw', landed')
  BY <1>1 DEF IInv, RowFits, WorkFits
<1>5. \A d \in Calls : call'[d] = IF d = c THEN k ELSE call[d]
  BY DEF IInv, TypeOK
<1>6. CallFits(k, row, events, g, landed)
  BY <1>1, NothingAssumption
     DEF CallFits, ReadFits, SuccessFits, WorkStages, RemoteOps, Outcomes
<1>7. ASSUME NEW d \in Calls \ {c} PROVE CallFits(call[d], row, events, g, landed)
  <2>1. call[d].row = NoRow /\ CallFits(call[d], row, events, fastclaw, landed)
    BY <1>2 DEF RowIsFree, IInv
  <2>2. call[d].stage \notin WorkStages
    BY <2>1 DEF CallFits, WorkFits
  <2> QED
    BY <2>1, <2>2 DEF CallFits, SuccessFits
<1>8. \A d \in Calls : CallFits(call'[d], row', events', fastclaw', landed')
  BY <1>5, <1>6, <1>7
<1>9. Exclusive'
  <2>1. ASSUME NEW d \in Calls, NEW e \in Calls, d # e
        PROVE  /\ call'[d].row = NoRow \/ call'[e].row = NoRow
               /\ \/ call'[d].event = NoEvent
                  \/ call'[e].event = NoEvent
                  \/ call'[d].request # call'[e].request
    <3>1. CASE d # c /\ e # c
      BY <1>5, <2>1, <3>1 DEF IInv, Exclusive
    <3>2. CASE d = c
      BY <1>2, <1>5, <2>1, <3>2 DEF RowIsFree
    <3>3. CASE e = c
      BY <1>2, <1>5, <2>1, <3>3 DEF RowIsFree
    <3> QED
      BY <3>1, <3>2, <3>3
  <2> QED
    BY <2>1 DEF Exclusive
<1> QED
  BY <1>3, <1>4, <1>8, <1>9 DEF IInv

LEMMA RemoteAnsweredInv ==
    ASSUME IInv, NEW c \in Calls, NEW op \in RemoteOps, RemoteAnswered(c, op) PROVE IInv'
<1> DEFINE g == Effect(op, call[c].user)
           user == IF op = "provision" THEN g.user ELSE call[c].user
           agent == call[c].agent \/ op = "agent"
           next == NextOp(op, call[c].intent, call[c].agent)
           k == [call[c] EXCEPT !.stage = next, !.user = user, !.agent = agent]
<1>1. /\ call[c] \in CallRecords /\ CallFits(call[c], row, events, fastclaw, landed)
      /\ call[c].stage = op /\ Accepts(op, call[c].user)
      /\ call[c].event = NoEvent /\ call[c].stage \in WorkStages
      /\ fastclaw' = g /\ UNCHANGED <<row, events, stray, landed>>
  BY CallType DEF IInv, RemoteAnswered, CallFits, RemoteOps, WorkStages
<1>2. WorkFits(call[c], row, fastclaw, landed) /\ StageFits(call[c], fastclaw, landed)
  BY <1>1 DEF CallFits, WorkFits
<1>3. TypeOK /\ call[c].user \in Users /\ call[c].intent \in Intents
      /\ call[c].agent \in BOOLEAN /\ landed \in {"nothing", "other", "provision"} /\ fastclaw.agent \in BOOLEAN
  BY <1>1 DEF IInv, TypeOK, CallRecords, FastClaws
<1>4. op = "provision" => call[c].user = 0 /\ ~call[c].agent
  BY <1>1, <1>2, <1>3 DEF StageFits, WorkFits, Names
<1>5. /\ g \in FastClaws
      /\ op = "provision" => g.user # 0
      /\ op \notin {"provision", "remove"} =>
            call[c].user # 0 /\ g.user = call[c].user /\ fastclaw.user = call[c].user
      /\ op = "off" => ~g.enabled
      /\ op = "agent" => g.agent
      /\ op = "remove" /\ fastclaw.user = call[c].user => g.user = 0
      /\ op = "remove" /\ fastclaw.user # call[c].user => g = fastclaw
      /\ op # "remove" => (fastclaw.user # 0 /\ fastclaw.agent => g.agent)
  BY <1>1, <1>3, <1>4, EffectFacts
<1>6. Names(call[c].user, call[c].agent, g, landed)
  BY <1>1, <1>2, <1>3, <1>4, EffectNames DEF WorkFits
<1>7. row # NoRow => Names(row.user, row.agent, g, landed)
  <2> SUFFICES ASSUME row # NoRow PROVE Names(row.user, row.agent, g, landed)
    OBVIOUS
  <2>1. row.user \in Users /\ row.agent \in BOOLEAN
    BY <1>3 DEF TypeOK, Rows
  <2>2. Names(row.user, row.agent, fastclaw, landed)
    BY DEF IInv, RowFits
  <2>3. op = "provision" => row.user = 0
    BY <1>2, <1>4 DEF WorkFits
  <2> QED
    BY <1>1, <1>3, <1>4, <2>1, <2>2, <2>3, EffectNames
<1>8. call' = [call EXCEPT ![c] = k]
  BY <1>1 DEF RemoteAnswered, IInv, TypeOK
<1> HIDE DEF g
<1>9. user \in Users /\ agent \in BOOLEAN /\ g.user \in Users
      /\ g.agent \in BOOLEAN /\ g.enabled \in BOOLEAN
  BY <1>3, <1>5 DEF FastClaws
<1>10. CASE op = "provision"
  <2>1. \/ next = "off" /\ call[c].intent = "disable"
        \/ next = "remove" /\ call[c].intent = "delete"
        \/ next = "agent" /\ call[c].intent = "activate"
    BY <1>3, <1>4, <1>10 DEF NextOp, Intents
  <2>2. user = g.user /\ user # 0 /\ ~agent /\ agent = call[c].agent
    BY <1>3, <1>4, <1>5, <1>10
  <2> HIDE DEF user, agent, next
  <2>3. next \in RemoteOps /\ k \in CallRecords /\ k.stage = next /\ k.user = user
        /\ k.agent = agent /\ k.intent = call[c].intent
    BY <1>1, <1>9, <2>1 DEF CallRecords, Stages, RemoteOps
  <2> HIDE DEF k
  <2>4. Names(k.user, k.agent, g, landed) /\ StageFits(k, g, landed)
    BY <2>1, <2>2, <2>3 DEF Names, StageFits
  <2>5. call[c].row.user = 0 /\ ~call[c].row.agent
    <3>1. call[c].row.agent \in BOOLEAN
      BY <1>1, <1>2 DEF CallRecords, Rows, WorkFits
    <3> QED
      BY <1>2, <1>4, <1>10, <3>1 DEF WorkFits
  <2>6. k.row = call[c].row /\ k.from = call[c].from /\ k.request = call[c].request
        /\ k.event = NoEvent
    BY <1>1 DEF k, CallRecords
  <2>7. WorkFits(k, row, g, landed)
    BY <1>2, <2>3, <2>4, <2>5, <2>6 DEF WorkFits
  <2> QED
    BY <1>1, <1>5, <1>7, <1>8, <2>3, <2>6, <2>7, RemoteStep, <1>3 DEF WorkStages, TypeOK
<1>11. CASE op # "provision"
  <2>1. \/ next = "agent" /\ op = "enable" /\ ~call[c].agent
        \/ next = "succeed" /\ op = "enable" /\ call[c].agent
        \/ next = "succeed" /\ op \in {"agent", "off", "remove"}
    BY <1>1, <1>2, <1>3, <1>11 DEF NextOp, RemoteOps, StageFits
  <2>2. user = call[c].user
    BY <1>11
  <2> HIDE DEF user, agent, next
  <2>3. next \in WorkStages /\ k \in CallRecords /\ k.stage = next /\ k.user = user
        /\ k.agent = agent /\ k.intent = call[c].intent
        /\ k.row = call[c].row /\ k.from = call[c].from /\ k.request = call[c].request
        /\ k.event = NoEvent
    BY <1>1, <1>9, <2>1 DEF CallRecords, Stages, RemoteOps, WorkStages
  <2> HIDE DEF k
  <2>4. agent = (call[c].agent \/ op = "agent")
    BY DEF agent
  <2>5. Names(k.user, k.agent, g, landed)
    BY <1>3, <1>5, <1>6, <1>9, <1>11, <2>2, <2>3, <2>4 DEF Names
  <2>6. StageFits(k, g, landed)
    <3>1. CASE op = "enable"
      <4>1. call[c].user # 0 /\ call[c].intent = "activate"
        BY <1>1, <1>2, <3>1 DEF StageFits
      <4>2. call[c].agent => landed # "nothing" \/ fastclaw.agent
        BY <1>2, <1>3, <1>5, <3>1, <4>1 DEF WorkFits, Names
      <4> QED
        BY <1>3, <1>5, <1>9, <2>1, <2>2, <2>3, <2>4, <3>1, <4>1, <4>2 DEF StageFits
    <3>2. CASE op = "agent"
      BY <1>1, <1>2, <1>3, <1>5, <1>9, <2>1, <2>2, <2>3, <2>4, <3>2 DEF StageFits
    <3>3. CASE op = "off"
      BY <1>1, <1>2, <1>3, <1>5, <1>9, <2>1, <2>2, <2>3, <2>4, <3>3 DEF StageFits
    <3>4. CASE op = "remove"
      <4>1. landed = "provision" \/ g.user = 0
        BY <1>1, <1>2, <1>3, <1>5, <3>4 DEF WorkFits, Names, StageFits
      <4> QED
        BY <1>1, <1>2, <2>1, <2>3, <3>4, <4>1 DEF StageFits
    <3> QED
      BY <1>11, <3>1, <3>2, <3>3, <3>4 DEF RemoteOps
  <2>7. WorkFits(k, row, g, landed)
    BY <1>2, <1>3, <1>9, <2>2, <2>3, <2>4, <2>5, <2>6 DEF WorkFits
  <2> QED
    BY <1>1, <1>3, <1>5, <1>7, <1>8, <2>3, <2>7, RemoteStep DEF TypeOK
<1> QED
  BY <1>10, <1>11

(* A request that failed, whether FastClaw carried it out or not.          *)
LEMMA RemoteFails ==
    ASSUME IInv, NEW c \in Calls, NEW op \in RemoteOps, call[c].stage = op,
           \/ UNCHANGED fastclaw
           \/ Accepts(op, call[c].user) /\ fastclaw' = Effect(op, call[c].user),
           call' = [call EXCEPT ![c].stage = "fail"], UNCHANGED <<row, events, landed>>,
           stray' \subseteq [op : RemoteOps, user : Users]
    PROVE  IInv'
<1> DEFINE k == [call[c] EXCEPT !.stage = "fail"]
           g == fastclaw'
<1>1. /\ call[c] \in CallRecords /\ CallFits(call[c], row, events, fastclaw, landed)
      /\ call[c].event = NoEvent /\ call[c].stage \in WorkStages
  BY CallType DEF IInv, CallFits, RemoteOps, WorkStages
<1>2. WorkFits(call[c], row, fastclaw, landed) /\ StageFits(call[c], fastclaw, landed)
  BY <1>1 DEF CallFits, WorkFits
<1>3. TypeOK /\ call[c].user \in Users /\ call[c].agent \in BOOLEAN
  BY <1>1 DEF IInv, TypeOK, CallRecords
<1>4. op = "provision" => call[c].user = 0 /\ ~call[c].agent
  BY <1>1, <1>2, <1>3 DEF StageFits, WorkFits, Names
<1>5. g \in FastClaws
  BY <1>3, <1>4, EffectFacts DEF TypeOK
<1>6. Names(call[c].user, call[c].agent, g, landed)
  <2>1. Names(call[c].user, call[c].agent, fastclaw, landed)
    BY <1>2 DEF WorkFits
  <2> QED
    BY <1>3, <1>4, <2>1, EffectNames
<1>7. row # NoRow => Names(row.user, row.agent, g, landed)
  <2> SUFFICES ASSUME row # NoRow PROVE Names(row.user, row.agent, g, landed)
    OBVIOUS
  <2>1. row.user \in Users /\ row.agent \in BOOLEAN
    BY <1>3 DEF TypeOK, Rows
  <2>2. Names(row.user, row.agent, fastclaw, landed)
    BY DEF IInv, RowFits
  <2>3. op = "provision" => row.user = 0
    BY <1>2, <1>4 DEF WorkFits
  <2> QED
    BY <1>3, <1>4, <2>1, <2>2, <2>3, EffectNames
<1>8. k \in CallRecords /\ k.stage = "fail" /\ k.user = call[c].user
      /\ k.agent = call[c].agent /\ k.row = call[c].row /\ k.from = call[c].from
      /\ k.request = call[c].request /\ k.event = NoEvent /\ k.intent = call[c].intent
  BY <1>1 DEF CallRecords, Stages
<1>9. call' = [call EXCEPT ![c] = k]
  BY <1>3 DEF TypeOK
<1> HIDE DEF k, g
<1>10. WorkFits(k, row, g, landed)
  BY <1>2, <1>6, <1>8 DEF WorkFits, StageFits
<1>11. fastclaw' = g
  BY DEF g
<1> QED
  BY <1>1, <1>5, <1>7, <1>8, <1>9, <1>10, <1>11, RemoteStep DEF WorkStages

LEMMA RemoteFailedInv ==
    ASSUME IInv, NEW c \in Calls, NEW op \in RemoteOps, RemoteFailed(c, op) PROVE IInv'
<1>1. stray' \subseteq [op : RemoteOps, user : Users]
  BY DEF RemoteFailed, IInv, TypeOK
<1> QED
  BY <1>1, RemoteFails DEF RemoteFailed

LEMMA RemoteAbandonedInv ==
    ASSUME IInv, NEW c \in Calls, NEW op \in RemoteOps, RemoteAbandoned(c, op) PROVE IInv'
<1>1. stray' \subseteq [op : RemoteOps, user : Users]
  BY CallType DEF RemoteAbandoned, IInv, TypeOK, CallRecords
<1> QED
  BY <1>1, RemoteFails DEF RemoteAbandoned

-----------------------------------------------------------------------------
(* The end of a transaction.                                               *)

(* A working call may commit a row that fits and keeps what it must.       *)
LEMMA FinalStep ==
    ASSUME IInv, NEW c \in Calls, call[c].stage \in WorkStages, NEW final \in Rows,
           NEW event \in Outcomes \cup {NoEvent}, event # "conflict",
           event # NoEvent => KeyIsFree(c) /\ events[call[c].request] = NoEvent,
           RowFits(final, fastclaw, landed), Keeps(row, final),
           event = "succeeded" =>
              /\ call[c].intent = "activate" =>
                    landed # "nothing" \/ (fastclaw.user = final.user /\ fastclaw.user # 0 /\ fastclaw.agent)
              /\ call[c].intent = "disable" => landed # "nothing" \/ ~fastclaw.enabled
              /\ call[c].intent = "delete" => landed = "provision" \/ fastclaw.user = 0,
           call' = [call EXCEPT ![c] = [@ EXCEPT !.stage = "commit", !.row = final,
                                                 !.event = event]],
           UNCHANGED <<row, events, fastclaw, stray, landed>>
    PROVE  IInv'
<1> DEFINE k == [call[c] EXCEPT !.stage = "commit", !.row = final, !.event = event]
<1>1. call[c] \in CallRecords /\ CallFits(call[c], row, events, fastclaw, landed)
      /\ call[c].row # NoRow /\ final # NoRow
  BY CallType, NothingAssumption DEF IInv, CallFits, WorkFits
<1>2. k \in CallRecords /\ k.stage = "commit" /\ k.row = final /\ k.event = event
      /\ k.from = call[c].from /\ k.request = call[c].request /\ k.intent = call[c].intent
  BY <1>1 DEF CallRecords, Stages
<1>3. call' = [call EXCEPT ![c] = k]
  BY DEF IInv, TypeOK
<1> HIDE DEF k
<1>4. CallFits(k, row, events, fastclaw, landed)
  BY <1>1, <1>2 DEF CallFits, ReadFits, SuccessFits, WorkStages, RemoteOps
<1>5. RowIsFree(c)
  BY <1>1, HolderAlone
<1>6. stray' \subseteq [op : RemoteOps, user : Users]
  BY DEF IInv, TypeOK
<1> QED
  BY <1>2, <1>3, <1>4, <1>5, <1>6, LocalStep

LEMMA WorkFacts ==
    ASSUME IInv, NEW c \in Calls, call[c].stage \in WorkStages
    PROVE  /\ call[c] \in CallRecords /\ WorkFits(call[c], row, fastclaw, landed)
           /\ StageFits(call[c], fastclaw, landed)
           /\ call[c].request \in Requests /\ call[c].from \in Settled
           /\ call[c].row \in Rows
           /\ call[c].row.user \in Users /\ call[c].row.agent \in BOOLEAN
           /\ call[c].user \in Users /\ call[c].agent \in BOOLEAN /\ call[c].intent \in Intents
<1>1. call[c] \in CallRecords /\ WorkFits(call[c], row, fastclaw, landed)
      /\ call[c].request \in Requests /\ call[c].from \in Settled
  BY CallType DEF IInv, CallFits, WorkStages, RemoteOps
<1>2. call[c].row \in Rows /\ StageFits(call[c], fastclaw, landed)
  BY <1>1 DEF WorkFits, CallRecords
<1> QED
  BY <1>1, <1>2 DEF CallRecords, Rows

LEMMA finalizeSuccessInv == ASSUME IInv, NEW c \in Calls, finalizeSuccess(c) PROVE IInv'
<1> DEFINE gone == call[c].intent = "delete"
           final == [status |-> terminalStatusForIntent[call[c].intent], lease |-> NoRequest,
                     user |-> IF gone THEN 0 ELSE call[c].user,
                     agent |-> IF gone THEN FALSE ELSE call[c].agent]
           event == writeEvent(c, "succeeded")
<1>1. call[c].stage \in WorkStages /\ call[c].stage = "succeed" /\ KeyIsFree(c)
      /\ call' = [call EXCEPT ![c] = [@ EXCEPT !.stage = "commit", !.row = final,
                                               !.event = event]]
      /\ UNCHANGED <<row, events, fastclaw, stray, landed>>
  BY DEF finalizeSuccess, WorkStages
<1>2. event \in {"succeeded", NoEvent} /\ event \in Outcomes \cup {NoEvent} /\ event # "conflict"
      /\ (event # NoEvent => events[call[c].request] = NoEvent)
  BY NothingAssumption DEF writeEvent, Outcomes
<1> HIDE DEF event
<1>3. /\ call[c] \in CallRecords /\ WorkFits(call[c], row, fastclaw, landed)
      /\ StageFits(call[c], fastclaw, landed)
      /\ call[c].row.user \in Users /\ call[c].row.agent \in BOOLEAN
      /\ call[c].user \in Users /\ call[c].agent \in BOOLEAN /\ call[c].intent \in Intents
      /\ landed \in {"nothing", "other", "provision"}
  BY <1>1, WorkFacts DEF IInv, TypeOK
<1>4. /\ call[c].intent = "activate" =>
            call[c].user # 0 /\ call[c].agent
            /\ (landed # "nothing" \/ (fastclaw.user = call[c].user /\ fastclaw.agent))
      /\ call[c].intent = "disable" => landed # "nothing" \/ ~fastclaw.enabled
      /\ call[c].intent = "delete" => landed = "provision" \/ fastclaw.user = 0
      /\ Names(call[c].user, call[c].agent, fastclaw, landed)
  BY <1>1, <1>3 DEF StageFits, WorkFits
<1>5. final \in Rows /\ final.status = terminalStatusForIntent[call[c].intent]
      /\ final.lease = NoRequest
      /\ IF gone THEN final.user = 0 /\ ~final.agent
         ELSE final.user = call[c].user /\ final.agent = call[c].agent
  <2>1. terminalStatusForIntent[call[c].intent] \in Settled /\ 0 \in Users
    BY <1>3, ConstantsAssumption DEF terminalStatusForIntent, Intents, Settled, Users
  <2> QED
    BY <1>3, <2>1 DEF Rows
<1> HIDE DEF final
<1>6. RowFits(final, fastclaw, landed)
  BY <1>3, <1>4, <1>5 DEF RowFits, Names, terminalStatusForIntent, Intents, Settled
<1>7. Keeps(row, final)
  BY <1>3, <1>5 DEF Keeps, WorkFits, terminalStatusForIntent, Intents
<1>8. call[c].intent = "activate" =>
         landed # "nothing" \/ (fastclaw.user = final.user /\ fastclaw.user # 0 /\ fastclaw.agent)
  BY <1>4, <1>5
<1> QED
  BY <1>1, <1>2, <1>4, <1>5, <1>6, <1>7, <1>8, FinalStep

LEMMA finalizeFailureInv == ASSUME IInv, NEW c \in Calls, finalizeFailure(c) PROVE IInv'
<1> DEFINE event == writeEvent(c, "failed")
           F(s) == [status |-> s, lease |-> NoRequest,
                    user |-> IF call[c].user # 0 THEN call[c].user ELSE call[c].row.user,
                    agent |-> call[c].agent \/ call[c].row.agent]
<1>1. call[c].stage \in WorkStages /\ KeyIsFree(c)
      /\ UNCHANGED <<row, events, fastclaw, stray, landed>>
  BY DEF finalizeFailure, WorkStages
<1>2. PICK failureStatus \in {"blocked_retryable", call[c].from} :
         call' = [call EXCEPT ![c] = [@ EXCEPT !.stage = "commit", !.row = F(failureStatus),
                                               !.event = event]]
  BY DEF finalizeFailure
<1> DEFINE final == F(failureStatus)
<1>3. event \in Outcomes \cup {NoEvent} /\ event # "conflict" /\ event # "succeeded"
      /\ (event # NoEvent => events[call[c].request] = NoEvent)
  BY NothingAssumption DEF writeEvent, Outcomes
<1> HIDE DEF event
<1>4. /\ WorkFits(call[c], row, fastclaw, landed) /\ call[c].from \in Settled
      /\ call[c].row.user \in Users /\ call[c].row.agent \in BOOLEAN
      /\ call[c].user \in Users /\ call[c].agent \in BOOLEAN /\ call[c].intent \in Intents
  BY <1>1, WorkFacts
<1>5. /\ call[c].row.user # 0 => call[c].user = call[c].row.user
      /\ call[c].row.agent => call[c].agent
      /\ call[c].from # "deleted"
      /\ call[c].from = "active" => call[c].row.user # 0 /\ call[c].row.agent
      /\ Names(call[c].user, call[c].agent, fastclaw, landed)
  BY <1>4 DEF WorkFits
<1>6. final \in Rows /\ final.status = failureStatus /\ final.lease = NoRequest
      /\ final.user = call[c].user /\ final.agent = call[c].agent
  <2>1. failureStatus \in Settled
    BY <1>4 DEF Settled
  <2> QED
    BY <1>4, <1>5, <2>1 DEF Rows
<1> HIDE DEF F
<1>7. RowFits(final, fastclaw, landed)
  BY <1>4, <1>5, <1>6 DEF RowFits, Settled
<1>8. Keeps(row, final)
  BY <1>4, <1>5, <1>6 DEF Keeps, WorkFits
<1> QED
  BY <1>1, <1>2, <1>3, <1>6, <1>7, <1>8, FinalStep

LEMMA RollbackInv == ASSUME IInv, NEW c \in Calls, Rollback(c) PROVE IInv'
<1>1. call' = [call EXCEPT ![c] = Idle] /\ UNCHANGED <<row, events, fastclaw, landed>>
  BY DEF Rollback
<1>2. stray' \subseteq [op : RemoteOps, user : Users]
  BY CallType DEF Rollback, IInv, TypeOK, CallRecords
<1>3. CallFits(Idle, row, events, fastclaw, landed)
  BY IdleFacts, FreshFits
<1> QED
  BY <1>1, <1>2, <1>3, IdleFacts, LocalStep

(* A stray request that lands leaves of what is claimed of FastClaw only   *)
(* its user, which no such request but a provisioning brings back.         *)
LEMMA LandInv == IInv /\ Land => IInv'
<1> SUFFICES ASSUME IInv, Land PROVE IInv'
  OBVIOUS
<1>1. PICK s \in stray :
         /\ stray' = stray \ {s}
         /\ landed' = IF "provision" \in {s.op, landed} THEN "provision" ELSE "other"
         /\ fastclaw' = IF Accepts(s.op, s.user) THEN Effect(s.op, s.user) ELSE fastclaw
  BY DEF Land
<1>2. /\ landed' = IF "provision" \in {s.op, landed} THEN "provision" ELSE "other"
      /\ UNCHANGED <<row, events, call>>
  BY <1>1 DEF Land
<1>3. TypeOK /\ s.op \in RemoteOps /\ s.user \in Users
  BY DEF IInv, TypeOK
<1>4. fastclaw' \in FastClaws
  <2> SUFFICES ASSUME Accepts(s.op, s.user) PROVE Effect(s.op, s.user) \in FastClaws
    BY <1>1, <1>3 DEF TypeOK
  <2>1. CASE s.op # "provision"
    BY <1>3, <2>1, EffectFacts
  <2>2. CASE s.op = "provision" /\ fastclaw.user = 0
    <3>1. fastclaw.created + 1 \in Users
      BY <1>3, <2>2, ConstantsAssumption DEF Accepts, Users, TypeOK, FastClaws
    <3> QED
      BY <2>2, <3>1 DEF Effect, FastClaws
  <2>3. CASE s.op = "provision" /\ fastclaw.user # 0
    BY <1>3, <2>3 DEF Effect, TypeOK
  <2> QED
    BY <2>1, <2>2, <2>3
<1>9. landed' # "nothing" /\ landed' \in {"other", "provision"}
      /\ (landed' = "other" => landed # "provision" /\ fastclaw'.user \in {0, fastclaw.user})
  <2>1. landed' = "other" => s.op # "provision" /\ landed # "provision"
    BY <1>2
  <2>2. s.op # "provision" => fastclaw'.user \in {0, fastclaw.user}
    BY <1>1, <1>3, EffectFacts
  <2> QED
    BY <1>2, <2>1, <2>2
<1>5. TypeOK'
  BY <1>1, <1>2, <1>3, <1>4 DEF TypeOK
<1>6. row' # NoRow => RowFits(row', fastclaw', landed')
  BY <1>2, <1>9 DEF IInv, RowFits, Names
<1>7. ASSUME NEW c \in Calls PROVE CallFits(call'[c], row', events', fastclaw', landed')
  <2>1. CallFits(call[c], row, events, fastclaw, landed)
    BY DEF IInv
  <2>2. call[c].row # NoRow /\ call[c].stage \notin WorkStages =>
           RowFits(call[c].row, fastclaw', landed')
    BY <1>2, <1>9, <2>1 DEF CallFits, RowFits, Names
  <2>3. call[c].stage \in WorkStages => WorkFits(call[c], row, fastclaw', landed')
    BY <1>2, <1>9, <2>1 DEF CallFits, WorkFits, StageFits, Names
  <2>4. SuccessFits(call[c], fastclaw', landed')
    BY <1>2, <1>9, <2>1 DEF CallFits, SuccessFits
  <2> QED
    BY <1>2, <2>1, <2>2, <2>3, <2>4 DEF CallFits
<1>8. Exclusive'
  BY <1>2, <1>9 DEF IInv, Exclusive
<1> QED
  BY <1>5, <1>6, <1>7, <1>8 DEF IInv

(* The committed row becomes what the call made of it, which keeps what    *)
(* calls that have read the old one rely on.                               *)
LEMMA KeptRead ==
    ASSUME NEW k, NEW old, NEW new, ReadFits(k, old), k.row = NoRow, new # NoRow,
           Keeps(old, new), NEW f, NEW l, RowFits(new, f, l)
    PROVE  ReadFits(k, new)
BY DEF ReadFits, Keeps

LEMMA CommitInv == ASSUME IInv, NEW c \in Calls, Commit(c) PROVE IInv'
<1>1. /\ call[c] \in CallRecords /\ CallFits(call[c], row, events, fastclaw, landed)
      /\ call[c].stage = "commit" /\ call[c].request \in Requests
      /\ call' = [call EXCEPT ![c] = Idle] /\ row' = Visible(c)
      /\ events' = IF call[c].event = NoEvent THEN events
                   ELSE [events EXCEPT ![call[c].request] = call[c].event]
      /\ UNCHANGED <<fastclaw, stray, landed>>
  BY CallType DEF IInv, Commit, CallFits
<1>2. /\ row' \in Rows \cup {NoRow}
      /\ row' # NoRow => RowFits(row', fastclaw, landed)
      /\ call[c].row # NoRow => row' = call[c].row /\ row' # NoRow /\ Keeps(row, row')
      /\ call[c].row = NoRow => row' = row
  BY <1>1 DEF IInv, TypeOK, Visible, CallRecords, CallFits, WorkStages, RemoteOps
<1>3. events' \in [Requests -> Outcomes \cup {NoEvent}]
  BY <1>1 DEF IInv, TypeOK, CallRecords
<1>4. \A d \in Calls : call'[d] = IF d = c THEN Idle ELSE call[d]
  BY <1>1 DEF IInv, TypeOK
<1>5. TypeOK'
  BY <1>1, <1>2, <1>3, IdleFacts DEF IInv, TypeOK
<1>6. CallFits(Idle, row', events', fastclaw, landed)
  BY IdleFacts, FreshFits
<1>7. ASSUME NEW d \in Calls \ {c} PROVE CallFits(call[d], row', events', fastclaw, landed)
  <2>1. CallFits(call[d], row, events, fastclaw, landed)
    BY DEF IInv
  <2>2. call[d].event # NoEvent => events'[call[d].request] = events[call[d].request]
    <3> SUFFICES ASSUME call[d].event # NoEvent
                 PROVE  events'[call[d].request] = events[call[d].request]
      OBVIOUS
    <3>1. call[d].request \in Requests
      BY <2>1 DEF CallFits
    <3>2. call[c].event = NoEvent \/ call[c].request # call[d].request
      BY DEF IInv, Exclusive
    <3> QED
      BY <1>1, <3>1, <3>2 DEF IInv, TypeOK
  <2>3. CASE call[c].row = NoRow
    BY <1>2, <2>1, <2>2, <2>3 DEF CallFits
  <2>4. CASE call[c].row # NoRow
    <3>1. call[d].row = NoRow
      BY <2>4 DEF IInv, Exclusive
    <3>2. call[d].stage \notin WorkStages
      BY <2>1, <3>1 DEF CallFits, WorkFits
    <3>3. ReadFits(call[d], row')
      BY <1>2, <2>1, <2>4, <3>1, KeptRead DEF CallFits
    <3> QED
      BY <2>1, <2>2, <3>1, <3>2, <3>3 DEF CallFits
  <2> QED
    BY <2>3, <2>4
<1>8. ASSUME NEW d \in Calls PROVE CallFits(call'[d], row', events', fastclaw', landed')
  BY <1>1, <1>4, <1>6, <1>7
<1>9. Exclusive'
  BY <1>4, IdleFacts DEF IInv, Exclusive
<1> QED
  BY <1>1, <1>2, <1>5, <1>8, <1>9 DEF IInv

LEMMA NextInv == IInv /\ [Next]_vars => IInv'
<1> SUFFICES ASSUME IInv, [Next]_vars PROVE IInv'
  OBVIOUS
<1>1. ASSUME NEW c \in Calls, Step(c) PROVE IInv'
  <2>1. CASE recordDenied(c)
    BY <2>1, recordDeniedInv
  <2>2. CASE recordDeniedEvent(c)
    BY <2>2, recordDeniedEventInv
  <2>3. CASE claimRead(c)
    BY <2>3, claimReadInv
  <2>4. CASE claimUpdate(c)
    BY <2>4, claimUpdateInv
  <2>5. CASE claimReread(c)
    BY <2>5, claimRereadInv
  <2>6. CASE recordTerminal(c)
    BY <2>6, recordTerminalInv
  <2>7. CASE finalizeSuccess(c)
    BY <2>7, finalizeSuccessInv
  <2>8. CASE finalizeFailure(c)
    BY <2>8, finalizeFailureInv
  <2>9. CASE Commit(c)
    BY <2>9, CommitInv
  <2>10. ASSUME NEW op \in RemoteOps, RemoteAnswered(c, op) \/ RemoteFailed(c, op) PROVE IInv'
    BY <2>10, RemoteAnsweredInv, RemoteFailedInv
  <2> QED
    BY <1>1, <2>1, <2>2, <2>3, <2>4, <2>5, <2>6, <2>7, <2>8, <2>9, <2>10 DEF Step
<1>2. ASSUME NEW c \in Calls, NEW op \in RemoteOps, RemoteAbandoned(c, op) PROVE IInv'
  BY <1>2, RemoteAbandonedInv
<1>3. CASE UNCHANGED vars
  BY <1>3 DEF vars, IInv, TypeOK, Exclusive
<1> QED
  BY <1>1, <1>2, <1>3, BeginInv, RollbackInv, LandInv DEF Next

LEMMA SpecInv == Spec => []IInv
<1> QED
  BY InitInv, NextInv, PTL DEF Spec

-----------------------------------------------------------------------------
(* The theorems.                                                           *)

(* Every variable keeps its type. *)
THEOREM ResearchAgentTypeSafe == Spec => []TypeOK
<1>1. IInv => TypeOK
  BY DEF IInv
<1> QED
  BY <1>1, SpecInv, PTL

Working(c) == call[c].stage \in RemoteOps \cup {"succeed", "fail"}

(* No committed row is pending or leased, and a working call holds its own. *)
ClaimStaysPrivate ==
    /\ row # NoRow => row.status \in Settled /\ row.lease = NoRequest
    /\ \A c \in Calls :
          /\ call[c].from \in Settled
          /\ call[c].event # "conflict"
          /\ Working(c) => HoldsLease(c)

(* How far ClaimIsWrittenFirst is missed: no claim is ever seen by another *)
(* call, none is answered busy, and what a stopped call left at FastClaw   *)
(* is nowhere written down; but a finalisation always finds its lease.     *)
THEOREM ClaimsStayPrivate == Spec => []ClaimStaysPrivate
<1>1. IInv => ClaimStaysPrivate
  BY DEF IInv, ClaimStaysPrivate, CallFits, WorkFits, RowFits, Working, WorkStages, HoldsLease
<1> QED
  BY <1>1, SpecInv, PTL

(* The row and FastClaw never name different users, unless a provisioning  *)
(* that was given up on has landed.                                        *)
THEOREM OneIdentityAlways == Spec => []OneIdentity
<1>1. IInv => OneIdentity
  BY DEF IInv, TypeOK, OneIdentity, RowFits, Names
<1> QED
  BY <1>1, SpecInv, PTL

(* An active row, committed or about to be, names its user and its agent.  *)
THEOREM ActiveRowsNameAgents == Spec => []ActiveNamesAgent
<1>1. ASSUME IInv PROVE ActiveNamesAgent
  <2>1. row # NoRow /\ row.status = "active" => row.user # 0 /\ row.agent
    BY <1>1 DEF IInv, RowFits
  <2>2. ASSUME NEW c \in Calls, call[c].row # NoRow, call[c].row.status = "active"
        PROVE  call[c].row.user # 0 /\ call[c].row.agent
    <3>1. CallFits(call[c], row, events, fastclaw, landed)
      BY <1>1 DEF IInv
    <3>2. call[c].stage \notin WorkStages
      BY <2>2, <3>1 DEF CallFits, WorkFits, Pending
    <3> QED
      BY <2>2, <3>1, <3>2 DEF CallFits, RowFits
  <2> QED
    BY <2>1, <2>2 DEF ActiveNamesAgent
<1> QED
  BY <1>1, SpecInv, PTL

(* A success that a call is about to commit is the state of FastClaw.      *)
THEOREM SuccessesAreReal == Spec => []SuccessIsReal
<1>1. ASSUME IInv PROVE SuccessIsReal
  <2>1. ASSUME NEW c \in Calls, call[c].stage = "commit", call[c].event = "succeeded",
               call[c].from # terminalStatusForIntent[call[c].intent]
        PROVE  /\ call[c].intent = "activate" /\ landed = "nothing" =>
                     /\ fastclaw.user = call[c].row.user
                     /\ fastclaw.user # 0
                     /\ fastclaw.agent
               /\ call[c].intent = "disable" /\ landed = "nothing" => ~fastclaw.enabled
               /\ call[c].intent = "delete" /\ landed # "provision" => fastclaw.user = 0
               /\ call[c].intent \in Intents
    <3>1. SuccessFits(call[c], fastclaw, landed) /\ call[c].intent \in Intents
      BY <1>1, CallType DEF IInv, CallFits, CallRecords
    <3> QED
      BY <2>1, <3>1 DEF SuccessFits
  <2> QED
    BY <2>1 DEF SuccessIsReal, Intents
<1> QED
  BY <1>1, SpecInv, PTL

(* A deleted profile names nothing and FastClaw has no user for it.        *)
THEOREM DeletedProfilesAreAbsent == Spec => []DeletedMeansAbsent
<1>1. IInv => DeletedMeansAbsent
  BY DEF IInv, DeletedMeansAbsent, RowFits
<1> QED
  BY <1>1, SpecInv, PTL

(* Transactions never wait for each other in a circle.                     *)
THEOREM NoWaitCycles == Spec => []NoWaitCycle
<1>1. ASSUME IInv, NEW S \in (SUBSET Calls) \ {{}}
      PROVE  \E c \in S : \A d \in S : ~WaitsFor(c, d)
  <2>1. \A c \in Calls : /\ call[c].event # NoEvent => call[c].stage = "commit"
                         /\ call[c].stage \in {"deny", "read"} => call[c].row = NoRow
    BY <1>1 DEF IInv, CallFits
  <2>2. CASE \E c \in S : call[c].stage = "commit"
    BY <2>2 DEF WaitsFor
  <2>3. CASE /\ \A c \in S : call[c].stage # "commit"
             /\ \E c \in S : call[c].row # NoRow
    <3>1. PICK c \in S : call[c].row # NoRow
      BY <2>3
    <3>2. \A d \in S \ {c} : call[d].row = NoRow /\ call[d].event = NoEvent
      BY <1>1, <2>1, <2>3, <3>1 DEF IInv, Exclusive
    <3> QED
      BY <3>1, <3>2 DEF WaitsFor
  <2>4. CASE /\ \A c \in S : call[c].stage # "commit"
             /\ \A c \in S : call[c].row = NoRow
    <3>1. \A d \in S : call[d].event = NoEvent
      BY <2>1, <2>4
    <3>2. PICK c \in S : TRUE
      OBVIOUS
    <3> QED
      BY <2>4, <3>1, <3>2 DEF WaitsFor
  <2> QED
    BY <2>2, <2>3, <2>4
<1>2. IInv => NoWaitCycle
  BY <1>1 DEF NoWaitCycle
<1> QED
  BY <1>2, SpecInv, PTL

(* A deleted profile stays as it is.                                       *)
THEOREM DeletedProfilesAreFinal == Spec => DeletedIsFinal
<1>1. ASSUME IInv, [Next]_vars, row # NoRow, row.status = "deleted" PROVE row' = row
  <2>1. ASSUME NEW c \in Calls, Commit(c) PROVE row' = row
    <3>1. CallFits(call[c], row, events, fastclaw, landed) /\ call[c].stage = "commit"
          /\ row' = Visible(c)
      BY <1>1, <2>1 DEF IInv, Commit
    <3>2. call[c].row # NoRow => Keeps(row, call[c].row)
      BY <3>1 DEF CallFits, WorkStages, RemoteOps
    <3> QED
      BY <1>1, <3>1, <3>2 DEF Visible, Keeps
  <2>2. CASE ~\E c \in Calls : Commit(c)
    BY <1>1, <2>2
       DEF Next, Step, vars, Begin, Rollback, RemoteAbandoned, Land, recordDenied,
           recordDeniedEvent, claimRead, claimUpdate, claimReread, recordTerminal,
           finalizeSuccess, finalizeFailure, RemoteAnswered, RemoteFailed
  <2> QED
    BY <2>1, <2>2
<1>2. IInv /\ [Next]_vars => [row # NoRow /\ row.status = "deleted" => row' = row]_vars
  BY <1>1
<1> QED
  BY <1>2, SpecInv, PTL DEF Spec, DeletedIsFinal

(* A request keeps the one answer it was given.                            *)
THEOREM OneAnswer == Spec => OneAnswerPerRequest
<1>1. ASSUME IInv, [Next]_vars, NEW r \in Requests, events[r] # NoEvent
      PROVE  events'[r] = events[r]
  <2>1. ASSUME NEW c \in Calls, Commit(c) PROVE events'[r] = events[r]
    <3>1. call[c].event # NoEvent => events[call[c].request] = NoEvent
      BY <1>1, <2>1 DEF IInv, CallFits
    <3>2. events \in [Requests -> Outcomes \cup {NoEvent}]
      BY <1>1 DEF IInv, TypeOK
    <3> QED
      BY <1>1, <2>1, <3>1, <3>2 DEF Commit
  <2>2. CASE ~\E c \in Calls : Commit(c)
    BY <1>1, <2>2
       DEF Next, Step, vars, Begin, Rollback, RemoteAbandoned, Land, recordDenied,
           recordDeniedEvent, claimRead, claimUpdate, claimReread, recordTerminal,
           finalizeSuccess, finalizeFailure, RemoteAnswered, RemoteFailed
  <2> QED
    BY <2>1, <2>2
<1>2. IInv /\ [Next]_vars =>
         [\A r \in Requests : events[r] # NoEvent => events'[r] = events[r]]_vars
  BY <1>1
<1> QED
  BY <1>2, SpecInv, PTL DEF Spec, OneAnswerPerRequest

-----------------------------------------------------------------------------
(* Refinement: every commit is one atomic transaction of ProfileLedger.    *)

(* The transaction leaves the profile as it is, or creates it.             *)
Same(k, r) == k.row = NoRow \/ k.row = (IF r = NoRow THEN NewRow ELSE r)

Changed(k, r) == k.row # NoRow /\ (r # NoRow => r.status # "deleted")

(* What a call is about to commit agrees with the event it has recorded.   *)
LedgerFits(k, r, e) ==
    /\ k.stage \in {"denied", "record"} => Same(k, r)
    /\ k.stage = "succeed" => k.user # 0
    /\ k.stage = "commit" =>
          /\ Same(k, r) \/ Changed(k, r)
          /\ k.event = NoEvent => e[k.request] # NoEvent
          /\ k.event = "denied" => Same(k, r)
          /\ k.event = "failed" => Changed(k, r) /\ k.row.status # "deleted"
          /\ k.event = "succeeded" /\ ~Same(k, r) =>
                /\ k.row.status # "blocked_retryable"
                /\ k.row.status = "disabled" => k.row.user # 0

LedgerInv == \A c \in Calls : LedgerFits(call[c], row, events)

LEMMA LedgerKept ==
    ASSUME IInv, LedgerInv, NEW c \in Calls, NEW k, call' = [call EXCEPT ![c] = k],
           UNCHANGED <<row, events>>, LedgerFits(k, row, events)
    PROVE  LedgerInv'
<1>1. \A d \in Calls : call'[d] = IF d = c THEN k ELSE call[d]
  BY DEF IInv, TypeOK
<1> QED
  BY <1>1 DEF LedgerInv

(* The event that a statement adds, or finds. *)
LEMMA EventFacts ==
    ASSUME NEW c \in Calls, NEW outcome \in Outcomes
    PROVE  /\ writeEvent(c, outcome) \in {outcome, NoEvent}
           /\ writeEvent(c, outcome) = NoEvent => events[call[c].request] # NoEvent
BY NothingAssumption DEF writeEvent

(* Denials and answers leave the profile as they found it. *)
LEMMA AnswersFit ==
    ASSUME IInv, LedgerInv, NEW c \in Calls, call[c].stage \in {"denied", "record"},
           NEW outcome \in {"denied", "succeeded"},
           call' = [call EXCEPT ![c] = [@ EXCEPT !.stage = "commit",
                                                 !.event = writeEvent(c, outcome)]],
           UNCHANGED <<row, events>>
    PROVE  LedgerInv'
<1> DEFINE event == writeEvent(c, outcome)
           k == [call[c] EXCEPT !.stage = "commit", !.event = event]
<1>1. call[c] \in CallRecords /\ Same(call[c], row)
  BY CallType DEF LedgerInv, LedgerFits
<1>2. outcome \in Outcomes
  BY DEF Outcomes
<1>3. event \in {outcome, NoEvent} /\ (event = NoEvent => events[call[c].request] # NoEvent)
  BY <1>2, EventFacts
<1>4. NoEvent # "failed"
  BY NothingAssumption DEF Outcomes
<1>5. call' = [call EXCEPT ![c] = k]
  BY DEF IInv, TypeOK
<1> HIDE DEF event
<1>6. k.stage = "commit" /\ k.event = event /\ k.row = call[c].row /\ k.request = call[c].request
  BY <1>1 DEF CallRecords
<1> HIDE DEF k
<1>7. Same(k, row)
  BY <1>1, <1>6 DEF Same
<1>8. LedgerFits(k, row, events)
  BY <1>3, <1>4, <1>6, <1>7 DEF LedgerFits
<1> QED
  BY <1>5, <1>8, LedgerKept

(* A call that moves to a stage that promises nothing. *)
LEMMA QuietFits ==
    ASSUME IInv, LedgerInv, NEW c \in Calls, NEW k, call' = [call EXCEPT ![c] = k],
           UNCHANGED <<row, events>>,
           k.stage \notin {"denied", "record", "succeed", "commit"}
    PROVE  LedgerInv'
BY LedgerKept DEF LedgerFits

(* The outcome of a call that worked: the profile is its own by then. *)
LEMMA FinalFits ==
    ASSUME IInv, LedgerInv, NEW c \in Calls, call[c].stage \in WorkStages, NEW final \in Rows,
           NEW outcome \in {"succeeded", "failed"},
           outcome = "failed" => final.status # "deleted",
           outcome = "succeeded" => /\ final.status # "blocked_retryable"
                                    /\ final.status = "disabled" => final.user # 0,
           call' = [call EXCEPT ![c] = [@ EXCEPT !.stage = "commit", !.row = final,
                                                 !.event = writeEvent(c, outcome)]],
           UNCHANGED <<row, events>>
    PROVE  LedgerInv'
<1> DEFINE event == writeEvent(c, outcome)
           k == [call[c] EXCEPT !.stage = "commit", !.row = final, !.event = event]
<1>1. /\ call[c] \in CallRecords /\ WorkFits(call[c], row, fastclaw, landed)
      /\ final # NoRow
  BY WorkFacts, NothingAssumption
<1>2. outcome \in Outcomes
  BY DEF Outcomes
<1>3. event \in {outcome, NoEvent} /\ (event = NoEvent => events[call[c].request] # NoEvent)
  BY <1>2, EventFacts
<1>4. NoEvent \notin {"failed", "denied", "succeeded"}
  BY NothingAssumption DEF Outcomes
<1>5. call' = [call EXCEPT ![c] = k]
  BY DEF IInv, TypeOK
<1> HIDE DEF event
<1>6. k.stage = "commit" /\ k.event = event /\ k.row = final /\ k.request = call[c].request
  BY <1>1 DEF CallRecords
<1> HIDE DEF k
<1>7. Changed(k, row)
  BY <1>1, <1>6 DEF Changed, WorkFits
<1>8. LedgerFits(k, row, events)
  BY <1>3, <1>4, <1>6, <1>7 DEF LedgerFits
<1> QED
  BY <1>5, <1>8, LedgerKept

LEMMA DenialLedger ==
    ASSUME IInv, LedgerInv, NEW c \in Calls, recordDenied(c) \/ recordDeniedEvent(c)
    PROVE  LedgerInv'
<1>1. CASE recordDenied(c)
  <2> DEFINE kept == IF row = NoRow THEN NewRow ELSE row
             k == [call[c] EXCEPT !.stage = "denied", !.row = kept]
  <2>1. call[c] \in CallRecords
    BY CallType
  <2>2. call' = [call EXCEPT ![c] = k] /\ UNCHANGED <<row, events>>
    BY <1>1 DEF recordDenied, IInv, TypeOK
  <2>3. k.stage = "denied" /\ k.row = kept
    BY <2>1 DEF CallRecords
  <2> HIDE DEF k
  <2>4. LedgerFits(k, row, events)
    BY <2>3 DEF LedgerFits, Same
  <2> QED
    BY <2>2, <2>4, LedgerKept
<1>2. CASE recordDeniedEvent(c)
  BY <1>2, AnswersFit DEF recordDeniedEvent
<1> QED
  BY <1>1, <1>2

LEMMA ClaimLedger ==
    ASSUME IInv, LedgerInv, NEW c \in Calls,
           claimRead(c) \/ claimUpdate(c) \/ claimReread(c) \/ recordTerminal(c)
    PROVE  LedgerInv'
<1>0. call[c] \in CallRecords /\ CallFits(call[c], row, events, fastclaw, landed)
  BY CallType DEF IInv
<1>1. CASE claimRead(c)
  <2> DEFINE current == IF row = NoRow THEN NewRow ELSE row
             next == IF current.status \in {terminalStatusForIntent[call[c].intent], "deleted"}
                     THEN "record" ELSE "update"
             own == IF row = NoRow THEN NewRow ELSE call[c].row
             k == [call[c] EXCEPT !.stage = next, !.from = current.status, !.row = own]
  <2>1. call' = [call EXCEPT ![c] = k] /\ UNCHANGED <<row, events>>
    BY <1>1 DEF claimRead, IInv, TypeOK
  <2>2. call[c].row = NoRow
    BY <1>0, <1>1 DEF claimRead, CallFits
  <2>3. k.row = own /\ k.stage = next
    BY <1>0 DEF CallRecords
  <2>4. next \in {"record", "update"}
    OBVIOUS
  <2> HIDE DEF k, next
  <2>5. LedgerFits(k, row, events)
    BY <2>2, <2>3, <2>4 DEF LedgerFits, Same
  <2> QED
    BY <2>1, <2>5, LedgerKept
<1>2. CASE claimUpdate(c)
  <2> DEFINE before == Visible(c)
             leased == [before EXCEPT !.status = pendingStatusForIntent[call[c].intent],
                                      !.lease = call[c].request]
             next == FirstOp(call[c].intent, before.user)
             taken == [call[c] EXCEPT !.stage = next, !.row = leased, !.user = before.user,
                                      !.agent = before.agent]
             missed == [call[c] EXCEPT !.stage = "reread"]
  <2>1. /\ \/ call' = [call EXCEPT ![c] = taken]
           \/ call' = [call EXCEPT ![c] = missed]
        /\ UNCHANGED <<row, events>>
    BY <1>2 DEF claimUpdate, IInv, TypeOK
  <2>2. call[c].intent \in Intents
    BY <1>0 DEF CallRecords
  <2>3. next \in RemoteOps
    BY <2>2 DEF FirstOp, Intents, RemoteOps
  <2>4. taken.stage = next /\ missed.stage = "reread"
    BY <1>0 DEF CallRecords
  <2> HIDE DEF taken, missed, next
  <2> QED
    BY <2>1, <2>3, <2>4, QuietFits DEF RemoteOps
<1>3. CASE claimReread(c)
  <2>1. call[c].row = NoRow /\ row.status = "deleted"
    BY <1>0, <1>3 DEF claimReread, CallFits, ReadFits
  <2>2. Visible(c) = row
    BY <2>1 DEF Visible
  <2> DEFINE k == [call[c] EXCEPT !.from = "deleted", !.stage = "record"]
  <2>3. call' = [call EXCEPT ![c] = k] /\ UNCHANGED <<row, events>>
    BY <1>3, <2>1, <2>2 DEF claimReread, IInv, TypeOK
  <2>4. k.stage = "record" /\ k.row = NoRow
    BY <1>0, <2>1 DEF CallRecords
  <2> HIDE DEF k
  <2>5. LedgerFits(k, row, events)
    BY <2>4 DEF LedgerFits, Same
  <2> QED
    BY <2>3, <2>5, LedgerKept
<1>4. CASE recordTerminal(c)
  <2> DEFINE outcome == terminalOutcome(call[c].intent, call[c].from)
  <2>1. call[c].from \in {terminalStatusForIntent[call[c].intent], "deleted"}
    BY <1>0, <1>4 DEF recordTerminal, CallFits, ReadFits
  <2>2. outcome \in {"denied", "succeeded"}
    BY <2>1 DEF terminalOutcome
  <2>3. /\ call[c].stage = "record"
        /\ call' = [call EXCEPT ![c] = [@ EXCEPT !.stage = "commit",
                                                 !.event = writeEvent(c, outcome)]]
        /\ UNCHANGED <<row, events>>
    BY <1>4 DEF recordTerminal
  <2> HIDE DEF outcome
  <2> QED
    BY <2>2, <2>3, AnswersFit
<1> QED
  BY <1>1, <1>2, <1>3, <1>4

LEMMA RemoteLedger ==
    ASSUME IInv, LedgerInv, NEW c \in Calls, NEW op \in RemoteOps,
           RemoteAnswered(c, op) \/ RemoteFailed(c, op) \/ RemoteAbandoned(c, op)
    PROVE  LedgerInv'
<1>1. CASE RemoteAnswered(c, op)
  <2> DEFINE user == IF op = "provision" THEN fastclaw'.user ELSE call[c].user
             agent == call[c].agent \/ op = "agent"
             next == NextOp(op, call[c].intent, call[c].agent)
             k == [call[c] EXCEPT !.stage = next, !.user = user, !.agent = agent]
  <2>1. call' = [call EXCEPT ![c] = k] /\ UNCHANGED <<row, events>>
        /\ call[c].stage = op /\ Accepts(op, call[c].user)
        /\ fastclaw' = Effect(op, call[c].user)
    BY <1>1 DEF RemoteAnswered, IInv, TypeOK
  <2>2. call[c].stage \in WorkStages
    BY <2>1 DEF WorkStages
  <2>3. /\ call[c] \in CallRecords /\ StageFits(call[c], fastclaw, landed)
        /\ call[c].user \in Users /\ TypeOK
    BY <2>2, WorkFacts DEF IInv
  <2>4. user # 0
    <3>1. CASE op = "provision"
      BY <2>1, <2>3, <3>1, EffectFacts DEF StageFits
    <3>2. CASE op # "provision"
      BY <2>1, <2>3, <3>2 DEF StageFits, RemoteOps
    <3> QED
      BY <3>1, <3>2
  <2>5. next \in RemoteOps \cup {"succeed"}
    BY DEF NextOp, RemoteOps
  <2>6. k.stage = next /\ k.user = user
    BY <2>3 DEF CallRecords
  <2> HIDE DEF k, next, user
  <2>7. LedgerFits(k, row, events)
    BY <2>4, <2>5, <2>6 DEF LedgerFits, RemoteOps
  <2> QED
    BY <2>1, <2>7, LedgerKept
<1>2. CASE RemoteFailed(c, op) \/ RemoteAbandoned(c, op)
  <2> DEFINE k == [call[c] EXCEPT !.stage = "fail"]
  <2>1. call' = [call EXCEPT ![c] = k] /\ UNCHANGED <<row, events>>
    BY <1>2 DEF RemoteFailed, RemoteAbandoned, IInv, TypeOK
  <2>2. k.stage = "fail"
    BY CallType DEF CallRecords
  <2> HIDE DEF k
  <2> QED
    BY <2>1, <2>2, QuietFits
<1> QED
  BY <1>1, <1>2

LEMMA FinalizeLedger ==
    ASSUME IInv, LedgerInv, NEW c \in Calls, finalizeSuccess(c) \/ finalizeFailure(c)
    PROVE  LedgerInv'
<1>1. CASE finalizeSuccess(c)
  <2> DEFINE gone == call[c].intent = "delete"
             final == [status |-> terminalStatusForIntent[call[c].intent], lease |-> NoRequest,
                       user |-> IF gone THEN 0 ELSE call[c].user,
                       agent |-> IF gone THEN FALSE ELSE call[c].agent]
  <2>1. /\ call[c].stage = "succeed" /\ call[c].stage \in WorkStages
        /\ call' = [call EXCEPT ![c] = [@ EXCEPT !.stage = "commit", !.row = final,
                                                 !.event = writeEvent(c, "succeeded")]]
        /\ UNCHANGED <<row, events>>
    BY <1>1 DEF finalizeSuccess, WorkStages
  <2>2. /\ call[c].user \in Users /\ call[c].agent \in BOOLEAN /\ call[c].intent \in Intents
        /\ 0 \in Users
    BY <2>1, WorkFacts, ConstantsAssumption DEF Users
  <2>3. call[c].user # 0
    BY <2>1 DEF LedgerInv, LedgerFits
  <2>4. terminalStatusForIntent[call[c].intent] \in {"active", "disabled", "deleted"}
        /\ (gone => terminalStatusForIntent[call[c].intent] = "deleted")
    BY <2>2 DEF terminalStatusForIntent, Intents
  <2>5. final \in Rows
    BY <2>2, <2>4 DEF Rows, Settled
  <2>6. final.status # "blocked_retryable" /\ (final.status = "disabled" => final.user # 0)
    BY <2>3, <2>4
  <2> HIDE DEF final
  <2> QED
    BY <2>1, <2>5, <2>6, FinalFits
<1>2. CASE finalizeFailure(c)
  <2> DEFINE F(s) == [status |-> s, lease |-> NoRequest,
                      user |-> IF call[c].user # 0 THEN call[c].user ELSE call[c].row.user,
                      agent |-> call[c].agent \/ call[c].row.agent]
  <2>1. call[c].stage \in WorkStages /\ UNCHANGED <<row, events>>
    BY <1>2 DEF finalizeFailure, WorkStages
  <2>2. PICK failureStatus \in {"blocked_retryable", call[c].from} :
           call' = [call EXCEPT ![c] = [@ EXCEPT !.stage = "commit", !.row = F(failureStatus),
                                                 !.event = writeEvent(c, "failed")]]
    BY <1>2 DEF finalizeFailure
  <2>3. /\ WorkFits(call[c], row, fastclaw, landed) /\ call[c].from \in Settled
        /\ call[c].row.user \in Users /\ call[c].row.agent \in BOOLEAN
        /\ call[c].user \in Users /\ call[c].agent \in BOOLEAN
    BY <2>1, WorkFacts
  <2>4. failureStatus \in Settled /\ failureStatus # "deleted"
    BY <2>3 DEF WorkFits, Settled
  <2>5. F(failureStatus) \in Rows /\ F(failureStatus).status = failureStatus
    BY <2>3, <2>4 DEF Rows
  <2> HIDE DEF F
  <2> QED
    BY <2>1, <2>2, <2>4, <2>5, FinalFits
<1> QED
  BY <1>1, <1>2

(* The commit of one call leaves to the others the row they hold, and the  *)
(* events they found.                                                      *)
LEMMA CommitLedger == ASSUME IInv, LedgerInv, NEW c \in Calls, Commit(c) PROVE LedgerInv'
<1>1. /\ call' = [call EXCEPT ![c] = Idle] /\ row' = Visible(c)
      /\ events' = IF call[c].event = NoEvent THEN events
                   ELSE [events EXCEPT ![call[c].request] = call[c].event]
  BY DEF Commit
<1>2. \A d \in Calls : call'[d] = IF d = c THEN Idle ELSE call[d]
  BY <1>1 DEF IInv, TypeOK
<1>3. LedgerFits(Idle, row', events')
  BY IdleFacts DEF LedgerFits
<1>4. ASSUME NEW d \in Calls \ {c} PROVE LedgerFits(call[d], row', events')
  <2>1. LedgerFits(call[d], row, events) /\ CallFits(call[d], row, events, fastclaw, landed)
    BY DEF LedgerInv, IInv
  <2>2. call[d].row # NoRow => row' = row
    BY <1>1 DEF IInv, Exclusive, Visible
  <2>3. call[d].stage = "commit" /\ events[call[d].request] # NoEvent
           => events'[call[d].request] # NoEvent
    BY <1>1, <2>1 DEF IInv, TypeOK, CallFits
  <2>4. CASE call[d].row = NoRow
    <3>1. Same(call[d], row') /\ Same(call[d], row) /\ ~Changed(call[d], row)
      BY <2>4 DEF Same, Changed
    <3> QED
      BY <2>1, <2>3, <3>1 DEF LedgerFits
  <2>5. CASE call[d].row # NoRow
    BY <2>1, <2>2, <2>3, <2>5 DEF LedgerFits
  <2> QED
    BY <2>4, <2>5
<1> QED
  BY <1>2, <1>3, <1>4 DEF LedgerInv

LEMMA LedgerNext == ASSUME IInv, LedgerInv, [Next]_vars PROVE LedgerInv'
<1>1. ASSUME NEW c \in Calls, Begin(c) PROVE LedgerInv'
  <2>1. PICK r \in Requests, i \in Intents, authority \in Authorities :
            call' = [call EXCEPT ![c] = [Idle EXCEPT
                            !.stage = IF preconditionDenial(i, authority) THEN "deny" ELSE "read",
                            !.request = r,
                            !.intent = i]]
    BY <1>1 DEF Begin
  <2> DEFINE k == [Idle EXCEPT
                      !.stage = IF preconditionDenial(i, authority) THEN "deny" ELSE "read",
                      !.request = r,
                      !.intent = i]
  <2>2. k.stage \in {"deny", "read"}
    BY IdleFacts DEF CallRecords
  <2>3. UNCHANGED <<row, events>>
    BY <1>1 DEF Begin
  <2> HIDE DEF k
  <2> QED
    BY <2>1, <2>2, <2>3, QuietFits DEF k
<1>2. ASSUME NEW c \in Calls, Rollback(c) PROVE LedgerInv'
  BY <1>2, IdleFacts, QuietFits DEF Rollback
<1>3. ASSUME NEW c \in Calls, Step(c) PROVE LedgerInv'
  BY <1>3, DenialLedger, ClaimLedger, RemoteLedger, FinalizeLedger, CommitLedger DEF Step
<1>4. CASE Land \/ UNCHANGED vars
  BY <1>4 DEF Land, vars, LedgerInv
<1> QED
  BY <1>1, <1>2, <1>3, <1>4, RemoteLedger DEF Next

LEMMA LedgerInit == Init => LedgerInv
BY IdleFacts DEF Init, LedgerInv, LedgerFits

(* A row as the ledger shows it. *)
LEMMA ShownRow ==
    ASSUME NEW x \in Rows, NEW f, NEW l, RowFits(x, f, l)
    PROVE  [status |-> x.status, user |-> x.user, agent |-> x.agent] \in Ledger!Profiles
BY DEF Rows, RowFits, Names, Settled, Ledger!Profiles

LEMMA CommitStepsLedger ==
    ASSUME IInv, LedgerInv, NEW c \in Calls, Commit(c) PROVE Ledger!Next
<1> DEFINE k == call[c]
           r == call[c].request
<1>1. /\ k \in CallRecords /\ CallFits(k, row, events, fastclaw, landed)
      /\ LedgerFits(k, row, events) /\ k.stage = "commit" /\ r \in Requests
      /\ row' = Visible(c)
      /\ events' = IF k.event = NoEvent THEN events ELSE [events EXCEPT ![r] = k.event]
  BY CallType DEF IInv, Commit, LedgerInv, CallFits
<1>2. k.event \in {"succeeded", "denied", "failed", NoEvent} /\ NoEvent \notin Outcomes
  BY <1>1, NothingAssumption DEF CallFits, CallRecords, Outcomes
<1>3. /\ \A outcome : k.event = NoEvent => Ledger!Records(r, outcome)
      /\ k.event # NoEvent => Ledger!Records(r, k.event)
  BY <1>1 DEF CallFits, LedgerFits, Ledger!Records
<1>4. /\ row # NoRow => row \in Rows /\ row.status \in Settled
      /\ row = NoRow => Profile.status = "absent"
      /\ row # NoRow => Profile.status = row.status
  BY DEF IInv, TypeOK, RowFits, Profile
<1>5. /\ Ledger!Base.status = IF row = NoRow THEN "disabled" ELSE row.status
      /\ Ledger!Base.user = IF row = NoRow THEN 0 ELSE row.user
      /\ Ledger!Base.agent = IF row = NoRow THEN FALSE ELSE row.agent
      /\ row = NoRow => Ledger!Base = Ledger!Fresh
  BY <1>4 DEF Ledger!Base, Ledger!Fresh, Profile, Settled
<1>6. CASE Same(k, row) /\ k.event # "failed"
  <2>1. Profile' \in {Profile, Ledger!Base}
    <3>1. CASE row' = row
      BY <3>1 DEF Profile
    <3>2. CASE row = NoRow /\ row' = NewRow
      BY <1>5, <3>2, NewRowFits DEF Profile, NewRow, Ledger!Fresh
    <3> QED
      BY <1>1, <1>6, <3>1, <3>2 DEF Same, Visible
  <2>2. \E outcome \in {"succeeded", "denied"} : Ledger!Records(r, outcome)
    BY <1>2, <1>3, <1>6
  <2>3. Ledger!Answer(r)
    BY <2>1, <2>2 DEF Ledger!Answer
  <2> QED
    BY <1>1, <2>3 DEF Ledger!Next
<1>7. CASE ~(Same(k, row) /\ k.event # "failed")
  <2>1. Changed(k, row)
    BY <1>1, <1>7 DEF LedgerFits
  <2>2. /\ row' = k.row /\ k.row # NoRow /\ k.row \in Rows
        /\ RowFits(k.row, fastclaw, landed) /\ Keeps(row, k.row)
    BY <1>1, <2>1 DEF Changed, Visible, CallFits, CallRecords, WorkStages, RemoteOps
  <2>3. Profile' = [status |-> k.row.status, user |-> k.row.user, agent |-> k.row.agent]
    BY <2>2 DEF Profile
  <2>4. Profile' \in Ledger!Profiles
    BY <2>2, <2>3, ShownRow
  <2>5. Profile'.status = k.row.status /\ Profile'.user = k.row.user /\ Profile'.agent = k.row.agent
    BY <2>3
  <2>6. Ledger!Changes
    <3>1. Ledger!Base.status # "deleted"
      BY <1>5, <2>1 DEF Changed
    <3>2. k.row.status # "deleted" =>
             /\ Ledger!Base.user # 0 => k.row.user = Ledger!Base.user
             /\ Ledger!Base.agent => k.row.agent
      BY <1>5, <2>2 DEF Keeps
    <3> QED
      BY <2>4, <2>5, <3>1, <3>2 DEF Ledger!Changes
  <2>7. CASE k.event = "failed" \/ (k.event = NoEvent /\ k.row.status # "deleted")
    <3>1. k.row.status # "deleted" /\ Ledger!Records(r, "failed")
      BY <1>1, <1>2, <1>3, <2>7 DEF LedgerFits, Outcomes
    <3>2. Ledger!Fail(r)
      BY <2>5, <2>6, <3>1 DEF Ledger!Fail
    <3> QED
      BY <1>1, <3>2 DEF Ledger!Next
  <2>8. CASE k.event = "succeeded" \/ (k.event = NoEvent /\ k.row.status = "deleted")
    <3>1. /\ k.row.status # "blocked_retryable"
          /\ k.row.status = "disabled" => k.row.user # 0
          /\ Ledger!Records(r, "succeeded")
      BY <1>1, <1>2, <1>3, <1>7, <2>8 DEF LedgerFits, Outcomes
    <3>2. Ledger!Succeed(r)
      BY <2>5, <2>6, <3>1 DEF Ledger!Succeed
    <3> QED
      BY <1>1, <3>2 DEF Ledger!Next
  <2>9. k.event # "denied"
    BY <1>1, <1>7 DEF LedgerFits
  <2> QED
    BY <1>2, <2>7, <2>8, <2>9
<1> QED
  BY <1>6, <1>7

(* The lifecycle service implements the ledger, for any number of calls,   *)
(* requests and FastClaw users: leases, waiting, stale reads and whatever  *)
(* becomes of FastClaw are not seen in the database.                       *)
THEOREM ResearchAgentImplementsLedger == Spec => ImplementsLedger
<1>1. Init => Ledger!Init
  BY DEF Init, Ledger!Init, Ledger!Absent, Profile
<1>2. ASSUME IInv, LedgerInv, [Next]_vars PROVE [Ledger!Next]_(Ledger!ledger)
  <2>1. ASSUME NEW c \in Calls, Commit(c) PROVE Ledger!Next
    BY <1>2, <2>1, CommitStepsLedger
  <2>2. CASE ~\E c \in Calls : Commit(c)
    <3>1. UNCHANGED <<row, events>>
      BY <1>2, <2>2
         DEF Next, Step, vars, Begin, Rollback, RemoteAbandoned, Land, recordDenied,
             recordDeniedEvent, claimRead, claimUpdate, claimReread, recordTerminal,
             finalizeSuccess, finalizeFailure, RemoteAnswered, RemoteFailed
    <3> QED
      BY <3>1 DEF Profile, Ledger!ledger
  <2> QED
    BY <2>1, <2>2
<1>3. Init => IInv /\ LedgerInv
  BY InitInv, LedgerInit
<1>4. IInv /\ LedgerInv /\ [Next]_vars => (IInv /\ LedgerInv)'
  BY NextInv, LedgerNext
<1>5. IInv /\ LedgerInv /\ [Next]_vars => [Ledger!Next]_(Ledger!ledger)
  BY <1>2
<1> QED
  BY <1>1, <1>3, <1>4, <1>5, PTL DEF Spec, ImplementsLedger, Ledger!Spec

=============================================================================
