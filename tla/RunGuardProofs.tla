--------------------------- MODULE RunGuardProofs ---------------------------
(* Theorems about RunGuard for any number of requests, tokens and budgets. *)
EXTENDS RunGuard, FiniteSetTheorems, TLAPS

-----------------------------------------------------------------------------
(* Types *)

(* applyRunGuardClaim works on a well-formed state, stored or initial. *)
LEMMA CurrentType ==
    ASSUME TypeOK, NEW r \in Requests
    PROVE  Current(r) \in GuardState /\ (state # Absent => Current(r) = state)
BY DEF TypeOK, Current, InitialState, GuardState

(* A request that moves to a point or an answer moves alone. *)
LEMMA Moves ==
    ASSUME TypeOK, NEW r \in Requests,
           NEW p \in {"idle"} \cup Points \cup Answers, Become(r, p)
    PROVE  /\ at' \in [Requests -> {"idle"} \cup Points \cup Answers]
           /\ at'[r] = p
           /\ \A q \in Requests \ {r} : at'[q] = at[q]
BY DEF TypeOK, Become

(* What a claim can do to the guard, and where it takes the request. *)
LEMMA ClaimFacts ==
    ASSUME TypeOK, NEW r \in Requests, Claim(r)
    PROVE  /\ state' \in GuardState
           /\ at' \in [Requests -> {"idle"} \cup Points \cup Answers]
           /\ at[r] = "idle"
           /\ at'[r] \in {"probe", "file", "exec", "destroy", "ok",
                          "terminal", "refused", "operation_failed"}
           /\ \A q \in Requests \ {r} : at'[q] = at[q]
           /\ UNCHANGED <<op, token, seen, running, late>>
           /\ \/ /\ state' = Current(r) /\ spent' = spent
                 /\ at'[r] # "destroy"
              \/ /\ Latches(Current(r), r) /\ spent' = spent
                 /\ state' = [Current(r) EXCEPT !.destroying = TRUE]
                 /\ at'[r] \in {"destroy", "operation_failed"}
              \/ /\ Counts(Current(r), r) /\ spent' = spent \cup {r}
                 /\ state' = [Current(r) EXCEPT !.call_count = @ + 1]
                 /\ at'[r] # "destroy"
<1> DEFINE s == Current(r)
<1>1. s \in GuardState
  BY CurrentType
<1>2. op[r] \in Operations
  BY DEF TypeOK
<1>3. ASSUME NEW p \in {"probe", "file", "exec", "destroy",
                        "terminal", "refused"}, Answered(r, p)
      PROVE  /\ at' \in [Requests -> {"idle"} \cup Points \cup Answers]
             /\ at'[r] \in {p, "operation_failed"}
             /\ \A q \in Requests \ {r} : at'[q] = at[q]
  <2>1. PICK a \in {p, "operation_failed"} : Become(r, a)
    BY <1>3 DEF Answered
  <2>2. a \in {"idle"} \cup Points \cup Answers
    BY DEF Points, DestroyPoints, Answers
  <2> QED
    BY <2>1, <2>2, Moves
<1>4. at[r] = "idle" /\ UNCHANGED <<op, token, seen, running, late>>
  BY DEF Claim
<1>5. CASE /\ ReadsBack(s, r) /\ state' = s /\ spent' = spent
           /\ Answered(r, IF s.terminal THEN "terminal" ELSE "probe")
  BY <1>1, <1>3, <1>4, <1>5
<1>6. CASE /\ Latches(s, r) /\ spent' = spent
           /\ state' = [s EXCEPT !.destroying = TRUE]
           /\ Answered(r, "destroy")
  <2>1. state' \in GuardState
    BY <1>1, <1>6 DEF GuardState
  <2> QED
    BY <1>3, <1>4, <1>6, <2>1
<1>7. CASE /\ Counts(s, r) /\ spent' = spent \cup {r}
           /\ state' = [s EXCEPT !.call_count = @ + 1]
           /\ Answered(r, IF op[r] \in {"create", "status"} THEN "probe" ELSE op[r])
  <2>1. state' \in GuardState
    BY <1>1, <1>7 DEF GuardState
  <2>2. (IF op[r] \in {"create", "status"} THEN "probe" ELSE op[r])
            \in {"probe", "file", "exec"}
    BY <1>2, <1>7 DEF Operations, Counts
  <2> QED
    BY <1>3, <1>4, <1>7, <2>1, <2>2
<1>8. CASE state' = s /\ spent' = spent /\ Answered(r, "refused")
  BY <1>1, <1>3, <1>4, <1>8
<1> QED
  BY <1>5, <1>6, <1>7, <1>8 DEF Claim

(* The write of a receipt: over the stored state, or refused. *)
LEMMA ReceiptFacts ==
    ASSUME TypeOK, NEW r \in Requests, NEW s \in GuardState, WriteReceipt(r, s)
    PROVE  /\ at' \in [Requests -> {"idle"} \cup Points \cup Answers]
           /\ at'[r] \in {"ok", "operation_failed"}
           /\ \A q \in Requests \ {r} : at'[q] = at[q]
           /\ \/ state' = state
              \/ /\ state' = [s EXCEPT !.exec_receipt = r]
                 /\ state' \in GuardState
                 /\ ~s.destroying /\ ~s.terminal
<1>1. \A p \in {"ok", "operation_failed"} : Become(r, p) =>
          /\ at' \in [Requests -> {"idle"} \cup Points \cup Answers]
          /\ at'[r] = p
          /\ \A q \in Requests \ {r} : at'[q] = at[q]
  BY Moves DEF Answers
<1>2. [s EXCEPT !.exec_receipt = r] \in GuardState
  BY DEF GuardState
<1> QED
  BY <1>1, <1>2 DEF WriteReceipt, Answered, Accepts

LEMMA TypeInit == Init => TypeOK
BY DEF Init, TypeOK, Points, DestroyPoints

(* The frame of most steps: one request moves, the guard has a state. *)
LEMMA TypeKept ==
    ASSUME TypeOK, NEW r \in Requests,
           at' \in [Requests -> {"idle"} \cup Points \cup Answers],
           \A q \in Requests \ {r} : at'[q] = at[q],
           at'[r] # "recording",
           state' \in GuardState,
           op' = op, token' = token, seen' = seen,
           spent' \subseteq Requests, running' \in BOOLEAN, late' \subseteq Requests
    PROVE  TypeOK'
<1>1. state' # Absent
  BY AbsentAssumption
<1>2. \A q \in Requests : at'[q] = "recording" => seen'[q] # Absent
  BY DEF TypeOK
<1>3. /\ op' \in [Requests -> Operations] /\ token' \in [Requests -> Tokens]
      /\ seen' \in [Requests -> GuardState \cup {Absent}]
  BY DEF TypeOK
<1> QED
  BY <1>1, <1>2, <1>3 DEF TypeOK

(* A request that is past its claim finds the guard's state stored. *)
LEMMA StateStored ==
    ASSUME TypeOK, NEW r \in Requests, at[r] \in Points
    PROVE  state \in GuardState
BY DEF TypeOK

(* Every step keeps the types, late bodies included. *)
LEMMA TypeStep == TypeOK /\ [Next]_vars => TypeOK'
<1> SUFFICES ASSUME TypeOK, [Next]_vars PROVE TypeOK'
  OBVIOUS
<1>1. CASE UNCHANGED vars
  BY <1>1 DEF vars, TypeOK
<1>2. ASSUME NEW r \in Requests, RequestStep(r) PROVE TypeOK'
  <2>0. /\ \A p \in Points : p \in {"idle"} \cup Points \cup Answers
        /\ \A p \in Answers : p \in {"idle"} \cup Points \cup Answers /\ p # "recording"
        /\ {"record", "finish", "abort"} \subseteq Points
        /\ {"ok", "refused", "destroyed", "destroy_failed", "operation_failed", "cut_off"}
              \subseteq Answers
    BY DEF Points, DestroyPoints, Answers
  <2>a. spent \subseteq Requests /\ running \in BOOLEAN /\ late \subseteq Requests
    BY DEF TypeOK
  <2>b. ASSUME NEW p \in (Points \cup Answers) \ {"recording"}, Become(r, p)
        PROVE  /\ at' \in [Requests -> {"idle"} \cup Points \cup Answers]
               /\ \A q \in Requests \ {r} : at'[q] = at[q]
               /\ at'[r] # "recording"
    <3>1. p \in {"idle"} \cup Points \cup Answers /\ p # "recording"
      BY <2>b
    <3> QED
      BY <2>b, <3>1, Moves
  <2>1. CASE Claim(r)
    <3>1. spent' \subseteq Requests
      BY <2>1, <2>a, ClaimFacts
    <3> QED
      BY <2>1, <2>a, <3>1, ClaimFacts, TypeKept
  <2>2. CASE RejectInput(r)
    <3>1. state \in GuardState
      BY <2>2, StateStored DEF RejectInput, Points
    <3> QED
      BY <2>0, <2>2, <2>a, <2>b, <3>1, TypeKept DEF RejectInput
  <2>3. CASE CallSandbox(r)
    <3>1. state \in GuardState /\ running' \in BOOLEAN
      BY <2>3, <2>a, StateStored DEF CallSandbox, Points
    <3> QED
      BY <2>0, <2>3, <2>a, <2>b, <3>1, TypeKept DEF CallSandbox
  <2>4. CASE DestroyResolves(r)
    <3>1. state \in GuardState
      BY <2>4, StateStored DEF DestroyResolves, Points, DestroyPoints
    <3> QED
      BY <2>0, <2>4, <2>a, <2>b, <3>1, TypeKept DEF DestroyResolves
  <2>5. CASE DestroyRejects(r)
    <3>1. state \in GuardState /\ running' \in BOOLEAN
      BY <2>5, <2>a, StateStored DEF DestroyRejects, Points, DestroyPoints
    <3> QED
      BY <2>0, <2>5, <2>a, <2>b, <3>1, TypeKept DEF DestroyRejects
  <2>6. CASE DestroyTimesOut(r)
    <3>1. state \in GuardState
      BY <2>6, StateStored DEF DestroyTimesOut, Points, DestroyPoints
    <3> QED
      BY <2>0, <2>6, <2>a, <2>b, <3>1, TypeKept DEF DestroyTimesOut
  <2>7. CASE LateDestroy(r)
    BY <2>7 DEF LateDestroy, TypeOK
  <2>8. CASE FinishDestroy(r)
    <3>1. state \in GuardState
      BY <2>8, StateStored DEF FinishDestroy, Points, DestroyPoints
    <3>2. state' \in GuardState
      BY <2>8, <3>1 DEF FinishDestroy, GuardState
    <3> QED
      BY <2>0, <2>8, <2>a, <2>b, <3>2, TypeKept DEF FinishDestroy
  <2>9. CASE AbortDestroy(r)
    <3>1. state \in GuardState
      BY <2>9, StateStored DEF AbortDestroy, Points, DestroyPoints
    <3>2. state' \in GuardState
      BY <2>9, <3>1 DEF AbortDestroy, GuardState
    <3> QED
      BY <2>0, <2>9, <2>a, <2>b, <3>2, TypeKept DEF AbortDestroy, Answered
  <2>10. CASE RecordLost(r)
    <3>1. state \in GuardState
      BY <2>10, StateStored DEF RecordLost, Points
    <3>2. CASE WriteReceipt(r, state)
      BY <2>10, <2>a, <3>1, <3>2, ReceiptFacts, TypeKept DEF RecordLost
    <3>3. CASE state' = state /\ Become(r, "operation_failed")
      BY <2>0, <2>10, <2>a, <2>b, <3>1, <3>3, TypeKept DEF RecordLost
    <3> QED
      BY <2>10, <3>2, <3>3 DEF RecordLost
  <2>11. CASE RecordReads(r)
    <3>1. state \in GuardState /\ state # Absent
      BY <2>11, StateStored, AbsentAssumption DEF RecordReads, Points
    <3>2. /\ at' \in [Requests -> {"idle"} \cup Points \cup Answers]
          /\ \A q \in Requests \ {r} : at'[q] = at[q]
      BY <2>11, Moves DEF RecordReads, Points
    <3>3. /\ seen' \in [Requests -> GuardState \cup {Absent}]
          /\ seen'[r] # Absent
          /\ \A q \in Requests \ {r} : seen'[q] = seen[q]
      BY <2>11, <3>1 DEF RecordReads, TypeOK
    <3>4. UNCHANGED <<state, op, token, spent, running, late>>
      BY <2>11 DEF RecordReads
    <3> QED
      BY <3>1, <3>2, <3>3, <3>4 DEF TypeOK
  <2>12. CASE RecordWrites(r)
    <3>1. seen[r] \in GuardState
      BY <2>12 DEF RecordWrites, TypeOK
    <3>2. state \in GuardState
      BY <2>12, StateStored DEF RecordWrites, Points
    <3>3. /\ seen' \in [Requests -> GuardState \cup {Absent}]
          /\ \A q \in Requests \ {r} : seen'[q] = seen[q]
      BY <2>12 DEF RecordWrites, TypeOK
    <3>4. WriteReceipt(r, seen[r]) /\ UNCHANGED <<op, token, spent, running, late>>
      BY <2>12 DEF RecordWrites
    <3>5. /\ state' \in GuardState /\ state' # Absent
          /\ at' \in [Requests -> {"idle"} \cup Points \cup Answers]
          /\ at'[r] # "recording"
          /\ \A q \in Requests \ {r} : at'[q] = at[q]
      BY <3>1, <3>2, <3>4, ReceiptFacts, AbsentAssumption
    <3> QED
      BY <3>3, <3>4, <3>5 DEF TypeOK
  <2>13. CASE CutOff(r)
    <3>1. state \in GuardState /\ state' = state /\ state' # Absent
      BY <2>13, StateStored, AbsentAssumption DEF CutOff
    <3>2. /\ seen' \in [Requests -> GuardState \cup {Absent}]
          /\ \A q \in Requests \ {r} : seen'[q] = seen[q]
      BY <2>13 DEF CutOff, TypeOK
    <3>3. late' \subseteq Requests /\ UNCHANGED <<op, token, spent, running>>
      BY <2>13, <2>a DEF CutOff
    <3>4. /\ at' \in [Requests -> {"idle"} \cup Points \cup Answers]
          /\ \A q \in Requests \ {r} : at'[q] = at[q]
          /\ at'[r] # "recording"
      BY <2>0, <2>13, <2>b DEF CutOff
    <3> QED
      BY <3>1, <3>2, <3>3, <3>4 DEF TypeOK
  <2> QED
    BY <1>2, <2>1, <2>2, <2>3, <2>4, <2>5, <2>6, <2>7, <2>8, <2>9, <2>10,
       <2>11, <2>12, <2>13 DEF RequestStep, BridgeDestroyStep
<1> QED
  BY <1>1, <1>2 DEF Next

(* Types, and no request meets RUN_NOT_INITIALIZED, whenever bodies arrive. *)
THEOREM RunGuardTypeOK == Spec => []TypeOK
<1>1. Spec => []TypeOK
  BY TypeInit, TypeStep, PTL DEF Spec
<1> QED
  BY <1>1

-----------------------------------------------------------------------------
(* Safety, as long as no receipt is written over a changed state *)

(* A receipt is written over the state the guard has: nothing but other    *)
(* receipts was written while its body was awaited.                        *)
WritesFresh ==
    \A r \in Requests :
        RecordWrites(r) => Fresh(r)

(* What a step that is no claim can do to the guard's state, and to whom.  *)
QuietStep(r) ==          \* the latch and the count stay
    /\ state' = state \/ (/\ ~state.destroying /\ ~state.terminal
                          /\ state' = [state EXCEPT !.exec_receipt = r])
    /\ Destroying(r)' => Destroying(r)
    /\ at'[r] # "destroyed" \/ at[r] = "destroyed"

FinishLands(r) ==
    /\ at[r] = "finish"
    /\ at'[r] \in {"destroyed", "abort"}
    /\ state' = [state EXCEPT !.destroying = FALSE, !.terminal = TRUE]

AbortLands(r) ==
    /\ at[r] = "abort"
    /\ at'[r] \in {"destroy_failed", "operation_failed"}
    /\ state' = [state EXCEPT !.destroying = FALSE]

LEMMA StepShape ==
    ASSUME TypeOK, WritesFresh, NEW r \in Requests, RequestStep(r), ~Claim(r)
    PROVE  /\ QuietStep(r) \/ FinishLands(r) \/ AbortLands(r)
           /\ at[r] # "idle" \/ at'[r] = at[r]
           /\ at'[r] = "idle" => at[r] = "idle"
           /\ \A q \in Requests \ {r} : at'[q] = at[q]
           /\ state # Absent \/ state' = state
           /\ spent' = spent
<1> USE DEF QuietStep, Destroying, DestroyPoints
<1>0. /\ \A p \in {"ok", "refused", "record", "recording", "finish", "abort", "destroyed",
                    "destroy_failed", "operation_failed", "cut_off"} :
             Become(r, p) => at'[r] = p /\ \A q \in Requests \ {r} : at'[q] = at[q]
      /\ at[r] \in Points => state # Absent
      /\ {"record", "recording", "finish", "abort"} \subseteq Points
  <2>1. \A p \in {"ok", "refused", "record", "recording", "finish", "abort", "destroyed",
                   "destroy_failed", "operation_failed", "cut_off"} :
            p \in {"idle"} \cup Points \cup Answers
    BY DEF Points, Answers
  <2>2. \A p \in {"idle"} \cup Points \cup Answers :
            Become(r, p) => at'[r] = p /\ \A q \in Requests \ {r} : at'[q] = at[q]
    BY Moves
  <2>3. at[r] \in Points => state # Absent
    BY DEF TypeOK
  <2> QED
    BY <2>1, <2>2, <2>3 DEF Points
<1>1. CASE RejectInput(r)
  BY <1>0, <1>1 DEF RejectInput
<1>2. CASE CallSandbox(r)
  BY <1>0, <1>2 DEF CallSandbox
<1>3. CASE DestroyResolves(r)
  BY <1>0, <1>3 DEF DestroyResolves
<1>4. CASE DestroyRejects(r)
  BY <1>0, <1>4 DEF DestroyRejects
<1>5. CASE DestroyTimesOut(r)
  BY <1>0, <1>5 DEF DestroyTimesOut
<1>6. CASE LateDestroy(r)
  BY <1>6 DEF LateDestroy
<1>7. CASE FinishDestroy(r)
  BY <1>0, <1>7 DEF FinishDestroy, FinishLands
<1>8. CASE AbortDestroy(r)
  <2>1. at'[r] \in {"destroy_failed", "operation_failed"} /\ at[r] = "abort"
        /\ \A q \in Requests \ {r} : at'[q] = at[q]
    BY <1>0, <1>8 DEF AbortDestroy, Answered
  <2>2. state' = state \/ AbortLands(r)
    BY <1>8, <2>1 DEF AbortDestroy, AbortLands
  <2> QED
    BY <1>0, <1>8, <2>1, <2>2 DEF AbortDestroy
<1>9. CASE RecordLost(r)
  <2>1. at'[r] \in {"ok", "operation_failed"} /\ at[r] = "record"
        /\ \A q \in Requests \ {r} : at'[q] = at[q]
    BY <1>0, <1>9 DEF RecordLost, WriteReceipt, Answered
  <2>2. QuietStep(r)
    BY <1>9, <2>1 DEF RecordLost, WriteReceipt, Accepts
  <2>3. state # Absent /\ spent' = spent
    BY <1>0, <1>9 DEF RecordLost
  <2> HIDE DEF QuietStep
  <2> QED
    BY <2>1, <2>2, <2>3
<1>10. CASE CutOff(r)
  BY <1>0, <1>10 DEF CutOff, Points
<1>11. CASE RecordReads(r)
  BY <1>0, <1>11 DEF RecordReads
<1>12. CASE RecordWrites(r)
  <2>1. seen[r] = [state EXCEPT !.exec_receipt = seen[r].exec_receipt]
    BY <1>12 DEF WritesFresh, Fresh
  <2>2. at[r] = "recording" /\ WriteReceipt(r, seen[r]) /\ spent' = spent
    BY <1>12 DEF RecordWrites
  <2>3. state \in GuardState /\ seen[r] \in GuardState /\ state # Absent
    BY <2>2, StateStored DEF TypeOK, Points
  <2>4. /\ at'[r] \in {"ok", "operation_failed"}
        /\ \A q \in Requests \ {r} : at'[q] = at[q]
        /\ \/ state' = state
           \/ /\ state' = [seen[r] EXCEPT !.exec_receipt = r]
              /\ ~seen[r].destroying /\ ~seen[r].terminal
    BY <2>2, <2>3, ReceiptFacts
  <2>5. /\ seen[r].destroying = state.destroying /\ seen[r].terminal = state.terminal
        /\ [seen[r] EXCEPT !.exec_receipt = r] = [state EXCEPT !.exec_receipt = r]
    BY <2>1, <2>3 DEF GuardState
  <2>6. QuietStep(r)
    BY <2>2, <2>4, <2>5
  <2> HIDE DEF QuietStep
  <2> QED
    BY <2>2, <2>3, <2>4, <2>6
<1> QED
  BY <1>1, <1>2, <1>3, <1>4, <1>5, <1>6, <1>7, <1>8, <1>9, <1>10, <1>11, <1>12
     DEF RequestStep, BridgeDestroyStep

(* The claim side: an admitted destroy finds nobody else destroying, and a *)
(* counted call is new and within the budget.                              *)
LEMMA ClaimKeepsInv ==
    ASSUME GuardInv, NEW r \in Requests, Claim(r)
    PROVE  DestroyerInv' /\ SpentInv' /\ CountInv' /\ DestroyedMeansTerminal'
<1> DEFINE s == Current(r)
<1>1. /\ s \in GuardState /\ (state # Absent => s = state)
      /\ state = Absent => s.call_count = 0
  BY CurrentType DEF GuardInv, Current, InitialState
<1>2. \A q \in Requests : Destroying(q) => state # Absent /\ (s.destroying \/ s.terminal)
  BY <1>1 DEF GuardInv, TypeOK, DestroyerInv, Destroying, Points
<1>3. /\ state' \in GuardState /\ state' # Absent
      /\ at[r] = "idle"
      /\ at'[r] \in {"probe", "file", "exec", "destroy", "ok",
                     "terminal", "refused", "operation_failed"}
      /\ \A q \in Requests \ {r} : at'[q] = at[q]
  BY ClaimFacts, AbsentAssumption DEF GuardInv
<1>4. \/ state' = s /\ spent' = spent /\ at'[r] # "destroy"
      \/ /\ Latches(s, r) /\ spent' = spent
         /\ state' = [s EXCEPT !.destroying = TRUE]
      \/ /\ Counts(s, r) /\ spent' = spent \cup {r}
         /\ state' = [s EXCEPT !.call_count = @ + 1]
         /\ at'[r] # "destroy"
  BY ClaimFacts DEF GuardInv
<1>5. DestroyerInv'
  <2>1. \A q \in Requests \ {r} : Destroying(q)' = Destroying(q)
    BY <1>3 DEF Destroying
  <2>2. Destroying(r)' => at'[r] = "destroy"
    BY <1>3 DEF Destroying, DestroyPoints
  <2>3. ~Destroying(r)
    BY <1>3 DEF Destroying, DestroyPoints
  <2>4. CASE state' = s /\ at'[r] # "destroy"
    BY <1>1, <1>2, <2>1, <2>2, <2>4 DEF DestroyerInv, GuardInv
  <2>5. CASE Latches(s, r) /\ state' = [s EXCEPT !.destroying = TRUE]
    <3>1. \A q \in Requests : ~Destroying(q)
      BY <1>2, <2>5 DEF Latches
    <3>2. state'.destroying
      BY <1>1, <2>5 DEF GuardState
    <3> QED
      BY <2>1, <3>1, <3>2 DEF DestroyerInv
  <2>6. CASE Counts(s, r) /\ at'[r] # "destroy"
    <3>1. \A q \in Requests : ~Destroying(q)
      BY <1>2, <2>6 DEF Counts
    <3> QED
      BY <2>1, <2>2, <2>6, <3>1 DEF DestroyerInv
  <2> QED
    BY <1>4, <2>4, <2>5, <2>6
<1>6. SpentInv'
  BY <1>3, <1>4 DEF GuardInv, SpentInv, TypeOK
<1>7. CountInv'
  <2>1. IsFiniteSet(spent)
    BY RequestAssumption, FS_Subset DEF GuardInv, TypeOK
  <2>2. s.call_count = Cardinality(spent) /\ s.call_count <= Budget[s.token]
    <3>1. CASE state = Absent
      <4>1. s.token \in Tokens /\ Budget[s.token] \in Nat
        BY <1>1, TokenAssumption DEF GuardState
      <4> QED
        BY <3>1, <4>1, <1>1, FS_EmptySet DEF GuardInv, CountInv
    <3>2. CASE state # Absent
      BY <3>2, <1>1 DEF GuardInv, CountInv
    <3> QED
      BY <3>1, <3>2
  <2>3. CASE state' = s /\ spent' = spent
    BY <1>3, <2>2, <2>3 DEF CountInv
  <2>4. CASE state' = [s EXCEPT !.destroying = TRUE] /\ spent' = spent
    <3>1. state'.call_count = s.call_count /\ state'.token = s.token
      BY <1>1, <2>4 DEF GuardState
    <3> QED
      BY <1>3, <2>2, <2>4, <3>1 DEF CountInv
  <2>5. CASE /\ Counts(s, r) /\ spent' = spent \cup {r}
             /\ state' = [s EXCEPT !.call_count = @ + 1]
    <3>1. r \notin spent
      BY <1>3 DEF GuardInv, SpentInv
    <3>2. Cardinality(spent') = Cardinality(spent) + 1
      BY <2>1, <2>5, <3>1, FS_AddElement
    <3>3. state'.call_count = s.call_count + 1 /\ state'.token = s.token
      BY <1>1, <2>5 DEF GuardState
    <3>4. s.call_count \in Nat /\ Budget[s.token] \in Nat /\ s.call_count < Budget[s.token]
      BY <1>1, <2>5, TokenAssumption DEF Counts, GuardState
    <3> QED
      BY <1>3, <2>2, <3>2, <3>3, <3>4 DEF CountInv
  <2> QED
    BY <1>4, <2>3, <2>4, <2>5
<1>8. DestroyedMeansTerminal'
  <2>1. ASSUME NEW q \in Requests, at'[q] = "destroyed" PROVE state'.terminal
    <3>1. state # Absent /\ state.terminal
      BY <1>3, <2>1 DEF GuardInv, DestroyedMeansTerminal
    <3>2. s = state /\ ~Latches(s, r) /\ ~Counts(s, r)
      BY <1>1, <3>1 DEF Latches, Counts
    <3> QED
      BY <1>4, <3>1, <3>2
  <2> QED
    BY <1>3, <2>1 DEF DestroyedMeansTerminal
<1> QED
  BY <1>5, <1>6, <1>7, <1>8

LEMMA OtherStepsKeepInv ==
    ASSUME GuardInv, WritesFresh, NEW r \in Requests, RequestStep(r), ~Claim(r)
    PROVE  DestroyerInv' /\ SpentInv' /\ CountInv' /\ DestroyedMeansTerminal'
<1>1. /\ QuietStep(r) \/ FinishLands(r) \/ AbortLands(r)
      /\ at[r] # "idle" \/ at'[r] = at[r]
      /\ at'[r] = "idle" => at[r] = "idle"
      /\ \A q \in Requests \ {r} : at'[q] = at[q]
      /\ state # Absent \/ state' = state
      /\ spent' = spent
  BY StepShape DEF GuardInv
<1>2. state' \in GuardState \cup {Absent} /\ state \in GuardState \cup {Absent}
  BY TypeStep DEF GuardInv, Next, TypeOK
<1>3. state # Absent =>
          /\ state' # Absent
          /\ state'.token = state.token /\ state'.call_count = state.call_count
          /\ state.terminal => state'.terminal
  <2> SUFFICES ASSUME state # Absent
               PROVE  /\ state' \in GuardState
                      /\ state'.token = state.token
                      /\ state'.call_count = state.call_count
                      /\ state.terminal => state'.terminal
    BY AbsentAssumption
  <2>1. state \in GuardState
    BY <1>2
  <2>2. CASE QuietStep(r)
    BY <2>1, <2>2 DEF QuietStep, GuardState
  <2>3. CASE FinishLands(r)
    BY <2>1, <2>3 DEF FinishLands, GuardState
  <2>4. CASE AbortLands(r)
    BY <2>1, <2>4 DEF AbortLands, GuardState
  <2> QED
    BY <1>1, <2>2, <2>3, <2>4
<1>4. \A q \in Requests : Destroying(q) => state # Absent
  BY DEF GuardInv, TypeOK, Destroying, Points
<1>5. DestroyerInv'
  <2>1. \A q \in Requests \ {r} : Destroying(q)' = Destroying(q)
    BY <1>1 DEF Destroying
  <2>2. Destroying(r)' => Destroying(r)
    BY <1>1 DEF QuietStep, FinishLands, AbortLands, Destroying, DestroyPoints
  <2>3. \A q \in Requests : Destroying(q)' => \A t \in Requests : Destroying(t)' => t = q
    BY <2>1, <2>2 DEF GuardInv, DestroyerInv
  <2>4. ASSUME NEW q \in Requests, Destroying(q)' PROVE state'.destroying \/ state'.terminal
    <3>1. Destroying(q) /\ state \in GuardState /\ (state.destroying \/ state.terminal)
      BY <1>2, <1>4, <2>1, <2>2, <2>4 DEF GuardInv, DestroyerInv
    <3>2. CASE QuietStep(r)
      BY <3>1, <3>2 DEF QuietStep, GuardState
    <3>3. CASE FinishLands(r)
      BY <3>1, <3>3 DEF FinishLands, GuardState
    <3>4. CASE AbortLands(r)
      <4>1. Destroying(r) /\ ~Destroying(r)'
        BY <3>4 DEF AbortLands, Destroying, DestroyPoints
      <4>2. q # r
        BY <2>4, <4>1
      <4> QED
        BY <3>1, <4>1, <4>2 DEF GuardInv, DestroyerInv
    <3> QED
      BY <1>1, <3>2, <3>3, <3>4
  <2> QED
    BY <2>3, <2>4 DEF DestroyerInv
<1>6. SpentInv'
  BY <1>1 DEF GuardInv, SpentInv, TypeOK
<1>7. CountInv'
  BY <1>1, <1>3 DEF GuardInv, CountInv
<1>8. DestroyedMeansTerminal'
  <2>1. ASSUME NEW q \in Requests, at[q] = "destroyed"
        PROVE  state' # Absent /\ state'.terminal
    BY <1>3, <2>1 DEF GuardInv, DestroyedMeansTerminal
  <2>2. ASSUME at'[r] = "destroyed", at[r] # "destroyed"
        PROVE  state' # Absent /\ state'.terminal
    <3>1. FinishLands(r)
      BY <1>1, <2>2 DEF QuietStep, AbortLands
    <3>2. state \in GuardState /\ state # Absent
      BY <1>2, <3>1 DEF FinishLands, GuardInv, TypeOK, Points, DestroyPoints
    <3> QED
      BY <1>3, <3>1, <3>2 DEF FinishLands, GuardState
  <2> QED
    BY <1>1, <2>1, <2>2 DEF DestroyedMeansTerminal
<1> QED
  BY <1>5, <1>6, <1>7, <1>8

LEMMA GuardInvInit == Init => GuardInv
BY TypeInit DEF Init, GuardInv, DestroyerInv, Destroying, DestroyPoints,
   SpentInv, CountInv, DestroyedMeansTerminal

LEMMA GuardInvStep ==
    ASSUME GuardInv, [Next]_vars, [WritesFresh]_vars
    PROVE  GuardInv'
<1>1. TypeOK'
  BY TypeStep DEF GuardInv
<1>2. CASE UNCHANGED vars
  BY <1>1, <1>2 DEF vars, GuardInv, DestroyerInv, Destroying, SpentInv,
     CountInv, DestroyedMeansTerminal
<1>3. CASE Next /\ WritesFresh
  BY <1>1, <1>3, ClaimKeepsInv, OtherStepsKeepInv DEF Next, GuardInv
<1> QED
  BY <1>2, <1>3

LEMMA FreshInvariant == Spec /\ [][WritesFresh]_vars => []GuardInv
<1>1. GuardInv /\ [Next]_vars /\ [WritesFresh]_vars => GuardInv'
  BY GuardInvStep
<1> QED
  BY <1>1, GuardInvInit, PTL DEF Spec

(* A body that is not late is never overtaken.                             *)
LEMMA InTime ==
    ASSUME ~BodyMayArriveLate
    PROVE  Spec => [][WritesFresh]_vars
<1>1. [Next]_vars => [WritesFresh]_vars
  BY DEF WritesFresh, RecordWrites
<1> QED
  BY <1>1, PTL DEF Spec

(* The invariant of the guard when no body is late.                        *)
THEOREM RunGuardInvariant ==
    ASSUME ~BodyMayArriveLate
    PROVE  Spec => []GuardInv
BY InTime, FreshInvariant, PTL

(* max_calls holds over all tokens, retries and interleavings of a run. *)
THEOREM RunGuardBudgetHolds ==
    ASSUME ~BodyMayArriveLate
    PROVE  Spec => []BudgetHolds
<1>1. GuardInv => BudgetHolds
  BY DEF GuardInv, CountInv, BudgetHolds
<1> QED
  BY <1>1, RunGuardInvariant, PTL

(* A client that was told "destroyed" keeps a terminal run. *)
THEOREM RunGuardDestroyedMeansTerminal ==
    ASSUME ~BodyMayArriveLate
    PROVE  Spec => []DestroyedMeansTerminal
<1>1. GuardInv => DestroyedMeansTerminal
  BY DEF GuardInv
<1> QED
  BY <1>1, RunGuardInvariant, PTL

LEMMA StepKeepsTerminal ==
    ASSUME GuardInv, [Next]_vars, [WritesFresh]_vars, state # Absent, state.terminal
    PROVE  state' # Absent /\ state'.terminal
<1>1. state \in GuardState
  BY DEF GuardInv, TypeOK
<1>2. CASE UNCHANGED vars
  BY <1>2 DEF vars
<1>3. ASSUME NEW r \in Requests, Claim(r) PROVE state' # Absent /\ state'.terminal
  <2>1. Current(r) = state /\ ~Latches(state, r) /\ ~Counts(state, r)
    BY DEF Current, Latches, Counts
  <2>2. state' = state
    BY <1>3, <2>1, ClaimFacts DEF GuardInv
  <2> QED
    BY <2>2
<1>4. ASSUME NEW r \in Requests, RequestStep(r), ~Claim(r), WritesFresh
      PROVE  state' # Absent /\ state'.terminal
  <2>1. QuietStep(r) \/ FinishLands(r) \/ AbortLands(r)
    BY <1>4, StepShape DEF GuardInv
  <2>2. state' \in GuardState /\ state'.terminal
    BY <1>1, <2>1 DEF QuietStep, FinishLands, AbortLands, GuardState
  <2> QED
    BY <2>2, AbsentAssumption
<1> QED
  BY <1>2, <1>3, <1>4 DEF Next

LEMMA FreshTerminalIsFinal == Spec /\ [][WritesFresh]_vars => TerminalIsFinal
<1>1. GuardInv /\ [Next]_vars /\ [WritesFresh]_vars =>
          [state # Absent /\ state.terminal => state' # Absent /\ state'.terminal]_vars
  BY StepKeepsTerminal
<1> QED
  BY <1>1, FreshInvariant, PTL DEF Spec, TerminalIsFinal

(* No late abort, receipt or retry brings a finished run back. *)
THEOREM RunGuardTerminalIsFinal ==
    ASSUME ~BodyMayArriveLate
    PROVE  Spec => TerminalIsFinal
BY FreshTerminalIsFinal, InTime, PTL

LEMMA StepShutsTheRun ==
    ASSUME GuardInv, [Next]_vars, [WritesFresh]_vars, NEW d \in Requests, Destroying(d)
    PROVE  spent' = spent /\ \A q \in Requests : Destroying(q)' => Destroying(q)
<1>1. CASE UNCHANGED vars
  BY <1>1 DEF vars, Destroying
<1>2. ASSUME NEW r \in Requests, Claim(r)
      PROVE  spent' = spent /\ \A q \in Requests : Destroying(q)' => Destroying(q)
  <2>1. state # Absent /\ (state.destroying \/ state.terminal)
    BY DEF GuardInv, TypeOK, DestroyerInv, Destroying, Points
  <2>2. Current(r) = state /\ ~Latches(state, r) /\ ~Counts(state, r)
    BY <2>1 DEF Current, Latches, Counts
  <2>3. /\ spent' = spent
        /\ at'[r] \in {"probe", "file", "exec", "ok", "terminal", "refused",
                       "operation_failed"}
        /\ \A q \in Requests \ {r} : at'[q] = at[q]
    BY <1>2, <2>2, ClaimFacts DEF GuardInv
  <2> QED
    BY <2>3 DEF Destroying, DestroyPoints
<1>3. ASSUME NEW r \in Requests, RequestStep(r), ~Claim(r), WritesFresh
      PROVE  spent' = spent /\ \A q \in Requests : Destroying(q)' => Destroying(q)
  <2>1. /\ QuietStep(r) \/ FinishLands(r) \/ AbortLands(r)
        /\ \A q \in Requests \ {r} : at'[q] = at[q]
        /\ spent' = spent
    BY <1>3, StepShape DEF GuardInv
  <2>2. Destroying(r)' => Destroying(r)
    BY <2>1 DEF QuietStep, FinishLands, AbortLands, Destroying, DestroyPoints
  <2> QED
    BY <2>1, <2>2 DEF Destroying
<1> QED
  BY <1>1, <1>2, <1>3 DEF Next

LEMMA FreshDestroyShutsTheRun == Spec /\ [][WritesFresh]_vars => DestroyShutsTheRun
<1>1. GuardInv /\ [Next]_vars /\ [WritesFresh]_vars =>
          [(\E r \in Requests : Destroying(r)) =>
              /\ spent' = spent
              /\ \A r \in Requests : Destroying(r)' => Destroying(r)]_vars
  BY StepShutsTheRun
<1> QED
  BY <1>1, FreshInvariant, PTL DEF Spec, DestroyShutsTheRun

(* A destroy shuts the run to every other request until it ends. *)
THEOREM RunGuardDestroyShutsTheRun ==
    ASSUME ~BodyMayArriveLate
    PROVE  Spec => DestroyShutsTheRun
BY FreshDestroyShutsTheRun, InTime, PTL

-----------------------------------------------------------------------------
(* The latch, whenever bodies arrive *)

Owner(r) ==
    \/ Destroying(r)
    \/ op[r] = "destroy" /\ at[r] \in {"operation_failed", "cut_off"}

Latched == state # Absent /\ state.destroying

(* A step that leaves the latch set either owns it or keeps its owner. *)
LEMMA LatchShape ==
    ASSUME TypeOK, DestroyRequests, NEW r \in Requests, RequestStep(r)
    PROVE  /\ op' = op /\ \A q \in Requests \ {r} : at'[q] = at[q]
           /\ Destroying(r)' => op[r] = "destroy"
           /\ Latched' => Owner(r)' \/ (Latched /\ (Owner(r) => Owner(r)'))
<1>0. /\ \A p \in {"ok", "refused", "record", "recording", "finish", "abort",
                    "destroyed", "destroy_failed", "operation_failed", "cut_off"} :
             Become(r, p) => at'[r] = p /\ \A q \in Requests \ {r} : at'[q] = at[q]
      /\ at[r] \in Points => state # Absent
      /\ Destroying(r) => op[r] = "destroy"
  <2>1. \A p \in {"ok", "refused", "record", "recording", "finish", "abort",
                   "destroyed", "destroy_failed", "operation_failed", "cut_off"} :
            p \in {"idle"} \cup Points \cup Answers
    BY DEF Points, Answers, DestroyPoints
  <2>2. \A p \in {"idle"} \cup Points \cup Answers :
            Become(r, p) => at'[r] = p /\ \A q \in Requests \ {r} : at'[q] = at[q]
    BY Moves
  <2> QED
    BY <2>1, <2>2 DEF TypeOK, DestroyRequests
<1> USE DEF Owner, Latched, Destroying, DestroyPoints
<1>1. CASE Claim(r)
  <2>1. /\ op' = op /\ \A q \in Requests \ {r} : at'[q] = at[q]
        /\ at[r] = "idle"
        /\ at'[r] \in {"probe", "file", "exec", "destroy", "ok",
                       "terminal", "refused", "operation_failed"}
    BY <1>1, ClaimFacts
  <2>2. Current(r) \in GuardState /\ (state # Absent => Current(r) = state)
        /\ (state = Absent => ~Current(r).destroying)
    BY CurrentType DEF Current, InitialState
  <2>3. CASE state' = Current(r) /\ at'[r] # "destroy"
    BY <2>1, <2>2, <2>3
  <2>4. CASE Latches(Current(r), r) /\ at'[r] \in {"destroy", "operation_failed"}
    BY <2>1, <2>4 DEF Latches
  <2>5. CASE Counts(Current(r), r) /\ at'[r] # "destroy"
             /\ state' = [Current(r) EXCEPT !.call_count = @ + 1]
    <3>1. ~state'.destroying
      BY <2>2, <2>5 DEF Counts, GuardState
    <3> QED
      BY <2>1, <2>5, <3>1
  <2> QED
    BY <1>1, <2>3, <2>4, <2>5, ClaimFacts
<1>2. CASE RejectInput(r)
  BY <1>0, <1>2 DEF RejectInput
<1>3. CASE CallSandbox(r)
  BY <1>0, <1>3 DEF CallSandbox
<1>4. CASE DestroyResolves(r)
  BY <1>0, <1>4 DEF DestroyResolves
<1>5. CASE DestroyRejects(r)
  BY <1>0, <1>5 DEF DestroyRejects
<1>6. CASE DestroyTimesOut(r)
  BY <1>0, <1>6 DEF DestroyTimesOut
<1>7. CASE LateDestroy(r)
  BY <1>0, <1>7 DEF LateDestroy
<1>8. CASE FinishDestroy(r)
  <2>1. state \in GuardState /\ state # Absent
    BY <1>8, StateStored DEF FinishDestroy, TypeOK, Points
  <2>2. op' = op /\ at[r] = "finish" /\ at'[r] \in {"destroyed", "abort"}
        /\ \A q \in Requests \ {r} : at'[q] = at[q]
    BY <1>0, <1>8 DEF FinishDestroy
  <2>3. (state' = state /\ at'[r] = "abort") \/ ~state'.destroying
    BY <1>0, <1>8, <2>1 DEF FinishDestroy, GuardState
  <2> QED
    BY <1>0, <2>1, <2>2, <2>3
<1>9. CASE AbortDestroy(r)
  <2>1. state \in GuardState /\ state # Absent
    BY <1>9, StateStored DEF AbortDestroy, TypeOK, Points
  <2>2. op' = op /\ at[r] = "abort" /\ at'[r] \in {"destroy_failed", "operation_failed"}
        /\ \A q \in Requests \ {r} : at'[q] = at[q]
    BY <1>0, <1>9 DEF AbortDestroy, Answered
  <2>3. (state' = state /\ at'[r] = "operation_failed") \/ ~state'.destroying
    BY <1>0, <1>9, <2>1 DEF AbortDestroy, GuardState
  <2> QED
    BY <1>0, <2>1, <2>2, <2>3
<1>10. ASSUME NEW s \in GuardState, WriteReceipt(r, s), at[r] \in {"record", "recording"},
              op' = op
       PROVE  /\ \A q \in Requests \ {r} : at'[q] = at[q]
              /\ ~Destroying(r)'
              /\ Latched' => Owner(r)' \/ (Latched /\ (Owner(r) => Owner(r)'))
  <2>1. /\ at'[r] \in {"ok", "operation_failed"}
        /\ \A q \in Requests \ {r} : at'[q] = at[q]
        /\ state' = state \/ (state' = [s EXCEPT !.exec_receipt = r] /\ ~s.destroying)
    BY <1>10, ReceiptFacts
  <2>2. state' = state \/ ~state'.destroying
    BY <2>1 DEF GuardState
  <2> QED
    BY <1>10, <2>1, <2>2
<1>11. CASE RecordLost(r)
  <2>1. state \in GuardState
    BY <1>11, StateStored DEF RecordLost, Points
  <2>2. CASE WriteReceipt(r, state)
    BY <1>10, <1>11, <2>1, <2>2 DEF RecordLost
  <2>3. CASE state' = state /\ Become(r, "operation_failed")
    BY <1>0, <1>11, <2>3 DEF RecordLost
  <2> QED
    BY <1>11, <2>2, <2>3 DEF RecordLost
<1>12. CASE RecordReads(r)
  BY <1>0, <1>12 DEF RecordReads
<1>13. CASE RecordWrites(r)
  <2>1. seen[r] \in GuardState
    BY <1>13 DEF RecordWrites, TypeOK
  <2> QED
    BY <1>10, <1>13, <2>1 DEF RecordWrites
<1>14. CASE CutOff(r)
  BY <1>0, <1>14 DEF CutOff
<1> QED
  BY <1>1, <1>2, <1>3, <1>4, <1>5, <1>6, <1>7, <1>8, <1>9, <1>11, <1>12, <1>13, <1>14
     DEF RequestStep, BridgeDestroyStep

(* Only a lost or cut-off destroy can leave the run latched for good. *)
THEOREM RunGuardLatchHasOwner == Spec => []LatchHasOwner
<1> DEFINE Inv == TypeOK /\ DestroyRequests /\ LatchHasOwner
<1>1. Init => Inv
  BY TypeInit DEF Init, DestroyRequests, Destroying, DestroyPoints, LatchHasOwner
<1>2. Inv /\ [Next]_vars => Inv'
  <2> SUFFICES ASSUME Inv, [Next]_vars PROVE Inv'
    OBVIOUS
  <2>1. TypeOK'
    BY TypeStep
  <2>2. CASE UNCHANGED vars
    BY <2>1, <2>2 DEF vars, DestroyRequests, LatchHasOwner, Destroying
  <2>3. ASSUME NEW r \in Requests, RequestStep(r) PROVE Inv'
    <3>1. /\ op' = op /\ \A q \in Requests \ {r} : at'[q] = at[q]
          /\ Destroying(r)' => op[r] = "destroy"
          /\ Latched' => Owner(r)' \/ (Latched /\ (Owner(r) => Owner(r)'))
      BY <2>3, LatchShape
    <3>2. DestroyRequests'
      BY <3>1 DEF DestroyRequests, Destroying
    <3>3. LatchHasOwner <=> (Latched => \E q \in Requests : Owner(q))
      BY DEF LatchHasOwner, Latched, Owner
    <3>4. LatchHasOwner' <=> (Latched' => \E q \in Requests : Owner(q)')
      BY DEF LatchHasOwner, Latched, Owner
    <3>5. \A q \in Requests \ {r} : Owner(q)' <=> Owner(q)
      BY <3>1 DEF Owner, Destroying
    <3>6. Latched' => \E q \in Requests : Owner(q)'
      BY <3>1, <3>3, <3>5
    <3> QED
      BY <2>1, <3>2, <3>4, <3>6
  <2> QED
    BY <2>2, <2>3 DEF Next
<1>3. Inv => LatchHasOwner
  OBVIOUS
<1> QED
  BY <1>1, <1>2, <1>3, PTL DEF Spec

-----------------------------------------------------------------------------
(* Refinement: the guard keeps the promises of RunGate *)

LatchInv ==
    /\ state # Absent => ~(state.destroying /\ state.terminal)
    /\ \A r \in Requests : at[r] \in {"destroy", "finish"} => state.destroying

GateInv == GuardInv /\ LatchInv

(* A step that is no claim enters no destroy, finishes only through the     *)
(* finish call, and never touches an answer already given.                 *)
LEMMA MoveShape ==
    ASSUME TypeOK, NEW r \in Requests, RequestStep(r), ~Claim(r)
    PROVE  /\ at'[r] \in {"destroy", "finish"} => at[r] \in {"destroy", "finish"}
           /\ at'[r] = "destroyed" => at[r] \in {"finish", "destroyed"}
           /\ at[r] = "destroyed" => at'[r] = at[r]
<1>1. \A p \in {"ok", "refused", "record", "recording", "finish", "abort",
                 "destroyed", "destroy_failed", "operation_failed", "cut_off"} :
          Become(r, p) => at'[r] = p
  <2>1. \A p \in {"ok", "refused", "record", "recording", "finish", "abort",
                   "destroyed", "destroy_failed", "operation_failed", "cut_off"} :
            p \in {"idle"} \cup Points \cup Answers
    BY DEF Points, Answers, DestroyPoints
  <2> QED
    BY <2>1, Moves
<1>2. CASE RejectInput(r) \/ CallSandbox(r)
  BY <1>1, <1>2 DEF RejectInput, CallSandbox
<1>3. CASE DestroyResolves(r) \/ DestroyRejects(r) \/ LateDestroy(r) \/ DestroyTimesOut(r)
  BY <1>1, <1>3 DEF DestroyResolves, DestroyRejects, LateDestroy, DestroyTimesOut
<1>4. CASE FinishDestroy(r) \/ AbortDestroy(r)
  BY <1>1, <1>4 DEF FinishDestroy, AbortDestroy, Answered
<1>5. CASE RecordLost(r) \/ RecordReads(r) \/ RecordWrites(r)
  BY <1>1, <1>5 DEF RecordLost, RecordReads, RecordWrites, WriteReceipt, Answered
<1>6. CASE CutOff(r)
  BY <1>1, <1>6 DEF CutOff, Points, DestroyPoints
<1> QED
  BY <1>2, <1>3, <1>4, <1>5, <1>6 DEF RequestStep, BridgeDestroyStep

(* Nobody is destroying a run that is open, and one request at most else.  *)
LEMMA ClosersFacts ==
    ASSUME GateInv
    PROVE  /\ Phase = "open" => \A q \in Requests : ~Destroying(q)
           /\ \A q \in Requests : Destroying(q) => {t \in Requests : Destroying(t)} = {q}
           /\ \A q \in Requests : Destroying(q) => state \in GuardState
BY DEF GateInv, GuardInv, TypeOK, DestroyerInv, Destroying, Points, Phase

LEMMA LatchInvInit == Init => LatchInv
BY DEF Init, LatchInv

LEMMA LatchInvStep ==
    ASSUME GateInv, [Next]_vars, [WritesFresh]_vars
    PROVE  LatchInv'
<1>0. TypeOK
  BY DEF GateInv, GuardInv
<1>1. CASE UNCHANGED vars
  BY <1>1 DEF vars, GateInv, LatchInv
<1>2. ASSUME NEW r \in Requests, Claim(r) PROVE LatchInv'
  <2> DEFINE s == Current(r)
  <2>1. /\ s \in GuardState /\ state' \in GuardState
        /\ ~(s.destroying /\ s.terminal)
        /\ \A q \in Requests : at[q] \in {"destroy", "finish"} => s.destroying
    BY <1>0, <1>2, CurrentType, ClaimFacts
       DEF GateInv, LatchInv, Current, InitialState, TypeOK, Points, DestroyPoints
  <2>2. /\ \A q \in Requests \ {r} : at'[q] = at[q]
        /\ at'[r] # "finish"
    BY <1>0, <1>2, ClaimFacts
  <2>3. CASE state' = s /\ at'[r] # "destroy"
    BY <2>1, <2>2, <2>3 DEF LatchInv
  <2>4. CASE Latches(s, r) /\ state' = [s EXCEPT !.destroying = TRUE]
    <3>1. state'.destroying /\ ~state'.terminal
      BY <2>1, <2>4 DEF Latches, GuardState
    <3> QED
      BY <3>1 DEF LatchInv
  <2>5. CASE Counts(s, r) /\ state' = [s EXCEPT !.call_count = @ + 1] /\ at'[r] # "destroy"
    <3>1. state'.destroying = s.destroying /\ state'.terminal = s.terminal
      BY <2>1, <2>5 DEF GuardState
    <3> QED
      BY <2>1, <2>2, <2>5, <3>1 DEF LatchInv
  <2> QED
    BY <1>0, <1>2, <2>3, <2>4, <2>5, ClaimFacts
<1>3. ASSUME NEW r \in Requests, RequestStep(r), ~Claim(r), WritesFresh PROVE LatchInv'
  <2>1. /\ QuietStep(r) \/ FinishLands(r) \/ AbortLands(r)
        /\ \A q \in Requests \ {r} : at'[q] = at[q]
        /\ state # Absent \/ state' = state
    BY <1>0, <1>3, StepShape
  <2>2. at'[r] \in {"destroy", "finish"} => at[r] \in {"destroy", "finish"}
    BY <1>0, <1>3, MoveShape
  <2>3. state = Absent => \A q \in Requests : ~Destroying(q)
    BY <1>0, AbsentAssumption DEF TypeOK, Destroying, Points
  <2>4. CASE state = Absent
    BY <2>1, <2>2, <2>3, <2>4 DEF LatchInv, Destroying, DestroyPoints
  <2>5. CASE state # Absent /\ QuietStep(r)
    <3>1. state' = state \/ state' = [state EXCEPT !.exec_receipt = r]
      BY <2>5 DEF QuietStep
    <3>2. state'.destroying = state.destroying /\ state'.terminal = state.terminal
      BY <1>0, <2>5, <3>1 DEF TypeOK, GuardState
    <3> QED
      BY <2>1, <2>2, <2>5, <3>2 DEF GateInv, LatchInv
  <2>6. CASE state # Absent /\ (FinishLands(r) \/ AbortLands(r))
    <3>1. Destroying(r) /\ at'[r] \notin {"destroy", "finish"}
      BY <2>6 DEF FinishLands, AbortLands, Destroying, DestroyPoints
    <3>2. \A q \in Requests \ {r} : ~Destroying(q)
      BY <3>1 DEF GateInv, GuardInv, DestroyerInv
    <3>3. ~state'.destroying
      BY <1>0, <2>6 DEF TypeOK, GuardState, FinishLands, AbortLands
    <3> QED
      BY <2>1, <3>1, <3>2, <3>3 DEF LatchInv, Destroying, DestroyPoints
  <2> QED
    BY <2>1, <2>4, <2>5, <2>6
<1> QED
  BY <1>1, <1>2, <1>3 DEF Next

(* An admission, a refusal or a latch of the guard is one of RunGate.       *)
LEMMA ClaimStepsGate ==
    ASSUME GateInv, NEW r \in Requests, Claim(r)
    PROVE  Gate!Next
<1> DEFINE s == Current(r)
           C == {q \in Requests : Destroying(q)}
           T == {q \in Requests : at[q] = "destroyed"}
<1>0. TypeOK
  BY DEF GateInv, GuardInv
<1>1. /\ s \in GuardState /\ state' \in GuardState /\ state' # Absent
      /\ state # Absent => s = state
      /\ state = Absent => s.token = token[r] /\ ~s.destroying /\ ~s.terminal
  BY <1>0, CurrentType, ClaimFacts, AbsentAssumption DEF Current, InitialState
<1>2. /\ Phase = IF s.terminal THEN "closed" ELSE IF s.destroying THEN "closing" ELSE "open"
      /\ Phase' = IF state'.terminal THEN "closed"
                  ELSE IF state'.destroying THEN "closing" ELSE "open"
  BY <1>1 DEF Phase
<1>3. /\ at[r] = "idle"
      /\ at'[r] \in {"probe", "file", "exec", "destroy", "ok",
                     "terminal", "refused", "operation_failed"}
      /\ \A q \in Requests \ {r} : at'[q] = at[q]
  BY <1>0, ClaimFacts
<1>4. state'.token = s.token
  BY <1>0, <1>1, ClaimFacts DEF GuardState
<1>5. /\ Budget[s.token] \in Nat \ {0}
      /\ Limit' = Budget[s.token]
      /\ state # Absent => Limit = Budget[s.token]
      /\ state = Absent => Limit = 0
  BY <1>1, <1>4, TokenAssumption DEF Limit, GuardState
<1>6. Gate!Limited
  BY <1>1, <1>5 DEF Gate!Limited
<1>7. T' = T
  BY <1>3
<1>8. at'[r] # "destroy" => C' = C
  BY <1>3 DEF Destroying, DestroyPoints
<1>9. CASE state' = s /\ spent' = spent /\ at'[r] # "destroy"
  <2>1. Phase' = Phase
    BY <1>2, <1>9
  <2>2. Gate!TurnAway
    BY <1>6, <1>7, <1>8, <1>9, <2>1 DEF Gate!TurnAway
  <2> QED
    BY <2>2 DEF Gate!Next
<1>10. CASE /\ Latches(s, r) /\ spent' = spent
            /\ state' = [s EXCEPT !.destroying = TRUE]
  <2>1. Phase = "open" /\ Phase' = "closing"
    BY <1>1, <1>2, <1>10 DEF Latches, GuardState
  <2>2. C = {} /\ C' \in {{}, {r}}
    BY <1>3, <2>1, ClosersFacts DEF Destroying
  <2>3. Gate!Close(r)
    BY <1>6, <1>7, <1>10, <2>1, <2>2 DEF Gate!Close
  <2> QED
    BY <2>3 DEF Gate!Next
<1>11. CASE /\ Counts(s, r) /\ spent' = spent \cup {r} /\ at'[r] # "destroy"
            /\ state' = [s EXCEPT !.call_count = @ + 1]
  <2>1. Phase = "open" /\ Phase' = "open"
    BY <1>1, <1>2, <1>11 DEF Counts, GuardState
  <2>2. r \notin spent
    BY <1>3 DEF GateInv, GuardInv, SpentInv
  <2>3. CountInv'
    BY ClaimKeepsInv DEF GateInv
  <2>4. Cardinality(spent') <= Limit'
    BY <1>1, <2>3 DEF CountInv, Limit
  <2>5. Gate!Admit(r)
    BY <1>6, <1>7, <1>8, <1>11, <2>1, <2>2, <2>4 DEF Gate!Admit, Gate!Cardinality, Cardinality
  <2> QED
    BY <2>5 DEF Gate!Next
<1> QED
  BY <1>0, <1>9, <1>10, <1>11, ClaimFacts

(* The finish call shuts the gate, the abort reopens it or, as every other *)
(* end of a destroy, gives it up; nothing else is seen of it.              *)
LEMMA OtherStepsGate ==
    ASSUME GateInv, WritesFresh, NEW r \in Requests, RequestStep(r), ~Claim(r)
    PROVE  [Gate!Next]_(Gate!gate)
<1> DEFINE C == {q \in Requests : Destroying(q)}
           T == {q \in Requests : at[q] = "destroyed"}
<1>0. TypeOK
  BY DEF GateInv, GuardInv
<1>1. /\ QuietStep(r) \/ FinishLands(r) \/ AbortLands(r)
      /\ \A q \in Requests \ {r} : at'[q] = at[q]
      /\ state # Absent \/ state' = state
      /\ spent' = spent
  BY <1>0, StepShape
<1>2. /\ at'[r] = "destroyed" => at[r] \in {"finish", "destroyed"}
      /\ at[r] = "destroyed" => at'[r] = at[r]
  BY <1>0, MoveShape
<1>3. ~Destroying(r)' => C' = C \ {r}
  BY <1>1 DEF Destroying
<1>4. Destroying(r) => C = {r} /\ state \in GuardState
  BY ClosersFacts
<1>5. at'[r] # "destroyed" => T' = T
  BY <1>1, <1>2
<1>6. CASE QuietStep(r)
  <2>1. Phase' = Phase /\ Limit' = Limit
    <3>1. CASE state' = state
      BY <3>1 DEF Phase, Limit
    <3>2. CASE ~state.destroying /\ ~state.terminal /\ state' = [state EXCEPT !.exec_receipt = r]
      <4>1. CASE state = Absent
        BY <1>1, <4>1 DEF Phase, Limit
      <4>2. CASE state # Absent
        <5>1. state \in GuardState /\ state' \in GuardState
          BY <1>0, <3>2, <4>2 DEF TypeOK, GuardState
        <5>2. /\ state' # Absent /\ state'.token = state.token
              /\ state'.destroying = state.destroying /\ state'.terminal = state.terminal
          BY <3>2, <5>1, AbsentAssumption DEF GuardState
        <5> QED
          BY <4>2, <5>2 DEF Phase, Limit
      <4> QED
        BY <4>1, <4>2
    <3> QED
      BY <1>6, <3>1, <3>2 DEF QuietStep
  <2>2. T' = T
    BY <1>1, <1>2, <1>6 DEF QuietStep
  <2>3. CASE Destroying(r) /\ ~Destroying(r)'
    <3>1. C' = {}
      BY <1>3, <1>4, <2>3
    <3>2. Gate!GiveUp
      BY <1>1, <2>1, <2>2, <3>1 DEF Gate!GiveUp
    <3> QED
      BY <3>2 DEF Gate!Next
  <2>4. CASE Destroying(r)' <=> Destroying(r)
    <3>1. C' = C
      BY <1>1, <2>4 DEF Destroying
    <3> QED
      BY <1>1, <2>1, <2>2, <3>1 DEF Gate!gate
  <2> QED
    BY <1>6, <2>3, <2>4 DEF QuietStep
<1>7. CASE FinishLands(r)
  <2>1. Destroying(r) /\ state \in GuardState /\ C = {r}
    BY <1>4, <1>7 DEF FinishLands, Destroying, DestroyPoints
  <2>2. state.destroying /\ ~state.terminal /\ state # Absent
    BY <1>7, <2>1, AbsentAssumption DEF GateInv, LatchInv, FinishLands
  <2>3. state' \in GuardState /\ state' # Absent /\ state'.terminal /\ state'.token = state.token
    BY <1>7, <2>1, AbsentAssumption DEF FinishLands, GuardState
  <2>4. Phase = "closing" /\ Phase' = "closed" /\ Limit' = Limit
    BY <2>2, <2>3 DEF Phase, Limit
  <2>5. CASE at'[r] = "destroyed"
    <3>1. C' = {}
      BY <1>3, <2>1, <2>5 DEF Destroying, DestroyPoints
    <3>2. T' = T \cup {r}
      BY <1>1, <2>5
    <3>3. Gate!Shut(r)
      BY <1>1, <2>1, <2>4, <3>1, <3>2 DEF Gate!Shut
    <3> QED
      BY <3>3 DEF Gate!Next
  <2>6. CASE at'[r] = "abort"
    <3>1. C' = C
      BY <1>1, <2>1, <2>6 DEF Destroying, DestroyPoints
    <3>2. T' = T
      BY <1>5, <2>6
    <3>3. Gate!Shut(r)
      BY <1>1, <2>1, <2>4, <3>1, <3>2 DEF Gate!Shut
    <3> QED
      BY <3>3 DEF Gate!Next
  <2> QED
    BY <1>7, <2>5, <2>6 DEF FinishLands
<1>8. CASE AbortLands(r)
  <2>1. Destroying(r) /\ state \in GuardState /\ C = {r} /\ ~Destroying(r)' /\ at'[r] # "destroyed"
    BY <1>4, <1>8 DEF AbortLands, Destroying, DestroyPoints
  <2>2. /\ state # Absent /\ state' # Absent
        /\ state'.token = state.token /\ state'.terminal = state.terminal
        /\ ~state'.destroying
    <3>1. state' \in GuardState
      BY <1>8, <2>1 DEF AbortLands, GuardState
    <3> QED
      BY <1>8, <2>1, <3>1, AbsentAssumption DEF AbortLands, GuardState
  <2>3. C' = {} /\ T' = T /\ Limit' = Limit
    BY <1>3, <1>5, <2>1, <2>2 DEF Limit
  <2>4. CASE state.terminal
    <3>1. Phase' = Phase
      BY <2>2, <2>4 DEF Phase
    <3>2. Gate!GiveUp
      BY <1>1, <2>3, <3>1 DEF Gate!GiveUp
    <3> QED
      BY <3>2 DEF Gate!Next
  <2>5. CASE ~state.terminal
    <3>1. state.destroying
      BY <2>1, <2>5 DEF GateInv, GuardInv, DestroyerInv
    <3>2. Phase = "closing" /\ Phase' = "open"
      BY <2>2, <2>5, <3>1 DEF Phase
    <3>3. Gate!Reopen(r)
      BY <1>1, <2>1, <2>3, <3>2 DEF Gate!Reopen
    <3> QED
      BY <3>3 DEF Gate!Next
  <2> QED
    BY <2>4, <2>5
<1> QED
  BY <1>1, <1>6, <1>7, <1>8

LEMMA FreshImplementsGate == Spec /\ [][WritesFresh]_vars => ImplementsGate
<1>1. Init => Gate!Init
  BY DEF Init, Gate!Init, Phase, Limit, Destroying, DestroyPoints
<1>2. Init => GateInv
  BY GuardInvInit, LatchInvInit DEF GateInv
<1>3. GateInv /\ [Next]_vars /\ [WritesFresh]_vars => GateInv'
  BY GuardInvStep, LatchInvStep DEF GateInv
<1>4. GateInv /\ [Next]_vars /\ [WritesFresh]_vars => [Gate!Next]_(Gate!gate)
  <2> SUFFICES ASSUME GateInv, [Next]_vars, [WritesFresh]_vars
               PROVE  [Gate!Next]_(Gate!gate)
    OBVIOUS
  <2>1. CASE UNCHANGED vars
    BY <2>1 DEF vars, Phase, Limit, Destroying, Gate!gate
  <2>2. CASE Next /\ WritesFresh
    BY <2>2, ClaimStepsGate, OtherStepsGate DEF Next
  <2> QED
    BY <2>1, <2>2
<1> QED
  BY <1>1, <1>2, <1>3, <1>4, PTL DEF Spec, ImplementsGate, Gate!Spec

(* Claims, receipts, finishes and aborts, whatever of them is lost, timed   *)
(* out or cut off, are steps of the abstract gate, for any number of        *)
(* requests, tokens and budgets.                                           *)
THEOREM RunGuardImplementsGate ==
    ASSUME ~BodyMayArriveLate
    PROVE  Spec => ImplementsGate
BY FreshImplementsGate, InTime, PTL

(* How far a late body can go: the budget, the finality of a finished run,  *)
(* the closed door of a destroy and the whole abstract gate hold with       *)
(* bodies that arrive late, in every behaviour in which /record-exec writes *)
(* no state that a claim, a finish or an abort has replaced meanwhile.  An  *)
(* overtaken read is thus all that the late-body runs break the guard with; *)
(* receipts that overtake each other are harmless.                          *)
THEOREM RunGuardHoldsUnlessOvertaken ==
    Spec /\ [][WritesFresh]_vars =>
        /\ []BudgetHolds /\ []DestroyedMeansTerminal
        /\ TerminalIsFinal /\ DestroyShutsTheRun
        /\ ImplementsGate
<1>1. GuardInv => BudgetHolds /\ DestroyedMeansTerminal
  BY DEF GuardInv, CountInv, BudgetHolds
<1> QED
  BY <1>1, FreshInvariant, FreshTerminalIsFinal, FreshDestroyShutsTheRun,
     FreshImplementsGate, PTL

-----------------------------------------------------------------------------
(* What KilledRunHasNoSandbox may still claim *)

AtSandbox(r) == at[r] \in {"probe", "exec", "file"}

(* The run is finished, its container is gone, and no call admitted before *)
(* is still on its way to the sandbox.                                     *)
Down ==
    /\ state # Absent /\ state.terminal
    /\ ~running
    /\ \A r \in Requests : ~AtSandbox(r)

LEMMA StepKeepsDown ==
    ASSUME GuardInv, [Next]_vars, [WritesFresh]_vars, Down
    PROVE  Down'
<1>0. TypeOK /\ state # Absent /\ state.terminal
  BY DEF GuardInv, Down
<1>1. state' # Absent /\ state'.terminal
  BY <1>0, StepKeepsTerminal
<1>2. CASE UNCHANGED vars
  BY <1>2 DEF vars, Down, AtSandbox
<1>3. ASSUME NEW r \in Requests, Claim(r)
      PROVE  running' = running /\ \A q \in Requests : ~AtSandbox(q)'
  <2>1. ReadsBack(state, r) \/ ~Control(r)
    BY <1>0 DEF ReadsBack
  <2>2. Current(r) = state /\ ~Latches(state, r) /\ ~Counts(state, r)
    BY <1>0 DEF Current, Latches, Counts
  <2>3. at[r] = "idle" /\ UNCHANGED running
    BY <1>3 DEF Claim
  <2>4. Answered(r, "terminal") \/ Answered(r, "refused")
    BY <1>0, <1>3, <2>2 DEF Claim
  <2>5. \E p \in {"terminal", "refused", "operation_failed"} : Become(r, p)
    BY <2>4 DEF Answered
  <2>6. at'[r] \in {"terminal", "refused", "operation_failed"}
        /\ \A q \in Requests \ {r} : at'[q] = at[q]
    BY <1>0, <2>5, Moves DEF Answers
  <2> QED
    BY <2>3, <2>6 DEF Down, AtSandbox
<1>4. ASSUME NEW r \in Requests, RequestStep(r), ~Claim(r)
      PROVE  running' = FALSE /\ \A q \in Requests : ~AtSandbox(q)'
  <2>1. ~AtSandbox(r) /\ ~running
    BY DEF Down
  <2>2. /\ \A p \in {"ok", "refused", "record", "recording", "finish", "abort",
                      "destroyed", "destroy_failed", "operation_failed", "cut_off"} :
               Become(r, p) => ~AtSandbox(r)' /\ \A q \in Requests \ {r} : at'[q] = at[q]
    <3>1. \A p \in {"ok", "refused", "record", "recording", "finish", "abort",
                     "destroyed", "destroy_failed", "operation_failed", "cut_off"} :
              p \in {"idle"} \cup Points \cup Answers
      BY DEF Points, Answers, DestroyPoints
    <3> QED
      BY <1>0, <3>1, Moves DEF AtSandbox
  <2>3. ~RejectInput(r) /\ ~CallSandbox(r)
    BY <2>1 DEF RejectInput, CallSandbox, AtSandbox
  <2>4. \/ \E p \in {"ok", "refused", "record", "recording", "finish", "abort",
                     "destroyed", "destroy_failed", "operation_failed", "cut_off"} : Become(r, p)
        \/ at' = at
    <3>1. CASE DestroyResolves(r) \/ DestroyRejects(r) \/ LateDestroy(r) \/ DestroyTimesOut(r)
      BY <3>1 DEF DestroyResolves, DestroyRejects, LateDestroy, DestroyTimesOut
    <3>2. CASE FinishDestroy(r) \/ AbortDestroy(r) \/ CutOff(r)
      BY <3>2 DEF FinishDestroy, AbortDestroy, Answered, CutOff
    <3>3. CASE RecordLost(r) \/ RecordReads(r) \/ RecordWrites(r)
      BY <3>3 DEF RecordLost, RecordReads, RecordWrites, WriteReceipt, Answered
    <3> QED
      BY <1>4, <2>3, <3>1, <3>2, <3>3 DEF RequestStep, BridgeDestroyStep
  <2>5. running' = FALSE
    <3>0. running = FALSE
      BY <1>0, <2>1 DEF TypeOK
    <3>1. CASE DestroyResolves(r) \/ DestroyRejects(r) \/ LateDestroy(r) \/ DestroyTimesOut(r)
      BY <3>0, <3>1 DEF DestroyResolves, DestroyRejects, LateDestroy, DestroyTimesOut
    <3>2. CASE FinishDestroy(r) \/ AbortDestroy(r) \/ CutOff(r)
      BY <3>0, <3>2 DEF FinishDestroy, AbortDestroy, CutOff
    <3>3. CASE RecordLost(r) \/ RecordReads(r) \/ RecordWrites(r)
      BY <3>0, <3>3 DEF RecordLost, RecordReads, RecordWrites
    <3> QED
      BY <1>4, <2>3, <3>1, <3>2, <3>3 DEF RequestStep, BridgeDestroyStep
  <2> QED
    BY <2>2, <2>4, <2>5 DEF Down, AtSandbox
<1> QED
  BY <1>1, <1>2, <1>3, <1>4 DEF Next, Down

(* Nothing brings the container of a finished run back but a call that was *)
(* admitted before the finish: no retry, late destroy, status or receipt.  *)
(* This is the part of KilledRunHasNoSandbox that the guard does keep.     *)
THEOREM RunGuardDownForGood ==
    ASSUME ~BodyMayArriveLate
    PROVE  Spec => [][Down => Down']_vars
<1>1. GuardInv /\ [Next]_vars /\ [WritesFresh]_vars => [Down => Down']_vars
  BY StepKeepsDown
<1> QED
  BY <1>1, InTime, FreshInvariant, PTL DEF Spec

-----------------------------------------------------------------------------
(* The safety half of DestroyIsAnswered *)

(* How far a request has come on its way to an answer. *)
Progress(point) ==
    IF point = "idle" THEN 0
    ELSE IF point \in {"probe", "file", "exec", "destroy"} THEN 1
    ELSE IF point \in {"record", "finish"} THEN 2
    ELSE IF point \in {"recording", "abort"} THEN 3 ELSE 4

LEMMA AnswersAreLast == \A point \in Answers : Progress(point) = 4
BY DEF Answers, Progress

LEMMA BecomeAdvances ==
    ASSUME TypeOK, NEW r \in Requests, NEW point, Become(r, point),
           Progress(point) > Progress(at[r])
    PROVE  /\ Progress(at'[r]) > Progress(at[r])
           /\ \A q \in Requests \ {r} : at'[q] = at[q]
BY DEF Become, TypeOK

LEMMA StepAdvances ==
    ASSUME TypeOK, NEW r \in Requests, RequestStep(r), ~LateDestroy(r)
    PROVE  /\ Progress(at'[r]) > Progress(at[r])
           /\ \A q \in Requests \ {r} : at'[q] = at[q]
<1>1. CASE Claim(r)
  BY <1>1, ClaimFacts DEF Progress
<1>2. CASE RejectInput(r) \/ CallSandbox(r)
  <2>1. /\ at[r] \in {"probe", "exec", "file"}
        /\ \E point \in {"refused", "record", "ok", "operation_failed"} : Become(r, point)
    BY <1>2 DEF RejectInput, CallSandbox
  <2> QED
    BY <2>1, BecomeAdvances DEF Progress
<1>3. CASE DestroyResolves(r) \/ DestroyRejects(r) \/ DestroyTimesOut(r)
  <2>1. at[r] = "destroy" /\ \E point \in {"finish", "abort"} : Become(r, point)
    BY <1>3 DEF DestroyResolves, DestroyRejects, DestroyTimesOut
  <2> QED
    BY <2>1, BecomeAdvances DEF Progress
<1>4. CASE FinishDestroy(r)
  <2>1. at[r] = "finish" /\ \E point \in {"destroyed", "abort"} : Become(r, point)
    BY <1>4 DEF FinishDestroy
  <2> QED
    BY <2>1, BecomeAdvances DEF Progress
<1>5. CASE AbortDestroy(r)
  <2>1. /\ at[r] = "abort"
        /\ \E point \in {"destroy_failed", "operation_failed"} : Become(r, point)
    BY <1>5 DEF AbortDestroy, Answered
  <2> QED
    BY <2>1, BecomeAdvances DEF Progress
<1>6. CASE RecordLost(r) \/ RecordReads(r) \/ RecordWrites(r)
  <2>1. \/ at[r] \in {"record", "recording"} /\ Become(r, "ok")
        \/ at[r] \in {"record", "recording"} /\ Become(r, "operation_failed")
        \/ at[r] = "record" /\ Become(r, "recording")
    BY <1>6 DEF RecordLost, RecordReads, RecordWrites, WriteReceipt, Answered
  <2> QED
    BY <2>1, BecomeAdvances DEF Progress
<1>7. CASE CutOff(r)
  <2>1. at[r] \in Points /\ Become(r, "cut_off")
    BY <1>7 DEF CutOff
  <2> QED
    BY <2>1, BecomeAdvances DEF Progress, Points, DestroyPoints
<1> QED
  BY <1>1, <1>2, <1>3, <1>4, <1>5, <1>6, <1>7 DEF RequestStep, BridgeDestroyStep

(* A request never goes back and is answered once: every step it takes     *)
(* brings it further, and nothing moves it once it has its answer.  Bodies *)
(* may arrive late here.                                                   *)
THEOREM RunGuardRequestsAdvance ==
    Spec => [][\A r \in Requests :
                  /\ at'[r] # at[r] => Progress(at'[r]) > Progress(at[r])
                  /\ BridgeDestroyStep(r) => Progress(at'[r]) > Progress(at[r])
                  /\ at[r] \in Answers => at'[r] = at[r]]_vars
<1> DEFINE Advances ==
        \A r \in Requests :
            /\ at'[r] # at[r] => Progress(at'[r]) > Progress(at[r])
            /\ BridgeDestroyStep(r) => Progress(at'[r]) > Progress(at[r])
            /\ at[r] \in Answers => at'[r] = at[r]
<1>1. ASSUME TypeOK, Next PROVE Advances
  <2> SUFFICES ASSUME NEW q \in Requests
               PROVE  /\ at'[q] # at[q] => Progress(at'[q]) > Progress(at[q])
                      /\ BridgeDestroyStep(q) => Progress(at'[q]) > Progress(at[q])
                      /\ at[q] \in Answers => at'[q] = at[q]
    OBVIOUS
  <2>1. PICK r \in Requests : RequestStep(r)
    BY <1>1 DEF Next
  <2>2. at'[q] # at[q] => Progress(at'[q]) > Progress(at[q])
    <3>1. CASE LateDestroy(r)
      BY <3>1 DEF LateDestroy
    <3>2. CASE ~LateDestroy(r)
      BY <1>1, <2>1, <3>2, StepAdvances
    <3> QED
      BY <3>1, <3>2
  <2>3. ASSUME BridgeDestroyStep(q) PROVE Progress(at'[q]) > Progress(at[q])
    <3>1. at'[q] # at[q]
      BY <1>1, <2>3 DEF BridgeDestroyStep, DestroyTimesOut, FinishDestroy, AbortDestroy,
         Answered, Become, TypeOK
    <3> QED
      BY <2>2, <3>1
  <2>4. ASSUME at[q] \in Answers PROVE at'[q] = at[q]
    <3>1. Progress(at[q]) = 4 /\ Progress(at'[q]) \in 0 .. 4
      BY <2>4, AnswersAreLast DEF Progress
    <3>2. ~(Progress(at'[q]) > Progress(at[q]))
      BY <3>1
    <3> QED
      BY <2>2, <3>2
  <2> QED
    BY <2>2, <2>3, <2>4
<1>2. TypeOK /\ [Next]_vars => [Advances]_vars
  BY <1>1
<1> QED
  BY <1>2, RunGuardTypeOK, PTL DEF Spec
=============================================================================
