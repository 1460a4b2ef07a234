---------------------------- MODULE GateBProofs ----------------------------
(***************************************************************************)
(* The safety invariants of GateB, for every number of processes and       *)
(* approvals and every value of the limits.  None is inductive by itself:  *)
(* they rest on Inv, which adds who owns the run and what each label of a  *)
(* process says about the rows of its attempt.                             *)
(***************************************************************************)
EXTENDS GateB, SequenceTheorems, TLAPS

\* The labels at which the attempt a process holds is not settled yet.
Unsettled == {"transport", "resend", "classify", "returned", "validated", "invalid", "stored"}

\* An executing process owns the run: the grant is consumed, no terminal event
\* is committed, and the last attempt is the one it holds.
Ownership ==
    /\ authState # "CONSUMED" => attempts = <<>>
    /\ attempts = <<>> => terminals = <<>>
    /\ \A i, j \in DOMAIN attempts : attempts[i].holder = attempts[j].holder
    /\ \A p \in Pilots : pc[p] \in Executing =>
          /\ authState = "CONSUMED" /\ terminals = <<>>
          /\ Len(attempts) > 0 /\ current[p] = Len(attempts)
          /\ attempts[Len(attempts)].holder = p

\* The resource a process is on is the slice of its attempt, or the next one
\* once the lineage check has advanced it.
Position ==
    \A p \in Pilots : pc[p] \in Executing =>
        ordinal[p] = attempts[current[p]].slice + (IF pc[p] = "next" THEN 1 ELSE 0)

\* Which rows may be pending while a process executes: its current attempt
\* until it is settled, and the attempt it retried until that one is settled.
PendingRows ==
    \A p \in Pilots : pc[p] \in Executing =>
        /\ (attempts[current[p]].status = "PENDING") <=> (pc[p] \in Unsettled)
        /\ pc[p] \in {"lineage", "next", "admit", "evaluate"} =>
              attempts[current[p]].status = "COMPLETED"
        /\ \A i \in DOMAIN attempts :
              attempts[i].status = "PENDING" => i = current[p] \/ (prior[p] # 0 /\ i = prior[p])
        /\ prior[p] # 0 => /\ pc[p] \in {"resend", "returned"}
                           /\ prior[p] = current[p] - 1
                           /\ attempts[prior[p]].status = "PENDING"
                           /\ RetryEligible(wire[prior[p]].kind)
        /\ pc[p] \in {"admit", "evaluate"} => attempts[current[p]].slice = 2

\* A process that has not started its execution remembers no attempt.
Fresh == \A p \in Pilots : pc[p] \in {"idle", "authorized"} => prior[p] = 0

\* What a process knows of the response it is storing.
Evidence ==
    \A p \in Pilots :
        /\ pc[p] \in {"validated", "stored", "invalid"} => wire[current[p]].kind = "ok"
        /\ pc[p] \in {"validated", "stored"} => wire[current[p]].body > 0
        /\ pc[p] = "stored" => current[p] \in blobs

\* Rows say what happened: a pending row is untouched, a completed one has an
\* artifact, its body in the blob store and an accepted answer.
Rows ==
    /\ \A i \in DOMAIN attempts :
          /\ attempts[i].status = "PENDING" => attempts[i].code = "none" /\ attempts[i].bytes = 0
          /\ attempts[i].status = "COMPLETED" => attempts[i].code = "ok"
          /\ attempts[i].status = "COMPLETED" => i \in artifacts
          /\ consumptions[i].state = "RESERVED" => consumptions[i].actual = 0

\* The slices never go back, and nothing repeats a completed one.
PlanOrder ==
    \A i, j \in DOMAIN attempts : i < j =>
        /\ attempts[i].slice <= attempts[j].slice
        /\ attempts[i].status = "COMPLETED" => attempts[i].slice < attempts[j].slice

ProcInv == Ownership /\ Position /\ PendingRows /\ Evidence

RowInv ==
    /\ Rows /\ PlanOrder
    /\ RetryBudget /\ ResourceOrder /\ NoRetryAfterAbort
    /\ ByteBudget /\ LedgersAgree /\ LineageDurable /\ TerminalSound

Inv == TypeOK /\ ProcInv /\ RowInv

-----------------------------------------------------------------------------
(* Facts about the types *)

\* The shape of the two ledgers that TypeOK implies.
LEMMA TypeFacts ==
    ASSUME TypeOK
    PROVE  /\ Len(attempts) \in 0..4
           /\ DOMAIN attempts = 1..Len(attempts) /\ DOMAIN consumptions = 1..Len(attempts)
           /\ \A i \in 1..Len(attempts) :
                 i \in AttemptNumbers /\ attempts[i] \in AttemptRow /\ consumptions[i] \in ConsumptionRow
<1>1. /\ Len(attempts) \in Nat /\ Len(attempts) <= 4
      /\ DOMAIN attempts = 1..Len(attempts)
      /\ \A i \in 1..Len(attempts) : attempts[i] \in AttemptRow
  BY LenProperties, ElementOfSeq DEF TypeOK
<1>2. /\ DOMAIN consumptions = 1..Len(attempts)
      /\ \A i \in 1..Len(attempts) : consumptions[i] \in ConsumptionRow
  BY LenProperties, ElementOfSeq DEF TypeOK
<1> QED BY <1>1, <1>2 DEF AttemptNumbers

-----------------------------------------------------------------------------
(* What the row operations do *)

\* reserve_consumption and _persist_gate_b_attempt add one row to each ledger
\* and leave the rows already there alone.
LEMMA ReserveEffect ==
    ASSUME TypeOK, Len(attempts) < 4,
           NEW p \in Pilots, NEW slice \in Slices, NEW kind \in {"INITIAL", "RETRY"},
           Reserve(p, slice, kind)
    PROVE  LET n == Len(attempts) + 1 IN
           /\ attempts' \in Seq(AttemptRow) /\ consumptions' \in Seq(ConsumptionRow)
           /\ Len(attempts') = n /\ Len(consumptions') = n
           /\ DOMAIN attempts' = 1..n /\ DOMAIN attempts = 1..Len(attempts)
           /\ \A i \in 1..Len(attempts) : /\ attempts'[i] = attempts[i]
                                          /\ consumptions'[i] = consumptions[i]
           /\ attempts'[n] = [slice |-> slice, kind |-> kind, status |-> "PENDING",
                              bytes |-> 0, code |-> "none", holder |-> p]
           /\ consumptions'[n] = [state |-> "RESERVED", actual |-> 0, socket |-> FALSE]
<1> DEFINE row == [slice |-> slice, kind |-> kind, status |-> "PENDING",
                   bytes |-> 0, code |-> "none", holder |-> p]
           charge == [state |-> "RESERVED", actual |-> 0, socket |-> FALSE]
<1>1. row \in AttemptRow
  BY DEF AttemptRow
<1>2. charge \in ConsumptionRow
  BY DEF ConsumptionRow
<1>3. /\ attempts \in Seq(AttemptRow) /\ consumptions \in Seq(ConsumptionRow)
      /\ Len(consumptions) = Len(attempts) /\ Len(attempts) \in Nat
      /\ attempts' = Append(attempts, row) /\ consumptions' = Append(consumptions, charge)
  BY LenProperties DEF TypeOK, Reserve
<1> HIDE DEF row, charge
<1>4. /\ attempts' \in Seq(AttemptRow) /\ Len(attempts') = Len(attempts) + 1
      /\ attempts'[Len(attempts) + 1] = row
      /\ \A i \in 1..Len(attempts) : attempts'[i] = attempts[i]
  BY <1>1, <1>3, AppendProperties
<1>5. /\ consumptions' \in Seq(ConsumptionRow) /\ Len(consumptions') = Len(attempts) + 1
      /\ consumptions'[Len(attempts) + 1] = charge
      /\ \A i \in 1..Len(attempts) : consumptions'[i] = consumptions[i]
  BY <1>2, <1>3, AppendProperties
<1>6. DOMAIN attempts' = 1..(Len(attempts) + 1) /\ DOMAIN attempts = 1..Len(attempts)
  BY <1>3, <1>4, LenProperties
<1> QED BY <1>4, <1>5, <1>6 DEF row, charge

\* settle_attempt and settle_consumption rewrite one row of each ledger.
LEMMA SettleEffect ==
    ASSUME TypeOK, NEW n \in 1..Len(attempts),
           NEW status \in {"COMPLETED", "BLOCKED"}, NEW state \in {"SETTLED", "ABANDONED"},
           NEW socket \in BOOLEAN, Settle(n, status, state, socket)
    PROVE  /\ attempts' \in Seq(AttemptRow) /\ consumptions' \in Seq(ConsumptionRow)
           /\ Len(attempts') = Len(attempts) /\ Len(consumptions') = Len(attempts)
           /\ DOMAIN attempts' = 1..Len(attempts) /\ DOMAIN attempts = 1..Len(attempts)
           /\ \A i \in 1..Len(attempts) : i # n => /\ attempts'[i] = attempts[i]
                                                   /\ consumptions'[i] = consumptions[i]
           /\ attempts'[n].slice = attempts[n].slice /\ attempts'[n].kind = attempts[n].kind
           /\ attempts'[n].holder = attempts[n].holder
           /\ attempts'[n].status = status /\ attempts'[n].bytes = ResponseBytes(n)
           /\ attempts'[n].code = StatusCode(n)
           /\ consumptions'[n] = [state |-> state, actual |-> ResponseBytes(n), socket |-> socket]
<1> DEFINE row == [attempts[n] EXCEPT !.status = status, !.bytes = ResponseBytes(n),
                                      !.code = StatusCode(n)]
           charge == [state |-> state, actual |-> ResponseBytes(n), socket |-> socket]
<1>1. /\ attempts \in Seq(AttemptRow) /\ consumptions \in Seq(ConsumptionRow)
      /\ Len(consumptions) = Len(attempts) /\ Len(attempts) \in 0..4
      /\ DOMAIN attempts = 1..Len(attempts) /\ DOMAIN consumptions = 1..Len(attempts)
      /\ attempts[n] \in AttemptRow
  BY TypeFacts DEF TypeOK
<1>2. n \in AttemptNumbers
  BY <1>1 DEF AttemptNumbers
<1>3. ResponseBytes(n) \in Nat /\ StatusCode(n) \in Answered \cup {"none"}
  BY <1>2 DEF TypeOK, ResponseBytes, StatusCode
<1>4. /\ row \in AttemptRow
      /\ row.slice = attempts[n].slice /\ row.kind = attempts[n].kind
      /\ row.holder = attempts[n].holder
      /\ row.status = status /\ row.bytes = ResponseBytes(n) /\ row.code = StatusCode(n)
  BY <1>1, <1>3 DEF AttemptRow
<1>5. charge \in ConsumptionRow
  BY <1>3 DEF ConsumptionRow
<1>6. attempts' = [attempts EXCEPT ![n] = row] /\ consumptions' = [consumptions EXCEPT ![n] = charge]
  BY <1>1 DEF Settle
<1> HIDE DEF row, charge
<1>7. /\ attempts' \in Seq(AttemptRow) /\ Len(attempts') = Len(attempts)
      /\ attempts'[n] = row
      /\ \A i \in 1..Len(attempts) : i # n => attempts'[i] = attempts[i]
  BY <1>1, <1>4, <1>6, ExceptSeq
<1>8. /\ consumptions' \in Seq(ConsumptionRow) /\ Len(consumptions') = Len(attempts)
      /\ consumptions'[n] = charge
      /\ \A i \in 1..Len(attempts) : i # n => consumptions'[i] = consumptions[i]
  BY <1>1, <1>5, <1>6, ExceptSeq
<1>9. DOMAIN attempts' = 1..Len(attempts)
  BY <1>7, LenProperties
<1> QED BY <1>1, <1>4, <1>7, <1>8, <1>9 DEF charge

-----------------------------------------------------------------------------
(* Steps that leave the rows alone *)

\* The row invariants read nothing but the rows and what the network did.
LEMMA RowInvUnchanged ==
    ASSUME RowInv, UNCHANGED <<attempts, consumptions, wire, blobs, artifacts, terminals>>
    PROVE  RowInv'
BY DEF RowInv, Rows, PlanOrder, RetryBudget, ResourceOrder, NoRetryAfterAbort, ByteBudget,
       ConsumedBytes, Charge, LedgersAgree, LineageDurable, TerminalSound, CompleteResourceSet

\* No two processes execute at once: the last attempt has one holder.
LEMMA OneOwner ==
    ASSUME Ownership, NEW p \in Pilots, NEW q \in Pilots,
           pc[p] \in Executing, pc[q] \in Executing
    PROVE  p = q
BY DEF Ownership

\* A process that leaves or enters a label outside the execution disturbs
\* nothing the others rely on.
LEMMA StopSafe ==
    ASSUME TypeOK, ProcInv, NEW p \in Pilots, NEW l \in Labels \ Executing,
           pc' = [pc EXCEPT ![p] = l],
           UNCHANGED <<authState, attempts, wire, blobs, terminals>>,
           \A q \in Pilots : q # p => /\ ordinal'[q] = ordinal[q] /\ current'[q] = current[q]
                                      /\ prior'[q] = prior[q]
    PROVE  ProcInv'
<1>1. \A q \in Pilots : pc'[q] = IF q = p THEN l ELSE pc[q]
  BY DEF TypeOK
<1>2. l \notin Executing /\ {"validated", "stored", "invalid"} \subseteq Executing
  BY DEF Executing, Labels
<1>3. Ownership'
  BY <1>1, <1>2 DEF ProcInv, Ownership
<1>4. Position'
  BY <1>1, <1>2 DEF ProcInv, Position
<1>5. PendingRows'
  BY <1>1, <1>2 DEF ProcInv, PendingRows
<1>6. Evidence'
  BY <1>1, <1>2 DEF ProcInv, Evidence
<1> QED BY <1>3, <1>4, <1>5, <1>6 DEF ProcInv

-----------------------------------------------------------------------------
(* The initial state and the environment *)

\* No attempt and no executing process at the start.
LEMMA InitInv == ASSUME LimitsAssumption, Init PROVE Inv
<1>1. TypeOK
  BY DEF Init, TypeOK, LimitsAssumption, AuthStates, AttemptNumbers, WireKinds, Labels, Slices
<1>2. DOMAIN attempts = {} /\ Len(attempts) = 0
  BY DEF Init
<1>3. ProcInv
  BY <1>2 DEF Init, ProcInv, Ownership, Position, PendingRows, Evidence, Executing
<1>4. ByteBudget
  BY <1>2 DEF Init, ByteBudget, ConsumedBytes, Charge, LimitsAssumption
<1>5. RowInv
  BY <1>2, <1>4 DEF Init, RowInv, Rows, PlanOrder, RetryBudget, ResourceOrder, NoRetryAfterAbort,
     LedgersAgree, LineageDurable, TerminalSound
<1> QED BY <1>1, <1>3, <1>5 DEF Inv

\* An operator event never makes an unused grant look consumed, nor a consumed
\* one look unused: no transition leaves CONSUMED.
LEMMA AppendEventInv == ASSUME Inv, AppendEvent PROVE Inv'
<1>1. authState # "CONSUMED" /\ authState' \in AuthStates
  BY DEF AppendEvent, AuthTransitions, AuthStates
<1>2. TypeOK'
  BY <1>1 DEF Inv, TypeOK, AppendEvent, proc
<1>3. RowInv'
  BY RowInvUnchanged DEF Inv, AppendEvent
<1>4. ProcInv'
  BY <1>1 DEF Inv, ProcInv, Ownership, Position, PendingRows, Evidence, AppendEvent, proc
<1> QED BY <1>2, <1>3, <1>4 DEF Inv

\* Time only decides what may be started, never what is recorded.
LEMMA TickInv == ASSUME Inv, Tick PROVE Inv'
<1>1. TypeOK'
  BY DEF Inv, TypeOK, Tick, db, proc
<1>2. RowInv'
  BY RowInvUnchanged DEF Inv, Tick, db
<1>3. ProcInv'
  BY DEF Inv, ProcInv, Ownership, Position, PendingRows, Evidence, Tick, db, proc
<1> QED BY <1>1, <1>2, <1>3 DEF Inv

-----------------------------------------------------------------------------
(* Steps of a process that write no row *)

\* authorize reads; it writes nothing and starts nothing.
LEMMA AuthorizeInv == ASSUME Inv, NEW p \in Pilots, Authorize(p) PROVE Inv'
<1>1. PICK l \in {"authorized", "stopped"} : pc' = [pc EXCEPT ![p] = l]
  BY DEF Authorize, Goto
<1>2. l \in Labels \ Executing
  BY DEF Labels, Executing
<1>3. TypeOK'
  BY <1>1, <1>2 DEF Inv, TypeOK, Authorize, db
<1>4. ProcInv'
  BY <1>1, <1>2, StopSafe DEF Inv, Authorize, db
<1>5. RowInv'
  BY RowInvUnchanged DEF Inv, Authorize, db
<1> QED BY <1>3, <1>4, <1>5 DEF Inv

\* A process may die anywhere: the rows do not change and it no longer executes.
LEMMA CrashInv == ASSUME Inv, NEW p \in Pilots, Crash(p) PROVE Inv'
<1>1. pc' = [pc EXCEPT ![p] = "stopped"] /\ "stopped" \in Labels \ Executing
  BY DEF Crash, Goto, Labels, Executing
<1>2. TypeOK'
  BY <1>1 DEF Inv, TypeOK, Crash, db
<1>3. ProcInv'
  BY <1>1, StopSafe DEF Inv, Crash, db
<1>4. RowInv'
  BY RowInvUnchanged DEF Inv, Crash, db
<1> QED BY <1>2, <1>3, <1>4 DEF Inv

\* A restarted process is idle, whatever the dead one had in memory.
LEMMA RestartInv == ASSUME Inv, NEW p \in Pilots, Restart(p) PROVE Inv'
<1>1. pc' = [pc EXCEPT ![p] = "idle"] /\ "idle" \in Labels \ Executing
  BY DEF Restart, Goto, Labels, Executing
<1>2. TypeOK'
  BY <1>1 DEF Inv, TypeOK, Restart, db, Slices
<1>3. \A q \in Pilots : q # p => /\ ordinal'[q] = ordinal[q] /\ current'[q] = current[q]
                                 /\ prior'[q] = prior[q]
  BY DEF Inv, TypeOK, Restart
<1>4. ProcInv'
  BY <1>1, <1>3, StopSafe DEF Inv, Restart, db
<1>5. RowInv'
  BY RowInvUnchanged DEF Inv, Restart, db
<1> QED BY <1>2, <1>4, <1>5 DEF Inv

\* The process that owns the run leaves it: whatever it wrote on the way, no
\* process executes any more.
LEMMA StopLast ==
    ASSUME TypeOK, ProcInv, NEW p \in Pilots, pc[p] \in Executing,
           pc' = [pc EXCEPT ![p] = "stopped"],
           UNCHANGED <<authState, attempts>>
    PROVE  ProcInv'
<1>1. \A q \in Pilots : pc'[q] = IF q = p THEN "stopped" ELSE pc[q]
  BY DEF TypeOK
<1>2. "stopped" \notin Executing /\ {"validated", "stored", "invalid"} \subseteq Executing
  BY DEF Executing, Labels
<1>3. \A q \in Pilots : pc'[q] \notin Executing
  BY <1>1, <1>2, OneOwner DEF ProcInv
<1>4. attempts # <<>>
  BY DEF ProcInv, Ownership
<1> QED BY <1>2, <1>3, <1>4 DEF ProcInv, Ownership, Position, PendingRows, Evidence

\* What a process may rely on while it executes.
LEMMA OwnAttempt ==
    ASSUME TypeOK, ProcInv, NEW p \in Pilots, pc[p] \in Executing
    PROVE  /\ current[p] \in 1..Len(attempts) /\ current[p] = Len(attempts)
           /\ current[p] \in AttemptNumbers /\ attempts[current[p]] \in AttemptRow
           /\ attempts[current[p]].slice \in 0..2
           /\ pc[p] # "next" => ordinal[p] = attempts[current[p]].slice
           /\ pc[p] = "next" => ordinal[p] = attempts[current[p]].slice + 1
           /\ authState = "CONSUMED" /\ terminals = <<>>
           /\ attempts[current[p]].holder = p
           /\ pc[p] \in Unsettled <=> attempts[current[p]].status = "PENDING"
           /\ pc[p] \notin {"resend", "returned"} => prior[p] = 0
<1>1. /\ Len(attempts) > 0 /\ current[p] = Len(attempts) /\ Len(attempts) \in 0..4
      /\ authState = "CONSUMED" /\ terminals = <<>> /\ attempts[current[p]].holder = p
  BY TypeFacts DEF ProcInv, Ownership
<1>2. current[p] \in 1..Len(attempts)
  BY <1>1
<1>3. current[p] \in AttemptNumbers /\ attempts[current[p]] \in AttemptRow
  BY <1>2, TypeFacts
<1>4. attempts[current[p]].slice \in 0..2
  BY <1>3 DEF AttemptRow, Slices
<1>5. ordinal[p] = attempts[current[p]].slice + (IF pc[p] = "next" THEN 1 ELSE 0)
  BY DEF ProcInv, Position
<1>6. /\ pc[p] \in Unsettled <=> attempts[current[p]].status = "PENDING"
      /\ pc[p] \notin {"resend", "returned"} => prior[p] = 0
  BY DEF ProcInv, PendingRows
<1>7. /\ pc[p] # "next" => ordinal[p] = attempts[current[p]].slice
      /\ pc[p] = "next" => ordinal[p] = attempts[current[p]].slice + 1
  BY <1>4, <1>5
<1> QED BY <1>1, <1>2, <1>3, <1>4, <1>6, <1>7

\* A process that executes and moves to another label of its execution without
\* writing a row: the others do not execute, so only its own facts are at stake.
LEMMA MoveSafe ==
    ASSUME TypeOK, ProcInv, NEW p \in Pilots, NEW l \in Executing, pc[p] \in Executing,
           pc' = [pc EXCEPT ![p] = l],
           UNCHANGED <<authState, attempts, terminals, current, prior>>,
           \A i \in AttemptNumbers : i # current[p] => wire'[i] = wire[i],
           ordinal'[p] = attempts[current[p]].slice + (IF l = "next" THEN 1 ELSE 0),
           l \in Unsettled <=> pc[p] \in Unsettled,
           l \in {"lineage", "next", "admit", "evaluate"} =>
               attempts[current[p]].status = "COMPLETED",
           prior[p] # 0 => l \in {"resend", "returned"},
           l \in {"admit", "evaluate"} => attempts[current[p]].slice = 2,
           l \in {"validated", "stored", "invalid"} => wire'[current[p]].kind = "ok",
           l \in {"validated", "stored"} => wire'[current[p]].body > 0,
           l = "stored" => current[p] \in blobs'
    PROVE  ProcInv'
<1>1. \A q \in Pilots : pc'[q] = IF q = p THEN l ELSE pc[q]
  BY DEF TypeOK
<1>2. \A q \in Pilots : pc'[q] \in Executing => q = p
  BY <1>1, OneOwner DEF ProcInv
<1>3. {"validated", "stored", "invalid"} \subseteq Executing
  BY DEF Executing, Labels
<1>4. Ownership'
  BY <1>1, <1>2 DEF ProcInv, Ownership
<1>5. Position'
  BY <1>1, <1>2 DEF ProcInv, Position
<1>6. prior[p] # 0 => prior[p] \in AttemptNumbers /\ prior[p] # current[p]
  BY OwnAttempt DEF ProcInv, PendingRows, TypeOK, AttemptNumbers
<1>7. PendingRows'
  BY <1>1, <1>2, <1>6 DEF ProcInv, PendingRows, RetryEligible
<1>8. Evidence'
  BY <1>1, <1>2, <1>3 DEF ProcInv, Evidence
<1> QED BY <1>4, <1>5, <1>7, <1>8 DEF ProcInv

\* A response that validates was answered with 2xx and has a body.
LEMMA ValidateInv == ASSUME Inv, NEW p \in Pilots, Validate(p) PROVE Inv'
<1>1. PICK l \in {"validated", "invalid"} :
          pc' = [pc EXCEPT ![p] = l] /\ (l = "validated" => wire[current[p]].body > 0)
  BY DEF Validate, Goto
<1>2. l \in Labels /\ l \in Executing /\ pc[p] \in Executing /\ l \in Unsettled /\ pc[p] \in Unsettled
  BY DEF Labels, Executing, Validate, Unsettled
<1>3. TypeOK'
  BY <1>1, <1>2 DEF Inv, TypeOK, Validate, db
<1>4. ordinal'[p] = attempts[current[p]].slice + (IF l = "next" THEN 1 ELSE 0)
  BY <1>1, <1>2 DEF Inv, ProcInv, Position, Validate
<1>5. ProcInv'
  BY <1>1, <1>2, <1>4, MoveSafe DEF Inv, Validate, db
<1>6. RowInv'
  BY RowInvUnchanged DEF Inv, Validate, db
<1> QED BY <1>3, <1>5, <1>6 DEF Inv

\* The resource just completed is the last attempt; the next one is reserved or the plan ends.
LEMMA CheckLineageInv == ASSUME Inv, NEW p \in Pilots, CheckLineage(p) PROVE Inv'
<1>0. pc[p] = "lineage" /\ pc[p] \in Executing /\ pc[p] \notin Unsettled
  BY DEF CheckLineage, Executing, Labels, Unsettled
<1>1. /\ pc[p] = "lineage" /\ pc[p] \in Executing /\ pc[p] \notin Unsettled
      /\ ordinal[p] = attempts[current[p]].slice /\ ordinal[p] \in Slices
      /\ attempts[current[p]].status = "COMPLETED" /\ prior[p] = 0
  BY <1>0, OwnAttempt DEF Inv, TypeOK, ProcInv, PendingRows
<1>2. PICK l \in {"next", "blocking", "admit"} :
          /\ pc' = [pc EXCEPT ![p] = l]
          /\ ordinal' \in [Pilots -> Slices]
          /\ ordinal'[p] = ordinal[p] + (IF l = "next" THEN 1 ELSE 0)
          /\ l = "admit" => ordinal[p] = 2
  BY <1>1 DEF CheckLineage, Goto, Inv, TypeOK, Slices
<1>3. l \in Executing /\ l \in Labels /\ l \notin Unsettled
  BY DEF Executing, Labels, Unsettled
<1>4. TypeOK'
  BY <1>2, <1>3 DEF Inv, TypeOK, CheckLineage, db
<1>5. ProcInv'
  BY <1>1, <1>2, <1>3, MoveSafe DEF Inv, CheckLineage, db
<1>6. RowInv'
  BY RowInvUnchanged DEF Inv, CheckLineage, db
<1> QED BY <1>4, <1>5, <1>6 DEF Inv

\* The document bridge writes no row of the pilot.
LEMMA AdmitDocumentInv == ASSUME Inv, NEW p \in Pilots, AdmitDocument(p) PROVE Inv'
<1>0. pc[p] = "admit" /\ pc[p] \in Executing /\ pc[p] \notin Unsettled
  BY DEF AdmitDocument, Executing, Labels, Unsettled
<1>1. /\ pc[p] = "admit" /\ pc[p] \in Executing /\ pc[p] \notin Unsettled
      /\ ordinal[p] = attempts[current[p]].slice /\ attempts[current[p]].slice = 2
      /\ attempts[current[p]].status = "COMPLETED" /\ prior[p] = 0
  BY <1>0, OwnAttempt DEF Inv, ProcInv, PendingRows
<1>2. RowInv'
  BY RowInvUnchanged DEF Inv, AdmitDocument, db
<1>3. CASE pc' = [pc EXCEPT ![p] = "stopped"]
  <2>1. "stopped" \in Labels \ Executing
    BY DEF Labels, Executing
  <2>2. TypeOK'
    BY <1>3, <2>1 DEF Inv, TypeOK, AdmitDocument, db
  <2>3. ProcInv'
    BY <1>3, <2>1, StopSafe DEF Inv, AdmitDocument, db
  <2> QED BY <1>2, <2>2, <2>3 DEF Inv
<1>4. CASE pc' = [pc EXCEPT ![p] = "evaluate"]
  <2>1. "evaluate" \in Labels /\ "evaluate" \in Executing /\ "evaluate" \notin Unsettled
    BY DEF Labels, Executing, Unsettled
  <2>2. TypeOK'
    BY <1>4, <2>1 DEF Inv, TypeOK, AdmitDocument, db
  <2>3. ordinal'[p] = attempts[current[p]].slice + (IF "evaluate" = "next" THEN 1 ELSE 0)
    BY <1>1 DEF AdmitDocument
  <2>4. ProcInv'
    BY <1>1, <1>4, <2>1, <2>3, MoveSafe DEF Inv, AdmitDocument, db
  <2> QED BY <1>2, <2>2, <2>4 DEF Inv
<1> QED BY <1>3, <1>4 DEF AdmitDocument, Goto

-----------------------------------------------------------------------------
(* Network and blob store *)

\* The network writes the record of a pending attempt, which no row and no
\* artifact speaks of yet.
LEMMA WireRowInv ==
    ASSUME Inv, NEW n \in 1..Len(attempts), attempts[n].status = "PENDING",
           \A i \in AttemptNumbers : i # n => wire'[i] = wire[i],
           UNCHANGED <<attempts, consumptions, blobs, artifacts, terminals>>
    PROVE  RowInv'
<1>1. /\ DOMAIN attempts = 1..Len(attempts)
      /\ \A i \in 1..Len(attempts) : i \in AttemptNumbers
  BY TypeFacts DEF Inv
<1>2. LedgersAgree'
  BY <1>1 DEF Inv, RowInv, LedgersAgree
<1>3. LineageDurable'
  BY <1>1 DEF Inv, RowInv, LineageDurable
<1>4. ByteBudget'
  BY DEF Inv, RowInv, ByteBudget, ConsumedBytes, Charge
<1>5. Rows' /\ PlanOrder' /\ RetryBudget' /\ ResourceOrder' /\ NoRetryAfterAbort' /\ TerminalSound'
  BY DEF Inv, RowInv, Rows, PlanOrder, RetryBudget, ResourceOrder, NoRetryAfterAbort,
         TerminalSound, CompleteResourceSet
<1> QED BY <1>2, <1>3, <1>4, <1>5 DEF RowInv

\* An unresolved contact sends nothing.
LEMMA ContactFailsInv == ASSUME Inv, NEW p \in Pilots, ContactFails(p) PROVE Inv'
<1>1. pc[p] = "transport" /\ pc[p] \in Executing /\ pc[p] \in Unsettled
  BY DEF ContactFails, Executing, Labels, Unsettled
<1>2. "returned" \in Executing /\ "returned" \in Unsettled /\ "returned" \in Labels
  BY DEF Executing, Labels, Unsettled
<1>3. /\ current[p] \in 1..Len(attempts) /\ current[p] \in AttemptNumbers
      /\ attempts[current[p]].status = "PENDING" /\ ordinal[p] = attempts[current[p]].slice
      /\ attempts[current[p]].slice \in 0..2
  BY <1>1, OwnAttempt DEF Inv
<1>4. /\ \A i \in AttemptNumbers : i # current[p] => wire'[i] = wire[i]
      /\ wire' \in [AttemptNumbers -> [kind : WireKinds, body : Nat, late : BOOLEAN]]
  BY <1>3 DEF ContactFails, Inv, TypeOK, WireKinds
<1>5. TypeOK'
  BY <1>2, <1>4 DEF Inv, TypeOK, ContactFails, db, Goto
<1>6. ordinal'[p] = attempts[current[p]].slice + (IF "returned" = "next" THEN 1 ELSE 0)
  BY <1>3 DEF ContactFails
<1>7. ProcInv'
  BY <1>1, <1>2, <1>4, <1>6, MoveSafe DEF Inv, ContactFails, Goto, db
<1>8. RowInv'
  BY <1>3, <1>4, WireRowInv DEF ContactFails, db
<1> QED BY <1>5, <1>7, <1>8 DEF Inv

\* A physical request is sent for the attempt that its process holds.
LEMMA SendInv == ASSUME Inv, NEW p \in Pilots, Send(p) PROVE Inv'
<1>1. pc[p] \in {"transport", "resend"} /\ pc[p] \in Executing /\ pc[p] \in Unsettled
  BY DEF Send, Executing, Labels, Unsettled
<1>2. PICK l \in {"classify", "returned"}, kind \in Answered \cup Unanswered, body \in 0..MaxBody :
          /\ pc' = [pc EXCEPT ![p] = l]
          /\ pc[p] = "resend" => l = "returned"
          /\ wire' = [wire EXCEPT ![current[p]] =
                         [kind |-> kind, body |-> body, late |-> now >= GrantExpiresAt]]
  BY <1>1 DEF Send, Goto
<1>3. l \in Executing /\ l \in Unsettled /\ l \in Labels
  BY DEF Executing, Labels, Unsettled
<1>4. /\ current[p] \in 1..Len(attempts) /\ current[p] \in AttemptNumbers
      /\ attempts[current[p]].status = "PENDING" /\ ordinal[p] = attempts[current[p]].slice
      /\ attempts[current[p]].slice \in 0..2 /\ (pc[p] = "transport" => prior[p] = 0)
  BY <1>1, OwnAttempt DEF Inv
<1>5. \A i \in AttemptNumbers : i # current[p] => wire'[i] = wire[i]
  BY <1>2, <1>4 DEF Inv, TypeOK
<1>6. [kind |-> kind, body |-> body, late |-> now >= GrantExpiresAt]
          \in [kind : WireKinds, body : Nat, late : BOOLEAN]
  BY <1>2 DEF WireKinds, LimitsAssumption
<1>7. wire' \in [AttemptNumbers -> [kind : WireKinds, body : Nat, late : BOOLEAN]]
  BY <1>2, <1>6 DEF Inv, TypeOK
<1>8. TypeOK'
  BY <1>2, <1>3, <1>7 DEF Inv, TypeOK, Send, db
<1>9. ordinal'[p] = attempts[current[p]].slice + (IF l = "next" THEN 1 ELSE 0)
  BY <1>2, <1>4 DEF Send
<1>10. ProcInv'
  BY <1>1, <1>2, <1>3, <1>4, <1>5, <1>9, MoveSafe DEF Inv, Send, db
<1>11. RowInv'
  BY <1>4, <1>5, WireRowInv DEF Send, db
<1> QED BY <1>8, <1>10, <1>11 DEF Inv

\* The body is stored before the rows that refer to it.
LEMMA WriteBlobInv == ASSUME Inv, NEW p \in Pilots, WriteBlob(p) PROVE Inv'
<1>1. pc[p] = "validated" /\ pc[p] \in Executing /\ pc[p] \in Unsettled
  BY DEF WriteBlob, Executing, Labels, Unsettled
<1>2. "stored" \in Executing /\ "stored" \in Unsettled /\ "stored" \in Labels
  BY DEF Executing, Labels, Unsettled
<1>3. /\ current[p] \in AttemptNumbers /\ ordinal[p] = attempts[current[p]].slice
      /\ attempts[current[p]].slice \in 0..2 /\ prior[p] = 0
      /\ wire[current[p]].kind = "ok" /\ wire[current[p]].body > 0
  BY <1>1, OwnAttempt DEF Inv, ProcInv, Evidence
<1>4. TypeOK'
  BY <1>2, <1>3 DEF Inv, TypeOK, WriteBlob, db, Goto
<1>5. ordinal'[p] = attempts[current[p]].slice + (IF "stored" = "next" THEN 1 ELSE 0)
  BY <1>3 DEF WriteBlob
<1>6. ProcInv'
  BY <1>1, <1>2, <1>3, <1>5, MoveSafe DEF Inv, WriteBlob, Goto, db
<1>7. LineageDurable' /\ LedgersAgree' /\ ByteBudget'
  BY DEF Inv, RowInv, LineageDurable, LedgersAgree, ByteBudget, ConsumedBytes, Charge, WriteBlob, db
<1>8. Rows' /\ PlanOrder' /\ RetryBudget' /\ ResourceOrder' /\ NoRetryAfterAbort' /\ TerminalSound'
  BY DEF Inv, RowInv, Rows, PlanOrder, RetryBudget, ResourceOrder, NoRetryAfterAbort,
         TerminalSound, CompleteResourceSet, WriteBlob, db
<1> QED BY <1>4, <1>6, <1>7, <1>8 DEF Inv, RowInv

-----------------------------------------------------------------------------
(* Terminal event *)

\* The terminal event of a run without pending attempts keeps the row invariants.
LEMMA CommitRowInv ==
    ASSUME Inv, NEW p \in Pilots, pc[p] \in Executing \ Unsettled,
           NEW status \in {"PASSED", "BLOCKED"},
           NEW stage \in {"DATA_QUALITY", "RESOURCE_ORCHESTRATION"},
           stage = "DATA_QUALITY" => pc[p] = "evaluate", pc[p] # "next",
           CommitTerminal(p, status, stage),
           UNCHANGED <<attempts, consumptions, wire, blobs, artifacts>>
    PROVE  RowInv' /\ terminals' \in Seq(TerminalRow)
<1> DEFINE n == Len(attempts)
           event == [status |-> status, stage |-> stage, slice |-> ordinal[p],
                     attempt |-> current[p]]
<1>1. /\ current[p] = n /\ n \in 1..n /\ n \in AttemptNumbers /\ terminals = <<>>
      /\ ordinal[p] \in Slices /\ DOMAIN attempts = 1..n
      /\ \A i \in 1..n : attempts[i].slice \in 0..2
  <2>1. pc[p] \in Executing /\ TypeOK /\ ProcInv
    BY DEF Inv
  <2>2. /\ current[p] = n /\ n \in 1..n /\ n \in AttemptNumbers /\ terminals = <<>>
        /\ ordinal[p] \in Slices
    BY <2>1, OwnAttempt DEF TypeOK
  <2>3. DOMAIN attempts = 1..n /\ \A i \in 1..n : attempts[i].slice \in 0..2
    BY <2>1, TypeFacts DEF AttemptRow, Slices
  <2> QED BY <2>2, <2>3
<1>2. prior[p] = 0
  BY DEF Inv, ProcInv, PendingRows, Unsettled
<1>3. \A i \in 1..n : attempts[i].status # "PENDING"
  <2>1. \A i \in DOMAIN attempts : attempts[i].status = "PENDING" => i = current[p]
    BY <1>2 DEF Inv, ProcInv, PendingRows
  <2>2. attempts[current[p]].status # "PENDING"
    BY OwnAttempt DEF Inv
  <2> QED BY <1>1, <2>1, <2>2
<1>4. ASSUME pc[p] = "evaluate" PROVE CompleteResourceSet(n)
  <2>1. attempts[n].status = "COMPLETED" /\ attempts[n].slice = 2
    BY <1>1, <1>4 DEF Inv, ProcInv, PendingRows, Executing, Labels
  <2>2. PICK b \in 1..(n - 1) : attempts[b].slice = 1 /\ attempts[b].status = "COMPLETED"
    BY <1>1, <2>1 DEF Inv, RowInv, ResourceOrder
  <2>3. PICK a \in 1..(b - 1) : attempts[a].slice = 0 /\ attempts[a].status = "COMPLETED"
    BY <1>1, <2>2 DEF Inv, RowInv, ResourceOrder
  <2>4. a \in 1..n /\ b \in 1..n /\ a < b /\ b < n
    BY <1>1, <2>2, <2>3 DEF AttemptNumbers
  <2>5. \A d \in 1..n : attempts[d].status = "COMPLETED" => d \in artifacts
    BY <1>1 DEF Inv, RowInv, Rows
  <2>6. \A d \in 1..n : attempts[d].status = "COMPLETED" => d \in {a, b, n}
    <3> SUFFICES ASSUME NEW d \in 1..n, attempts[d].status = "COMPLETED",
                        d # a, d # b, d # n
                 PROVE  FALSE
      OBVIOUS
    <3>1. \A i, j \in 1..n : i < j /\ attempts[i].status = "COMPLETED" =>
                                 attempts[i].slice < attempts[j].slice
      BY <1>1 DEF Inv, RowInv, PlanOrder
    <3> HIDE DEF n
    <3>2. n \in Nat /\ attempts[d].slice \in 0..2 /\ attempts[b].slice = 1 /\ attempts[a].slice = 0
      BY <1>1, <2>2, <2>3 DEF AttemptNumbers
    <3>3. attempts[d].slice < 2
      BY <2>1, <3>1, <3>2
    <3>4. d < b \/ b < d
      BY <2>4, <3>2
    <3>5. d < a \/ a < d
      BY <2>4, <3>2
    <3>6. (d < b => attempts[d].slice < 1) /\ (b < d => 1 < attempts[d].slice)
      BY <2>2, <2>4, <3>1, <3>2
    <3>7. (d < a => attempts[d].slice < 0) /\ (a < d => 0 < attempts[d].slice)
      BY <2>3, <2>4, <3>1, <3>2
    <3> QED BY <3>2, <3>3, <3>4, <3>5, <3>6, <3>7
  <2> QED BY <1>1, <2>1, <2>2, <2>3, <2>4, <2>5, <2>6 DEF CompleteResourceSet
<1>5. event \in TerminalRow
  BY <1>1 DEF TerminalRow
<1>6. terminals' = Append(terminals, event) \/ terminals' = <<>>
  BY <1>1 DEF CommitTerminal
<1> HIDE DEF event
<1>7. terminals' \in Seq(TerminalRow)
  <2>1. terminals \in Seq(TerminalRow)
    BY DEF Inv, TypeOK
  <2>2. Append(terminals, event) \in Seq(TerminalRow)
    BY <1>5, <2>1, AppendProperties
  <2> QED BY <1>6, <2>2, EmptySeq
<1>8. TerminalSound'
  <2>1. CASE terminals' = <<>>
    BY <2>1 DEF TerminalSound
  <2>2. CASE terminals' = Append(terminals, event)
    <3>1. Len(terminals') = 1 /\ terminals'[1].attempt = n /\ terminals'[1].stage = stage
      <4>1. event.attempt = n /\ event.stage = stage
        BY <1>1 DEF event
      <4>2. Len(terminals') = 1 /\ terminals'[1] = event
        BY <1>1, <1>5, <2>2, EmptySeq, AppendProperties
      <4> QED BY <4>1, <4>2
    <3>2. stage = "DATA_QUALITY" => CompleteResourceSet(n)'
      BY <1>4 DEF CompleteResourceSet
    <3> QED BY <1>1, <1>3, <3>1, <3>2 DEF TerminalSound
  <2> QED BY <1>6, <2>1, <2>2
<1>9. LineageDurable' /\ LedgersAgree' /\ ByteBudget'
  BY DEF Inv, RowInv, LineageDurable, LedgersAgree, ByteBudget, ConsumedBytes, Charge
<1>10. Rows' /\ PlanOrder' /\ RetryBudget' /\ ResourceOrder' /\ NoRetryAfterAbort'
  BY DEF Inv, RowInv, Rows, PlanOrder, RetryBudget, ResourceOrder, NoRetryAfterAbort
<1> QED BY <1>7, <1>8, <1>9, <1>10 DEF RowInv

\* A failed resource ends the run with a BLOCKED event.
LEMMA BlockResourceInv == ASSUME Inv, NEW p \in Pilots, BlockResource(p) PROVE Inv'
<1>1. pc[p] = "blocking" /\ pc[p] \in Executing \ Unsettled
  BY DEF BlockResource, Executing, Labels, Unsettled
<1>2. RowInv' /\ terminals' \in Seq(TerminalRow)
  BY <1>1, CommitRowInv DEF BlockResource
<1>3. "stopped" \in Labels \ Executing /\ pc' = [pc EXCEPT ![p] = "stopped"]
  BY DEF BlockResource, Goto, Labels, Executing
<1>4. TypeOK'
  BY <1>2, <1>3 DEF Inv, TypeOK, BlockResource
<1>5. ProcInv'
  BY <1>1, <1>3, StopLast DEF Inv, BlockResource
<1> QED BY <1>2, <1>4, <1>5 DEF Inv

\* The data-quality verdict ends a run of which every resource is completed.
LEMMA EvaluateInv == ASSUME Inv, NEW p \in Pilots, Evaluate(p) PROVE Inv'
<1>1. pc[p] = "evaluate" /\ pc[p] \in Executing \ Unsettled
  BY DEF Evaluate, Executing, Labels, Unsettled
<1>2. RowInv' /\ terminals' \in Seq(TerminalRow)
  BY <1>1, CommitRowInv DEF Evaluate
<1>3. "stopped" \in Labels \ Executing /\ pc' = [pc EXCEPT ![p] = "stopped"]
  BY DEF Evaluate, Goto, Labels, Executing
<1>4. TypeOK'
  BY <1>2, <1>3 DEF Inv, TypeOK, Evaluate
<1>5. ProcInv'
  BY <1>1, <1>3, StopLast DEF Inv, Evaluate
<1> QED BY <1>2, <1>4, <1>5 DEF Inv

-----------------------------------------------------------------------------
(* Settlement *)

\* What holds when attempt n is settled: the budget check passed, only the last
\* attempt is completed, and an earlier one had failed for a retryable reason.
Settlement(n, status, state, socket) ==
    /\ CanSettle(n, ResponseBytes(n)) /\ Settle(n, status, state, socket)
    /\ n # Len(attempts) => RetryEligible(wire[n].kind)
    /\ state = "ABANDONED" => wire[n].kind = "no_contact" /\ ~socket /\ status = "BLOCKED"
    /\ status = "COMPLETED" => /\ n = Len(attempts) /\ n \in blobs
                               /\ wire[n].kind = "ok" /\ wire[n].body > 0
    /\ artifacts' = IF status = "COMPLETED" THEN artifacts \cup {n} ELSE artifacts
    /\ terminals = <<>> /\ UNCHANGED <<wire, blobs, terminals>>

\* Such a settlement keeps every invariant of the rows.
LEMMA SettleRowInv ==
    ASSUME Inv, LimitsAssumption, NEW n \in 1..Len(attempts),
           NEW status \in {"COMPLETED", "BLOCKED"}, NEW state \in {"SETTLED", "ABANDONED"},
           NEW socket \in BOOLEAN, Settlement(n, status, state, socket)
    PROVE  RowInv'
<1>1. /\ attempts' \in Seq(AttemptRow) /\ consumptions' \in Seq(ConsumptionRow)
      /\ Len(attempts') = Len(attempts) /\ Len(consumptions') = Len(attempts)
      /\ DOMAIN attempts' = 1..Len(attempts) /\ DOMAIN attempts = 1..Len(attempts)
      /\ \A i \in 1..Len(attempts) : i # n => /\ attempts'[i] = attempts[i]
                                              /\ consumptions'[i] = consumptions[i]
      /\ attempts'[n].slice = attempts[n].slice /\ attempts'[n].kind = attempts[n].kind
      /\ attempts'[n].status = status /\ attempts'[n].bytes = ResponseBytes(n)
      /\ attempts'[n].code = StatusCode(n)
      /\ consumptions'[n] = [state |-> state, actual |-> ResponseBytes(n), socket |-> socket]
  BY SettleEffect DEF Inv, Settlement
<1>2. /\ attempts[n].status = "PENDING" /\ consumptions[n].state = "RESERVED"
      /\ ConsumedBytes + ResponseBytes(n) <= ByteLimit
  BY DEF CanSettle, Settlement
<1>3. /\ Len(attempts) \in 0..4 /\ n \in AttemptNumbers /\ DOMAIN consumptions = 1..Len(attempts)
      /\ \A i \in 1..Len(attempts) : /\ i \in AttemptNumbers
                                     /\ consumptions[i].actual \in Nat /\ attempts[i].slice \in 0..2
  <2>1. /\ Len(attempts) \in 0..4 /\ DOMAIN consumptions = 1..Len(attempts)
        /\ \A i \in 1..Len(attempts) :
              i \in AttemptNumbers /\ attempts[i] \in AttemptRow /\ consumptions[i] \in ConsumptionRow
    BY TypeFacts DEF Inv
  <2> QED BY <2>1 DEF ConsumptionRow, AttemptRow, Slices
<1>4. ResponseBytes(n) \in Nat
  BY <1>3 DEF Inv, TypeOK, ResponseBytes
<1> DEFINE L == Len(attempts)
<1> HIDE DEF L
<1>a. /\ L \in 0..4 /\ n \in 1..L /\ DOMAIN attempts = 1..L /\ DOMAIN attempts' = 1..L
      /\ \A i \in 1..L : i # n => attempts'[i] = attempts[i] /\ consumptions'[i] = consumptions[i]
      /\ \A i \in 1..L : /\ attempts'[i].slice = attempts[i].slice
                         /\ attempts'[i].kind = attempts[i].kind /\ attempts[i].slice \in 0..2
      /\ \A i \in 1..L : attempts'[i].status = "COMPLETED" /\ i = n => i = L
      /\ \A i \in 1..L : attempts[i].status = "COMPLETED" => attempts'[i].status = "COMPLETED"
      /\ consumptions'[n].state = state /\ consumptions'[n].actual = ResponseBytes(n)
  <2>1. /\ L \in 0..4 /\ n \in 1..L /\ DOMAIN attempts = 1..L /\ DOMAIN attempts' = 1..L
        /\ \A i \in 1..L : i # n => attempts'[i] = attempts[i] /\ consumptions'[i] = consumptions[i]
    BY <1>1, <1>3 DEF L
  <2>2. \A i \in 1..L : attempts[i].slice \in 0..2
    BY <1>3 DEF L
  <2>3. /\ attempts'[n].slice = attempts[n].slice /\ attempts'[n].kind = attempts[n].kind
        /\ attempts'[n].status = status
        /\ consumptions'[n].state = state /\ consumptions'[n].actual = ResponseBytes(n)
    BY <1>1
  <2>4. status = "COMPLETED" => n = L
    BY DEF L, Settlement
  <2> QED BY <1>2, <2>1, <2>2, <2>3, <2>4
<1>5. Rows'
  <2>1. \A i \in 1..L : /\ attempts[i].status = "PENDING" => attempts[i].code = "none" /\ attempts[i].bytes = 0
                        /\ attempts[i].status = "COMPLETED" => attempts[i].code = "ok" /\ i \in artifacts
                        /\ consumptions[i].state = "RESERVED" => consumptions[i].actual = 0
    BY <1>a DEF Inv, RowInv, Rows
  <2>2. /\ attempts'[n].status # "PENDING" /\ consumptions'[n].state # "RESERVED"
        /\ attempts'[n].status = "COMPLETED" => attempts'[n].code = "ok" /\ n \in artifacts'
    BY <1>1, <1>a DEF StatusCode, Answered, Settlement
  <2>3. artifacts \subseteq artifacts'
    BY DEF Settlement
  <2> QED BY <1>a, <2>1, <2>2, <2>3 DEF Rows
<1>6. PlanOrder'
  <2>1. \A i, j \in 1..L : i < j => /\ attempts[i].slice <= attempts[j].slice
                                    /\ attempts[i].status = "COMPLETED" =>
                                           attempts[i].slice < attempts[j].slice
    BY <1>a DEF Inv, RowInv, PlanOrder
  <2>2. \A i, j \in 1..L : i < j /\ attempts'[i].status = "COMPLETED" =>
                               attempts[i].status = "COMPLETED"
    BY <1>a
  <2> QED BY <1>a, <2>1, <2>2 DEF PlanOrder
<1>7. RetryBudget'
  <2>1. \A i \in 1..L : i # 1 => i - 1 \in 1..L
    BY <1>a
  <2> QED BY <1>a, <2>1 DEF Inv, RowInv, RetryBudget
<1>8. ResourceOrder'
  <2> SUFFICES ASSUME NEW i \in 1..L, attempts[i].slice > 0
               PROVE  \E j \in 1..(i - 1) : /\ attempts'[j].slice = attempts[i].slice - 1
                                            /\ attempts'[j].status = "COMPLETED"
    BY <1>a DEF ResourceOrder
  <2>1. PICK j \in 1..(i - 1) : /\ attempts[j].slice = attempts[i].slice - 1
                                /\ attempts[j].status = "COMPLETED"
    BY <1>a DEF Inv, RowInv, ResourceOrder
  <2>2. j \in 1..L
    BY <1>a
  <2> QED BY <1>a, <2>1, <2>2
<1>9. NoRetryAfterAbort'
  BY <1>1, <1>2, <1>3 DEF Inv, RowInv, NoRetryAfterAbort, StatusCode, RetryEligible, Answered, Settlement
<1>10. ByteBudget'
  <2>0. DOMAIN consumptions' = 1..L /\ DOMAIN consumptions = 1..L
    BY <1>1, <1>3, LenProperties DEF L
  <2>1. \A i \in AttemptNumbers : Charge(i) \in Nat
    BY <1>3 DEF Charge
  <2>2. \A i \in AttemptNumbers : i # n => Charge(i)' = Charge(i)
    BY <1>a, <2>0 DEF Charge
  <2>3. Charge(n) = 0 /\ Charge(n)' \in Nat /\ Charge(n)' <= ResponseBytes(n)
    BY <1>2, <1>4, <1>a, <2>0 DEF Charge
  <2>4. n \in {1, 2, 3, 4} /\ ByteLimit \in Nat
    BY <1>3 DEF AttemptNumbers, LimitsAssumption
  <2>5. /\ Charge(1) \in Nat /\ Charge(2) \in Nat /\ Charge(3) \in Nat /\ Charge(4) \in Nat
        /\ n # 1 => Charge(1)' = Charge(1)
        /\ n # 2 => Charge(2)' = Charge(2)
        /\ n # 3 => Charge(3)' = Charge(3)
        /\ n # 4 => Charge(4)' = Charge(4)
    BY <2>1, <2>2 DEF AttemptNumbers
  <2>6. Charge(1) + Charge(2) + Charge(3) + Charge(4) + ResponseBytes(n) <= ByteLimit
    BY <1>2 DEF ConsumedBytes
  <2>7. /\ Charge(1)' \in Nat /\ Charge(2)' \in Nat /\ Charge(3)' \in Nat /\ Charge(4)' \in Nat
        /\ \/ /\ Charge(1)' <= Charge(1) + ResponseBytes(n) /\ Charge(2)' = Charge(2)
              /\ Charge(3)' = Charge(3) /\ Charge(4)' = Charge(4)
           \/ /\ Charge(2)' <= Charge(2) + ResponseBytes(n) /\ Charge(1)' = Charge(1)
              /\ Charge(3)' = Charge(3) /\ Charge(4)' = Charge(4)
           \/ /\ Charge(3)' <= Charge(3) + ResponseBytes(n) /\ Charge(1)' = Charge(1)
              /\ Charge(2)' = Charge(2) /\ Charge(4)' = Charge(4)
           \/ /\ Charge(4)' <= Charge(4) + ResponseBytes(n) /\ Charge(1)' = Charge(1)
              /\ Charge(2)' = Charge(2) /\ Charge(3)' = Charge(3)
    <3>1. Charge(n)' <= Charge(n) + ResponseBytes(n)
      BY <1>4, <2>3
    <3> QED BY <2>3, <2>4, <2>5, <3>1
  <2>8. Charge(1)' + Charge(2)' + Charge(3)' + Charge(4)' <= ByteLimit
    <3> DEFINE a1 == Charge(1)  a2 == Charge(2)  a3 == Charge(3)  a4 == Charge(4)
               b1 == Charge(1)'  b2 == Charge(2)'  b3 == Charge(3)'  b4 == Charge(4)'
               r == ResponseBytes(n)
    <3>1. /\ a1 \in Nat /\ a2 \in Nat /\ a3 \in Nat /\ a4 \in Nat /\ r \in Nat /\ ByteLimit \in Nat
          /\ b1 \in Nat /\ b2 \in Nat /\ b3 \in Nat /\ b4 \in Nat
          /\ a1 + a2 + a3 + a4 + r <= ByteLimit
          /\ \/ b1 <= a1 + r /\ b2 = a2 /\ b3 = a3 /\ b4 = a4
             \/ b2 <= a2 + r /\ b1 = a1 /\ b3 = a3 /\ b4 = a4
             \/ b3 <= a3 + r /\ b1 = a1 /\ b2 = a2 /\ b4 = a4
             \/ b4 <= a4 + r /\ b1 = a1 /\ b2 = a2 /\ b3 = a3
      BY <1>4, <2>4, <2>5, <2>6, <2>7
    <3> HIDE DEF a1, a2, a3, a4, b1, b2, b3, b4, r
    <3>2. b1 + b2 + b3 + b4 <= ByteLimit
      BY <3>1, SMTT(30)
    <3> QED BY <3>2 DEF b1, b2, b3, b4
  <2> QED BY <2>8 DEF ByteBudget, ConsumedBytes
<1>11. LedgersAgree'
  <2>1. \A i \in 1..L : i # n =>
            /\ (attempts'[i].status = "PENDING") <=> (consumptions'[i].state = "RESERVED")
            /\ attempts'[i].status = "COMPLETED" => consumptions'[i].state = "SETTLED"
            /\ attempts'[i].bytes = consumptions'[i].actual
            /\ consumptions'[i].state = "ABANDONED" =>
                  wire'[i].kind = "no_contact" /\ ~consumptions'[i].socket
    <3>1. UNCHANGED wire
      BY DEF Settlement
    <3> QED BY <1>a, <3>1 DEF Inv, RowInv, LedgersAgree
  <2>2. /\ attempts'[n].status # "PENDING" /\ consumptions'[n].state # "RESERVED"
        /\ attempts'[n].status = "COMPLETED" => consumptions'[n].state = "SETTLED"
        /\ attempts'[n].bytes = consumptions'[n].actual
        /\ consumptions'[n].state = "ABANDONED" =>
              wire'[n].kind = "no_contact" /\ ~consumptions'[n].socket
    <3>1. /\ UNCHANGED wire
          /\ state = "ABANDONED" => wire[n].kind = "no_contact" /\ ~socket /\ status = "BLOCKED"
      BY DEF Settlement
    <3>2. consumptions'[n].socket = socket
      BY <1>1
    <3>3. attempts'[n].status = status /\ attempts'[n].bytes = ResponseBytes(n)
      BY <1>1
    <3> QED BY <1>a, <3>1, <3>2, <3>3
  <2> QED BY <1>a, <2>1, <2>2 DEF LedgersAgree
<1>12. LineageDurable'
  <2>1. \A i \in artifacts : /\ i \in blobs /\ i \in 1..L /\ attempts[i].status = "COMPLETED"
                             /\ attempts[i].bytes = wire[i].body /\ wire[i].body > 0
    BY <1>a DEF Inv, RowInv, LineageDurable
  <2>2. status = "COMPLETED" => /\ n \in blobs /\ attempts'[n].status = "COMPLETED"
                                /\ attempts'[n].bytes = wire[n].body /\ wire[n].body > 0
    BY <1>1 DEF Settlement, ResponseBytes, Answered
  <2>3. \A i \in artifacts : attempts'[i] = attempts[i]
    BY <1>2, <1>a, <2>1
  <2>4. /\ UNCHANGED <<wire, blobs>>
        /\ \A i \in artifacts' : i \in artifacts \/ (i = n /\ status = "COMPLETED")
    BY DEF Settlement
  <2> QED BY <1>a, <2>1, <2>2, <2>3, <2>4 DEF LineageDurable
<1>13. TerminalSound'
  BY DEF TerminalSound, Settlement
<1> QED BY <1>5, <1>6, <1>7, <1>8, <1>9, <1>10, <1>11, <1>12, <1>13 DEF RowInv

\* The facts about processes after p has settled the attempt it holds.
LEMMA SettleProcInv ==
    ASSUME TypeOK, ProcInv, NEW p \in Pilots, pc[p] \in Executing, prior[p] = 0, pc[p] # "next",
           NEW status \in {"COMPLETED", "BLOCKED"}, NEW state \in {"SETTLED", "ABANDONED"},
           NEW socket \in BOOLEAN, Settle(current[p], status, state, socket),
           NEW l \in {"lineage", "blocking"}, l = "lineage" => status = "COMPLETED",
           pc' = [pc EXCEPT ![p] = l],
           UNCHANGED <<authState, terminals, wire, blobs, ordinal, current, prior>>
    PROVE  ProcInv'
<1> DEFINE L == Len(attempts)
<1>1. /\ \A q \in Pilots : pc'[q] = IF q = p THEN l ELSE pc[q]
      /\ l \in Executing /\ l \notin Unsettled
  BY DEF TypeOK, Executing, Labels, Unsettled
<1>2. \A q \in Pilots : pc'[q] \in Executing => q = p
  BY <1>1, OneOwner DEF ProcInv
<1>3. L \in 0..4 /\ current[p] \in 1..L
  BY OwnAttempt, TypeFacts
<1>4. current[p] = L /\ attempts[L].holder = p
  BY OwnAttempt
<1>5. /\ authState = "CONSUMED" /\ terminals = <<>>
      /\ ordinal[p] = attempts[current[p]].slice /\ attempts[current[p]].slice \in 0..2
  BY OwnAttempt
<1>6. /\ Len(attempts') = L /\ DOMAIN attempts = 1..L /\ DOMAIN attempts' = 1..L
      /\ \A i \in 1..L : i # current[p] => attempts'[i] = attempts[i]
      /\ attempts'[current[p]].slice = attempts[current[p]].slice
      /\ attempts'[current[p]].holder = attempts[current[p]].holder
      /\ attempts'[current[p]].status = status
  BY <1>3, SettleEffect
<1> HIDE DEF L
<1>7. attempts' # <<>> /\ Len(attempts') > 0
  BY <1>3, <1>6, EmptySeq
<1>8. \A i \in 1..L : attempts'[i].holder = attempts[i].holder
  BY <1>6
<1>9. Ownership'
  <2>1. \A i, j \in DOMAIN attempts' : attempts'[i].holder = attempts'[j].holder
    BY <1>6, <1>8 DEF ProcInv, Ownership
  <2>2. attempts'[L].holder = p
    BY <1>3, <1>4, <1>8
  <2>3. authState' = "CONSUMED" /\ terminals' = <<>> /\ current'[p] = L
    BY <1>4, <1>5
  <2> QED BY <1>2, <1>6, <1>7, <2>1, <2>2, <2>3 DEF Ownership
<1>10. Position'
  BY <1>1, <1>2, <1>5, <1>6 DEF Position
<1>11. PendingRows'
  <2>1. \A i \in 1..L : attempts'[i].status # "PENDING"
    BY <1>6 DEF ProcInv, PendingRows
  <2>2. l \notin {"next", "admit", "evaluate"} /\ (l = "lineage" => attempts'[current[p]].status = "COMPLETED")
    BY <1>6
  <2> QED BY <1>1, <1>2, <1>3, <1>6, <2>1, <2>2 DEF PendingRows
<1>12. Evidence'
  <2>1. {"validated", "stored", "invalid"} \subseteq Executing
    BY DEF Executing, Labels
  <2> QED BY <1>1, <1>2, <2>1 DEF Evidence
<1> QED BY <1>9, <1>10, <1>11, <1>12 DEF ProcInv

\* The last attempt is settled as a failure.
LEMMA SettleFailedInv ==
    ASSUME Inv, LimitsAssumption, NEW p \in Pilots, SettleFailed(p) PROVE Inv'
<1>1. /\ pc[p] \in {"returned", "invalid"} /\ pc[p] \in Executing /\ pc[p] # "next"
      /\ prior[p] = 0
  BY OwnAttempt DEF SettleFailed, Executing, Labels, Inv
<1>2. CASE /\ CanSettle(current[p], ResponseBytes(current[p]))
           /\ SettleFailure(current[p]) /\ Goto(p, "blocking")
  <2>1. PICK state \in {"SETTLED", "ABANDONED"}, socket \in BOOLEAN :
            /\ Settle(current[p], "BLOCKED", state, socket)
            /\ state = "ABANDONED" => wire[current[p]].kind = "no_contact" /\ ~socket
    BY <1>2 DEF SettleFailure, DemonstrablyUnstarted
  <2>2. current[p] \in 1..Len(attempts) /\ current[p] = Len(attempts) /\ terminals = <<>>
    BY <1>1, OwnAttempt DEF Inv
  <2>3. RowInv'
    <3>1. Settlement(current[p], "BLOCKED", state, socket)
      BY <1>2, <2>1, <2>2 DEF Settlement, SettleFailed
    <3> QED BY <2>2, <3>1, SettleRowInv
  <2>4. ProcInv'
    BY <1>1, <1>2, <2>1, SettleProcInv DEF SettleFailed, Goto, Inv
  <2>5. /\ attempts' \in Seq(AttemptRow) /\ consumptions' \in Seq(ConsumptionRow)
        /\ Len(attempts') = Len(attempts) /\ Len(consumptions') = Len(attempts)
    BY <2>1, <2>2, SettleEffect DEF Inv
  <2>6. TypeOK'
    BY <1>2, <2>5 DEF Inv, TypeOK, SettleFailed, Goto, Labels
  <2> QED BY <2>3, <2>4, <2>6 DEF Inv
<1>3. CASE Goto(p, "stopped") /\ UNCHANGED <<attempts, consumptions>>
  <2>1. RowInv'
    BY <1>3, RowInvUnchanged DEF Inv, SettleFailed
  <2>2. ProcInv'
    BY <1>1, <1>3, StopLast DEF Inv, SettleFailed, Goto
  <2>3. TypeOK'
    BY <1>3 DEF Inv, TypeOK, SettleFailed, Goto, Labels
  <2> QED BY <2>1, <2>2, <2>3 DEF Inv
<1> QED BY <1>2, <1>3 DEF SettleFailed

\* A validated attempt is settled with its artifact and its manifest.
LEMMA SettleCompletedInv ==
    ASSUME Inv, LimitsAssumption, NEW p \in Pilots, SettleCompleted(p) PROVE Inv'
<1>1. pc[p] = "stored" /\ pc[p] \in Executing
  BY DEF SettleCompleted, Executing, Labels
<1>2. /\ current[p] \in 1..Len(attempts) /\ current[p] = Len(attempts) /\ terminals = <<>>
      /\ current[p] \in AttemptNumbers /\ prior[p] = 0
      /\ wire[current[p]].kind = "ok" /\ wire[current[p]].body > 0 /\ current[p] \in blobs
  BY <1>1, OwnAttempt DEF Inv, ProcInv, Evidence
<1>3. CASE /\ CanSettle(current[p], ResponseBytes(current[p]))
           /\ Settle(current[p], "COMPLETED", "SETTLED", TRUE)
           /\ artifacts' = artifacts \cup {current[p]} /\ Goto(p, "lineage")
  <2>1. RowInv'
    <3>1. Settlement(current[p], "COMPLETED", "SETTLED", TRUE)
      BY <1>2, <1>3 DEF Settlement, SettleCompleted
    <3> QED BY <1>2, <3>1, SettleRowInv
  <2>2. ProcInv'
    BY <1>1, <1>2, <1>3, SettleProcInv DEF SettleCompleted, Goto, Inv
  <2>3. /\ attempts' \in Seq(AttemptRow) /\ consumptions' \in Seq(ConsumptionRow)
        /\ Len(attempts') = Len(attempts) /\ Len(consumptions') = Len(attempts)
    BY <1>2, <1>3, SettleEffect DEF Inv
  <2>4. TypeOK'
    BY <1>2, <1>3, <2>3 DEF Inv, TypeOK, SettleCompleted, Goto, Labels
  <2> QED BY <2>1, <2>2, <2>4 DEF Inv
<1>4. CASE Goto(p, "stopped") /\ UNCHANGED <<attempts, consumptions, artifacts>>
  <2>1. RowInv'
    BY <1>4, RowInvUnchanged DEF Inv, SettleCompleted
  <2>2. ProcInv'
    BY <1>1, <1>4, StopLast DEF Inv, SettleCompleted, Goto
  <2>3. TypeOK'
    BY <1>4 DEF Inv, TypeOK, SettleCompleted, Goto, Labels
  <2> QED BY <2>1, <2>2, <2>3 DEF Inv
<1> QED BY <1>3, <1>4 DEF SettleCompleted

\* The first attempt of a retried resource is settled before the retry.
LEMMA SettlePriorInv ==
    ASSUME Inv, LimitsAssumption, NEW p \in Pilots, SettlePrior(p) PROVE Inv'
<1> DEFINE L == Len(attempts)
           n == prior[p]
<1>1. pc[p] = "returned" /\ pc[p] \in Executing /\ pc[p] \in Unsettled /\ prior[p] # 0
  BY DEF SettlePrior, Executing, Labels, Unsettled
<1>2. /\ current[p] \in 1..L /\ terminals = <<>> /\ authState = "CONSUMED"
      /\ ordinal[p] = attempts[current[p]].slice /\ attempts[current[p]].slice \in 0..2
      /\ attempts[current[p]].status = "PENDING" /\ L \in 0..4
  BY <1>1, OwnAttempt, TypeFacts DEF Inv
<1>3. current[p] = L /\ attempts[L].holder = p
  BY <1>1, OwnAttempt DEF Inv
<1>4. n \in 0..4 /\ n = current[p] - 1 /\ RetryEligible(wire[n].kind)
  BY <1>1 DEF Inv, TypeOK, ProcInv, PendingRows
<1>5. n \in 1..L /\ n # L /\ n # current[p]
  <2>1. n # 0 /\ n \in 0..4 /\ n = current[p] - 1 /\ current[p] \in 1..L /\ current[p] = L /\ L \in 0..4
    BY <1>1, <1>2, <1>3, <1>4
  <2> HIDE DEF L, n
  <2> QED BY <2>1
<1>6. CASE CanSettle(n, ResponseBytes(n)) /\ SettleFailure(n) /\ prior' = [prior EXCEPT ![p] = 0]
           /\ UNCHANGED pc
  <2>1. PICK state \in {"SETTLED", "ABANDONED"}, socket \in BOOLEAN :
            /\ Settle(n, "BLOCKED", state, socket)
            /\ state = "ABANDONED" => wire[n].kind = "no_contact" /\ ~socket
    BY <1>6 DEF SettleFailure, DemonstrablyUnstarted
  <2>2. RowInv'
    <3>1. Settlement(n, "BLOCKED", state, socket)
      BY <1>2, <1>4, <1>5, <1>6, <2>1 DEF Settlement, SettlePrior
    <3> QED BY <1>5, <3>1, SettleRowInv
  <2>3. /\ attempts' \in Seq(AttemptRow) /\ consumptions' \in Seq(ConsumptionRow)
        /\ Len(attempts') = Len(attempts) /\ Len(consumptions') = Len(attempts)
    BY <1>5, <2>1, SettleEffect DEF Inv
  <2>4. TypeOK'
    BY <1>6, <2>3 DEF Inv, TypeOK, SettlePrior
  <2>5. /\ Len(attempts') = L /\ DOMAIN attempts = 1..L /\ DOMAIN attempts' = 1..L
        /\ \A i \in 1..L : i # n => attempts'[i] = attempts[i]
        /\ attempts'[n].holder = attempts[n].holder /\ attempts'[n].status = "BLOCKED"
    BY <1>5, <2>1, SettleEffect DEF Inv
  <2>6. \A q \in Pilots : pc'[q] \in Executing => q = p
    BY <1>1, <1>6, OneOwner DEF Inv, ProcInv
  <2> HIDE DEF L
  <2>7. prior'[p] = 0 /\ pc'[p] = pc[p] /\ attempts'[L] = attempts[L] /\ attempts' # <<>>
    BY <1>2, <1>3, <1>5, <1>6, <2>5, EmptySeq DEF Inv, TypeOK
  <2>8. Ownership'
    <3>1. \A i, j \in DOMAIN attempts' : attempts'[i].holder = attempts'[j].holder
      BY <1>5, <2>5 DEF Inv, ProcInv, Ownership
    <3>2. current'[p] = L /\ L > 0 /\ authState' = "CONSUMED" /\ terminals' = <<>>
      BY <1>2, <1>3 DEF SettlePrior
    <3> QED BY <1>3, <2>5, <2>6, <2>7, <3>1, <3>2 DEF Ownership
  <2>9. Position'
    BY <1>1, <1>2, <1>3, <2>6, <2>7 DEF Position, SettlePrior
  <2>10. PendingRows'
    <3>1. \A i \in 1..L : attempts[i].status = "PENDING" => i = current[p] \/ i = n
      BY <1>1, <2>5 DEF Inv, ProcInv, PendingRows
    <3>2. \A i \in 1..L : attempts'[i].status = "PENDING" => i = current[p]
      BY <2>5, <3>1
    <3>3. attempts'[current[p]].status = "PENDING" /\ current' = current
      BY <1>2, <1>3, <2>7 DEF SettlePrior
    <3> QED BY <1>1, <2>5, <2>6, <2>7, <3>2, <3>3 DEF PendingRows
  <2>11. Evidence'
    BY <1>6 DEF Inv, ProcInv, Evidence, SettlePrior
  <2> QED BY <2>2, <2>4, <2>8, <2>9, <2>10, <2>11 DEF Inv, ProcInv
<1>7. CASE Goto(p, "stopped") /\ UNCHANGED <<attempts, consumptions, prior>>
  <2>1. RowInv'
    BY <1>7, RowInvUnchanged DEF Inv, SettlePrior
  <2>2. ProcInv'
    BY <1>1, <1>7, StopLast DEF Inv, SettlePrior, Goto
  <2>3. TypeOK'
    BY <1>7 DEF Inv, TypeOK, SettlePrior, Goto, Labels
  <2> QED BY <2>1, <2>2, <2>3 DEF Inv
<1> QED BY <1>6, <1>7 DEF SettlePrior

-----------------------------------------------------------------------------
(* Reservation *)

\* The three occasions on which an attempt is reserved: the start of the run,
\* a retry of the unsettled attempt, the resource after a completed one.
Occasion(slice, kind) ==
    \/ Len(attempts) = 0 /\ slice = 0 /\ kind = "INITIAL"
    \/ /\ Len(attempts) > 0 /\ kind = "RETRY" /\ slice = attempts[Len(attempts)].slice
       /\ attempts[Len(attempts)].status = "PENDING"
    \/ /\ Len(attempts) > 0 /\ kind = "INITIAL" /\ slice = attempts[Len(attempts)].slice + 1
       /\ attempts[Len(attempts)].status = "COMPLETED"

\* Reserving an attempt on one of those occasions keeps the row invariants.
LEMMA ReserveRowInv ==
    ASSUME Inv, LimitsAssumption, NEW p \in Pilots, NEW slice \in Slices,
           NEW kind \in {"INITIAL", "RETRY"}, NEW number,
           CanReserve(slice, number, kind), Reserve(p, slice, kind),
           terminals = <<>>, terminals' = <<>>, Occasion(slice, kind),
           UNCHANGED <<wire, blobs, artifacts>>
    PROVE  RowInv'
<1> DEFINE L == Len(attempts)
           n == L + 1
<1>1. /\ L \in 0..3 /\ DOMAIN attempts = 1..L
      /\ \A i \in 1..L : attempts[i].slice \in 0..2
  <2>1. L < 4
    BY DEF CanReserve
  <2>2. /\ L \in 0..4 /\ DOMAIN attempts = 1..L
        /\ \A i \in 1..L : attempts[i] \in AttemptRow
    BY TypeFacts DEF Inv
  <2> HIDE DEF L
  <2> QED BY <2>1, <2>2 DEF AttemptRow, Slices
<1>2. /\ Len(attempts') = n /\ DOMAIN attempts' = 1..n
      /\ \A i \in 1..L : attempts'[i] = attempts[i] /\ consumptions'[i] = consumptions[i]
      /\ attempts'[n] = [slice |-> slice, kind |-> kind, status |-> "PENDING",
                         bytes |-> 0, code |-> "none", holder |-> p]
      /\ consumptions'[n] = [state |-> "RESERVED", actual |-> 0, socket |-> FALSE]
  BY <1>1, ReserveEffect DEF Inv, CanReserve
<1>3. \/ L = 0 /\ slice = 0 /\ kind = "INITIAL"
      \/ L > 0 /\ kind = "RETRY" /\ slice = attempts[L].slice /\ attempts[L].status = "PENDING"
      \/ L > 0 /\ kind = "INITIAL" /\ slice = attempts[L].slice + 1 /\ attempts[L].status = "COMPLETED"
  BY DEF Occasion
<1>4. kind = "RETRY" => ~RetryUsed
  BY DEF CanReserve
<1>5. DOMAIN consumptions = 1..L /\ DOMAIN consumptions' = 1..n
  BY <1>1, TypeFacts, ReserveEffect, LenProperties DEF Inv, CanReserve
<1> HIDE DEF L
<1>6. slice \in 0..2 /\ \A i \in 1..n : i \in 1..L \/ i = n
  BY <1>1 DEF Slices
<1>7. /\ attempts'[n].slice = slice /\ attempts'[n].kind = kind /\ attempts'[n].status = "PENDING"
      /\ attempts'[n].bytes = 0 /\ attempts'[n].code = "none"
      /\ consumptions'[n].state = "RESERVED" /\ consumptions'[n].actual = 0
  BY <1>2
<1>8. Rows'
  BY <1>1, <1>2, <1>6, <1>7 DEF Inv, RowInv, Rows
<1>9. PlanOrder'
  <2>1. \A i, j \in 1..L : i < j => /\ attempts[i].slice <= attempts[j].slice
                                    /\ attempts[i].status = "COMPLETED" =>
                                           attempts[i].slice < attempts[j].slice
    BY <1>1 DEF Inv, RowInv, PlanOrder
  <2>2. \A i \in 1..L : /\ attempts[i].slice <= slice
                        /\ attempts[i].status = "COMPLETED" => attempts[i].slice < slice
    <3> SUFFICES ASSUME NEW i \in 1..L
                 PROVE  /\ attempts[i].slice <= slice
                        /\ attempts[i].status = "COMPLETED" => attempts[i].slice < slice
      OBVIOUS
    <3>1. L \in 1..L /\ i \in 1..L /\ (i < L \/ i = L) /\ attempts[i].slice \in 0..2
          /\ attempts[L].slice \in 0..2
      BY <1>1
    <3>2. i < L => /\ attempts[i].slice <= attempts[L].slice
                   /\ attempts[i].status = "COMPLETED" => attempts[i].slice < attempts[L].slice
      BY <2>1, <3>1
    <3> QED BY <1>3, <1>6, <3>1, <3>2
  <2>3. \A i \in 1..n : ~(n < i)
    BY <1>1
  <2> QED BY <1>2, <1>6, <1>7, <2>1, <2>2, <2>3 DEF PlanOrder
<1>10. RetryBudget'
  <2>1. \A i \in 1..L : i # 1 => i - 1 \in 1..L
    BY <1>1
  <2>2. \A i \in 1..L : attempts[i].kind = "RETRY" => kind # "RETRY"
    <3> SUFFICES ASSUME NEW i \in 1..L, attempts[i].kind = "RETRY" PROVE RetryUsed
      BY <1>4
    <3>1. i # 1 /\ attempts[i].slice = attempts[i - 1].slice + 0
      BY <1>1 DEF Inv, RowInv, RetryBudget
    <3>2. i - 1 \in 1..L /\ i - 1 < i /\ attempts[i].slice = attempts[i - 1].slice
      BY <1>1, <2>1, <3>1
    <3> QED BY <1>1, <3>2 DEF RetryUsed
  <2>3. \A i, j \in 1..n : attempts'[i].kind = "RETRY" /\ attempts'[j].kind = "RETRY" => i = j
    BY <1>1, <1>2, <1>6, <1>7, <2>2 DEF Inv, RowInv, RetryBudget
  <2>4. \A i \in 1..L : IF i = 1
                        THEN attempts'[1].slice = 0 /\ attempts'[1].kind = "INITIAL"
                        ELSE attempts'[i].slice = attempts'[i - 1].slice
                                 + (IF attempts'[i].kind = "RETRY" THEN 0 ELSE 1)
    BY <1>1, <1>2, <2>1 DEF Inv, RowInv, RetryBudget
  <2>5. IF n = 1
        THEN attempts'[1].slice = 0 /\ attempts'[1].kind = "INITIAL"
        ELSE attempts'[n].slice = attempts'[n - 1].slice
                 + (IF attempts'[n].kind = "RETRY" THEN 0 ELSE 1)
    <3>1. CASE L = 0
      BY <1>3, <1>7, <3>1
    <3>2. CASE L > 0
      <4>1. n # 1 /\ n - 1 = L /\ L \in 1..L /\ attempts'[L] = attempts[L] /\ attempts[L].slice \in 0..2
        BY <1>1, <1>2, <3>2
      <4> QED BY <1>3, <1>7, <3>2, <4>1
    <3> QED BY <1>1, <3>1, <3>2
  <2> HIDE DEF n
  <2> QED BY <1>2, <1>6, <2>3, <2>4, <2>5 DEF RetryBudget
<1>11. ResourceOrder'
  <2>1. \A i \in 1..L : attempts[i].slice > 0 =>
            \E j \in 1..(i - 1) : /\ attempts[j].slice = attempts[i].slice - 1
                                  /\ attempts[j].status = "COMPLETED"
    BY <1>1 DEF Inv, RowInv, ResourceOrder
  <2>2. ASSUME slice > 0
        PROVE  \E j \in 1..L : attempts[j].slice = slice - 1 /\ attempts[j].status = "COMPLETED"
    <3>1. L \in 1..L /\ attempts[L].slice \in 0..2
      BY <1>1, <1>3, <2>2
    <3>2. CASE slice = attempts[L].slice + 1 /\ attempts[L].status = "COMPLETED"
      BY <3>1, <3>2
    <3>3. CASE slice = attempts[L].slice
      <4>1. PICK j \in 1..(L - 1) : attempts[j].slice = slice - 1 /\ attempts[j].status = "COMPLETED"
        BY <2>1, <2>2, <3>1, <3>3
      <4>2. j \in 1..L
        BY <1>1
      <4> QED BY <4>1, <4>2
    <3> QED BY <1>3, <2>2, <3>2, <3>3
  <2>3. \A i \in 1..L : 1..(i - 1) \subseteq 1..L
    BY <1>1
  <2>4. n - 1 = L
    BY <1>1
  <2> SUFFICES ASSUME NEW i \in 1..n, attempts'[i].slice > 0
               PROVE  \E j \in 1..(i - 1) : /\ attempts'[j].slice = attempts'[i].slice - 1
                                            /\ attempts'[j].status = "COMPLETED"
    BY <1>2 DEF ResourceOrder
  <2>5. CASE i \in 1..L
    <3>1. attempts'[i] = attempts[i]
      BY <1>2, <2>5
    <3>2. PICK j \in 1..(i - 1) : /\ attempts[j].slice = attempts[i].slice - 1
                                  /\ attempts[j].status = "COMPLETED"
      BY <2>1, <2>5, <3>1
    <3>3. attempts'[j] = attempts[j]
      BY <1>2, <2>3, <2>5
    <3> QED BY <3>1, <3>2, <3>3
  <2>6. CASE i = n
    <3>1. slice > 0
      BY <1>7, <2>6
    <3>2. PICK j \in 1..L : attempts[j].slice = slice - 1 /\ attempts[j].status = "COMPLETED"
      BY <2>2, <3>1
    <3>3. j \in 1..(i - 1) /\ attempts'[j] = attempts[j]
      BY <1>2, <2>4, <2>6
    <3> QED BY <1>7, <2>6, <3>2, <3>3
  <2> QED BY <1>6, <2>5, <2>6
<1>12. NoRetryAfterAbort'
  <2>1. \A i \in 1..L : attempts[i].code \in {"too_many", "refused"} => i = L
    BY <1>1 DEF Inv, RowInv, NoRetryAfterAbort, L
  <2>2. L > 0 => attempts[L].code \notin {"too_many", "refused"}
    <3>1. L > 0 => L \in 1..L
      BY <1>1
    <3> QED BY <1>1, <1>3, <3>1 DEF Inv, RowInv, Rows
  <2>3. \A i \in 1..n : attempts'[i].code \notin {"too_many", "refused"}
    <3>1. \A i \in 1..L : attempts'[i].code \notin {"too_many", "refused"}
      <4> SUFFICES ASSUME NEW i \in 1..L PROVE attempts'[i].code \notin {"too_many", "refused"}
        OBVIOUS
      <4>1. attempts'[i] = attempts[i] /\ (i = L => L > 0)
        BY <1>1, <1>2
      <4> QED BY <2>1, <2>2, <4>1
    <3> HIDE DEF n
    <3> QED BY <1>6, <1>7, <3>1
  <2> QED BY <1>2, <2>3 DEF NoRetryAfterAbort
<1>13. ByteBudget'
  <2>1. \A i : Charge(i)' = Charge(i)
    BY <1>1, <1>2, <1>5, <1>6, <1>7 DEF Charge
  <2> QED BY <2>1 DEF Inv, RowInv, ByteBudget, ConsumedBytes
<1>14. LedgersAgree'
  <2>1. \A i \in 1..L : attempts'[i] = attempts[i] /\ consumptions'[i] = consumptions[i]
    BY <1>2
  <2> HIDE DEF n
  <2> QED BY <1>1, <1>2, <1>6, <1>7, <2>1 DEF Inv, RowInv, LedgersAgree
<1>15. LineageDurable'
  BY <1>1, <1>2 DEF Inv, RowInv, LineageDurable
<1>16. TerminalSound'
  BY DEF TerminalSound
<1> QED BY <1>8, <1>9, <1>10, <1>11, <1>12, <1>13, <1>14, <1>15, <1>16 DEF RowInv

\* The facts about processes after p has reserved an attempt: no other process
\* executes, and p holds the new, last row.
LEMMA ReserveProcInv ==
    ASSUME TypeOK, ProcInv, NEW p \in Pilots, NEW slice \in Slices,
           NEW kind \in {"INITIAL", "RETRY"}, NEW l \in {"transport", "resend"},
           Len(attempts) < 4, Reserve(p, slice, kind),
           \A q \in Pilots : pc[q] \in Executing => q = p,
           \A i \in DOMAIN attempts : attempts[i].holder = p,
           \A i \in DOMAIN attempts :
               attempts[i].status = "PENDING" => prior'[p] # 0 /\ i = prior'[p],
           prior'[p] # 0 => /\ l = "resend" /\ prior'[p] = Len(attempts) /\ Len(attempts) > 0
                            /\ attempts[Len(attempts)].status = "PENDING"
                            /\ RetryEligible(wire[Len(attempts)].kind),
           pc' = [pc EXCEPT ![p] = l], current'[p] = Len(attempts) + 1, ordinal'[p] = slice,
           authState' = "CONSUMED", terminals' = <<>>, UNCHANGED wire
    PROVE  ProcInv'
<1> DEFINE L == Len(attempts)
           n == L + 1
<1>1. L \in 0..3 /\ DOMAIN attempts = 1..L
  BY TypeFacts
<1>2. /\ Len(attempts') = n /\ DOMAIN attempts' = 1..n
      /\ \A i \in 1..L : attempts'[i] = attempts[i]
      /\ attempts'[n] = [slice |-> slice, kind |-> kind, status |-> "PENDING",
                         bytes |-> 0, code |-> "none", holder |-> p]
  BY <1>1, ReserveEffect
<1>3. /\ prior'[p] # 0 => /\ l = "resend" /\ prior'[p] = L /\ L > 0
                          /\ attempts[L].status = "PENDING" /\ RetryEligible(wire[L].kind)
      /\ current'[p] = n
  OBVIOUS
<1> HIDE DEF L
<1>4. attempts'[n].slice = slice /\ attempts'[n].status = "PENDING" /\ attempts'[n].holder = p
  BY <1>2
<1>5. /\ \A q \in Pilots : pc'[q] = IF q = p THEN l ELSE pc[q]
      /\ l \in Executing /\ l \in Unsettled
  BY DEF TypeOK, Executing, Labels, Unsettled
<1>6. \A q \in Pilots : pc'[q] \in Executing => q = p
  BY <1>5
<1>7. attempts' # <<>> /\ n > 0 /\ n - 1 = L /\ slice \in 0..2
      /\ \A i \in 1..n : i \in 1..L \/ i = n
  BY <1>1, <1>2, EmptySeq DEF Slices
<1>8. Ownership'
  <2>1. \A i \in 1..n : attempts'[i].holder = p
    BY <1>1, <1>2, <1>4, <1>7
  <2> QED BY <1>2, <1>3, <1>4, <1>6, <1>7, <2>1 DEF Ownership
<1>9. Position'
  BY <1>3, <1>4, <1>5, <1>6, <1>7 DEF Position
<1>10. PendingRows'
  <2>1. \A i \in 1..n : attempts'[i].status = "PENDING" => i = n \/ (prior'[p] # 0 /\ i = prior'[p])
    BY <1>1, <1>2, <1>7
  <2>2. prior'[p] # 0 => L \in 1..L /\ attempts'[L].status = "PENDING"
    BY <1>1, <1>2, <1>3
  <2>3. prior'[p] # 0 => /\ l \in {"resend", "returned"} /\ prior'[p] = n - 1
                         /\ attempts'[prior'[p]].status = "PENDING"
                         /\ RetryEligible(wire'[prior'[p]].kind)
    BY <1>3, <1>7, <2>2
  <2>4. l \notin {"lineage", "next", "admit", "evaluate"}
    OBVIOUS
  <2> HIDE DEF n
  <2> QED BY <1>2, <1>3, <1>4, <1>5, <1>6, <2>1, <2>3, <2>4 DEF PendingRows, RetryEligible
<1>11. Evidence'
  <2>1. {"validated", "stored", "invalid"} \subseteq Executing
    BY DEF Executing, Labels
  <2> QED BY <1>5, <1>6, <2>1 DEF Evidence
<1> QED BY <1>8, <1>9, <1>10, <1>11 DEF ProcInv

\* The types after a reservation.
LEMMA ReserveTypeOK ==
    ASSUME TypeOK, NEW p \in Pilots, NEW slice \in Slices, NEW kind \in {"INITIAL", "RETRY"},
           Len(attempts) < 4, Reserve(p, slice, kind)
    PROVE  /\ attempts' \in Seq(AttemptRow) /\ Len(attempts') <= 4
           /\ consumptions' \in Seq(ConsumptionRow) /\ Len(consumptions') = Len(attempts')
           /\ Len(attempts) + 1 \in 0..4
<1>1. Len(attempts) + 1 \in 0..4
  BY TypeFacts
<1>2. /\ attempts' \in Seq(AttemptRow) /\ consumptions' \in Seq(ConsumptionRow)
      /\ Len(attempts') = Len(attempts) + 1 /\ Len(consumptions') = Len(attempts) + 1
  BY ReserveEffect
<1>3. Len(attempts') <= 4 /\ Len(consumptions') = Len(attempts')
  BY <1>1, <1>2
<1> QED BY <1>1, <1>2, <1>3

\* At most one process passes start_execution: the transaction consumes the
\* authorization, and a second start finds it CONSUMED.
LEMMA StartExecutionInv ==
    ASSUME Inv, Fresh, LimitsAssumption, NEW p \in Pilots, StartExecution(p) PROVE Inv'
<1>1. pc[p] = "authorized" /\ 0 \in Slices
  BY DEF StartExecution, Slices
<1>2. CASE /\ CanStart(p) /\ approvals' = [approvals EXCEPT ![approval[p]] = "CONSUMED"]
           /\ authState' = "CONSUMED" /\ Reserve(p, 0, "INITIAL")
           /\ ordinal' = [ordinal EXCEPT ![p] = 0]
           /\ current' = [current EXCEPT ![p] = Len(attempts) + 1] /\ Goto(p, "transport")
  <2>1. authState = "ACTIVE" /\ CanReserve(0, 1, "INITIAL")
    BY <1>2 DEF CanStart
  <2>2. /\ attempts = <<>> /\ terminals = <<>> /\ \A q \in Pilots : pc[q] \notin Executing
    BY <2>1 DEF Inv, ProcInv, Ownership
  <2>3. Len(attempts) = 0 /\ DOMAIN attempts = {} /\ Len(attempts) < 4
    BY <2>2
  <2>4. RowInv'
    BY <1>1, <1>2, <2>1, <2>2, <2>3, ReserveRowInv DEF Occasion, StartExecution
  <2>5. TypeOK'
    BY <1>1, <1>2, <2>3, ReserveTypeOK DEF Inv, TypeOK, StartExecution, Goto, AuthStates, Labels
  <2>6. ProcInv'
    <3>1. prior'[p] = 0
      BY <1>1 DEF Fresh, StartExecution
    <3>2. current'[p] = Len(attempts) + 1 /\ ordinal'[p] = 0
      BY <1>2 DEF Inv, TypeOK
    <3>3. pc' = [pc EXCEPT ![p] = "transport"] /\ terminals' = <<>> /\ wire' = wire
      BY <1>2, <2>2 DEF StartExecution, Goto
    <3> QED BY <1>1, <1>2, <2>2, <2>3, <3>1, <3>2, <3>3, ReserveProcInv DEF Inv
  <2> QED BY <2>4, <2>5, <2>6 DEF Inv
<1>3. CASE Goto(p, "stopped") /\ UNCHANGED <<authState, approvals, attempts, consumptions, ordinal, current>>
  <2>1. "stopped" \in Labels \ Executing
    BY DEF Labels, Executing
  <2>2. RowInv'
    BY <1>3, RowInvUnchanged DEF Inv, StartExecution
  <2>3. ProcInv'
    BY <1>3, <2>1, StopSafe DEF Inv, StartExecution, Goto
  <2>4. TypeOK'
    BY <1>3, <2>1 DEF Inv, TypeOK, StartExecution, Goto
  <2> QED BY <2>2, <2>3, <2>4 DEF Inv
<1> QED BY <1>2, <1>3 DEF StartExecution

\* What an executing process knows when it asks for another attempt.
LEMMA OwnRun ==
    ASSUME Inv, NEW p \in Pilots, pc[p] \in Executing
    PROVE  /\ \A q \in Pilots : pc[q] \in Executing => q = p
           /\ \A i \in DOMAIN attempts : attempts[i].holder = p
           /\ Len(attempts) > 0
<1>1. \A q \in Pilots : pc[q] \in Executing => q = p
  BY OneOwner DEF Inv, ProcInv
<1>2. Len(attempts) \in DOMAIN attempts /\ Len(attempts) > 0
  BY TypeFacts DEF Inv, ProcInv, Ownership
<1> QED BY <1>1, <1>2 DEF Inv, ProcInv, Ownership

\* The next resource is reserved after the one before it is completed.
LEMMA ReserveNextInv ==
    ASSUME Inv, LimitsAssumption, NEW p \in Pilots, ReserveNext(p) PROVE Inv'
<1>1. pc[p] = "next" /\ pc[p] \in Executing /\ pc[p] \notin Unsettled
  BY DEF ReserveNext, Executing, Labels, Unsettled
<1>2. /\ ordinal[p] = attempts[current[p]].slice + 1 /\ ordinal[p] \in Slices
      /\ attempts[current[p]].status = "COMPLETED" /\ prior[p] = 0
      /\ authState = "CONSUMED" /\ terminals = <<>>
  BY <1>1, OwnAttempt DEF Inv, TypeOK, ProcInv, PendingRows
<1>3. current[p] = Len(attempts)
  BY <1>1, OwnAttempt DEF Inv
<1>4. /\ \A q \in Pilots : pc[q] \in Executing => q = p
      /\ \A i \in DOMAIN attempts : attempts[i].holder = p
      /\ Len(attempts) > 0
  BY <1>1, OwnRun
<1>5. \A i \in DOMAIN attempts : attempts[i].status # "PENDING"
  BY <1>1, <1>2 DEF Inv, ProcInv, PendingRows
<1>6. CASE /\ CanReserve(ordinal[p], current[p] + 1, "INITIAL") /\ Reserve(p, ordinal[p], "INITIAL")
           /\ current' = [current EXCEPT ![p] = @ + 1] /\ Goto(p, "transport")
  <2>1. Len(attempts) < 4
    BY <1>6 DEF CanReserve
  <2>2. Occasion(ordinal[p], "INITIAL")
    BY <1>2, <1>3, <1>4 DEF Occasion
  <2>3. RowInv'
    BY <1>2, <1>6, <2>2, ReserveRowInv DEF ReserveNext
  <2>4. current'[p] = Len(attempts) + 1
    BY <1>3, <1>6 DEF Inv, TypeOK
  <2>5. Len(attempts) + 1 \in 0..4 /\ current[p] + 1 = Len(attempts) + 1
    BY <1>2, <1>3, <1>6, <2>1, ReserveTypeOK DEF Inv
  <2>6. TypeOK'
    BY <1>2, <1>6, <2>1, <2>5, ReserveTypeOK DEF Inv, TypeOK, ReserveNext, Goto, Labels
  <2>7. ProcInv'
    BY <1>2, <1>4, <1>5, <1>6, <2>1, <2>4, ReserveProcInv DEF Inv, ReserveNext, Goto
  <2> QED BY <2>3, <2>6, <2>7 DEF Inv
<1>7. CASE Goto(p, "stopped") /\ UNCHANGED <<attempts, consumptions, current>>
  <2>1. RowInv'
    BY <1>7, RowInvUnchanged DEF Inv, ReserveNext
  <2>2. ProcInv'
    BY <1>1, <1>7, StopLast DEF Inv, ReserveNext, Goto
  <2>3. TypeOK'
    BY <1>7 DEF Inv, TypeOK, ReserveNext, Goto, Labels
  <2> QED BY <2>1, <2>2, <2>3 DEF Inv
<1> QED BY <1>6, <1>7 DEF ReserveNext

\* A retry is reserved for the slice of the attempt that failed.
LEMMA ClassifyInv ==
    ASSUME Inv, LimitsAssumption, NEW p \in Pilots, Classify(p) PROVE Inv'
<1>1. pc[p] = "classify" /\ pc[p] \in Executing /\ pc[p] \in Unsettled
  BY DEF Classify, Executing, Labels, Unsettled
<1>2. /\ ordinal[p] = attempts[current[p]].slice /\ ordinal[p] \in Slices
      /\ attempts[current[p]].slice \in 0..2
      /\ attempts[current[p]].status = "PENDING" /\ prior[p] = 0
      /\ authState = "CONSUMED" /\ terminals = <<>>
  BY <1>1, OwnAttempt DEF Inv, TypeOK
<1>3. current[p] = Len(attempts)
  BY <1>1, OwnAttempt DEF Inv
<1>4. /\ \A q \in Pilots : pc[q] \in Executing => q = p
      /\ \A i \in DOMAIN attempts : attempts[i].holder = p
      /\ Len(attempts) > 0
  BY <1>1, OwnRun
<1>5. \A i \in DOMAIN attempts : attempts[i].status = "PENDING" => i = current[p]
  BY <1>1, <1>2 DEF Inv, ProcInv, PendingRows
<1>6. CASE /\ RetryEligible(wire[current[p]].kind)
           /\ CanReserve(ordinal[p], current[p] + 1, "RETRY") /\ Reserve(p, ordinal[p], "RETRY")
           /\ prior' = [prior EXCEPT ![p] = current[p]]
           /\ current' = [current EXCEPT ![p] = @ + 1] /\ Goto(p, "resend")
  <2>1. Len(attempts) < 4
    BY <1>6 DEF CanReserve
  <2>2. Occasion(ordinal[p], "RETRY")
    BY <1>2, <1>3, <1>4 DEF Occasion
  <2>3. RowInv'
    BY <1>2, <1>6, <2>2, ReserveRowInv DEF Classify
  <2>4. current'[p] = Len(attempts) + 1 /\ prior'[p] = Len(attempts)
    BY <1>3, <1>6 DEF Inv, TypeOK
  <2>5. Len(attempts) + 1 \in 0..4 /\ current[p] + 1 = Len(attempts) + 1
    BY <1>2, <1>3, <1>6, <2>1, ReserveTypeOK DEF Inv
  <2>6. TypeOK'
    BY <1>2, <1>6, <2>1, <2>5, ReserveTypeOK DEF Inv, TypeOK, Classify, Goto, Labels
  <2>7. /\ \A i \in DOMAIN attempts :
               attempts[i].status = "PENDING" => prior'[p] # 0 /\ i = prior'[p]
        /\ attempts[Len(attempts)].status = "PENDING" /\ RetryEligible(wire[Len(attempts)].kind)
    BY <1>2, <1>3, <1>4, <1>5, <1>6, <2>4
  <2>8. ProcInv'
    BY <1>2, <1>4, <1>6, <2>1, <2>4, <2>7, ReserveProcInv DEF Inv, Classify, Goto
  <2> QED BY <2>3, <2>6, <2>8 DEF Inv
<1>7. CASE Goto(p, "returned") /\ UNCHANGED <<attempts, consumptions, prior, current>>
  <2>1. RowInv'
    BY <1>7, RowInvUnchanged DEF Inv, Classify
  <2>2. "returned" \in Executing /\ "returned" \in Unsettled /\ "returned" \in Labels
    BY DEF Executing, Labels, Unsettled
  <2>3. ordinal'[p] = attempts[current[p]].slice + (IF "returned" = "next" THEN 1 ELSE 0)
    BY <1>2 DEF Classify
  <2>4. ProcInv'
    BY <1>1, <1>7, <2>2, <2>3, MoveSafe DEF Inv, Classify, Goto
  <2>5. TypeOK'
    BY <1>7, <2>2 DEF Inv, TypeOK, Classify, Goto
  <2> QED BY <2>1, <2>4, <2>5 DEF Inv
<1> QED BY <1>6, <1>7 DEF Classify

-----------------------------------------------------------------------------
(* The inductive invariant *)

\* A process that has not started holds no attempt that still has to be settled.
LEMMA FreshInv == ASSUME TypeOK, Fresh, [Next]_vars PROVE Fresh'
<1>1. CASE UNCHANGED <<pc, prior>>
  BY <1>1 DEF Fresh
<1>2. ASSUME NEW p \in Pilots,
             \/ /\ pc' = [pc EXCEPT ![p] = "idle"] /\ prior' = [prior EXCEPT ![p] = 0]
             \/ \E l \in Labels \ {"idle", "authorized"} :
                   /\ pc' = [pc EXCEPT ![p] = l]
                   /\ prior' = prior \/ \E v : prior' = [prior EXCEPT ![p] = v]
             \/ pc' = pc /\ pc[p] = "returned" /\ prior' = [prior EXCEPT ![p] = 0]
             \/ \E l \in Labels : pc[p] = "idle" /\ pc' = [pc EXCEPT ![p] = l] /\ prior' = prior
      PROVE  Fresh'
  BY <1>2 DEF TypeOK, Fresh
<1>3. CASE AppendEvent \/ Tick \/ UNCHANGED vars
  BY <1>1, <1>3 DEF AppendEvent, Tick, vars, proc
<1>4. ASSUME NEW p \in Pilots, Step(p) PROVE Fresh'
  <2>1. CASE Authorize(p)
    BY <1>2, <2>1 DEF Authorize, Goto, Labels
  <2>2. CASE StartExecution(p)
    BY <1>2, <2>2 DEF StartExecution, Goto, Labels
  <2>3. CASE ContactFails(p) \/ Send(p) \/ Validate(p) \/ WriteBlob(p)
    BY <1>2, <2>3 DEF ContactFails, Send, Validate, WriteBlob, Goto, Labels
  <2>4. CASE Classify(p)
    BY <1>2, <2>4 DEF Classify, Goto, Labels
  <2>5. CASE SettlePrior(p)
    BY <1>2, <2>5 DEF SettlePrior, Goto, Labels
  <2>6. CASE SettleFailed(p) \/ SettleCompleted(p) \/ ReserveNext(p)
    BY <1>2, <2>6 DEF SettleFailed, SettleCompleted, ReserveNext, Goto, Labels
  <2>7. CASE CheckLineage(p) \/ AdmitDocument(p) \/ BlockResource(p) \/ Evaluate(p) \/ Crash(p)
    BY <1>2, <2>7 DEF CheckLineage, AdmitDocument, BlockResource, Evaluate, Crash, Goto, Labels
  <2>8. CASE Restart(p)
    BY <1>2, <2>8 DEF Restart, Goto
  <2> QED BY <1>4, <2>1, <2>2, <2>3, <2>4, <2>5, <2>6, <2>7, <2>8 DEF Step
<1> QED BY <1>3, <1>4 DEF Next

\* Every step of the pilot keeps the invariant.
LEMMA NextInv == ASSUME Inv, Fresh, LimitsAssumption, [Next]_vars PROVE Inv'
<1>1. CASE UNCHANGED vars
  <2>1. RowInv'
    BY <1>1, RowInvUnchanged DEF Inv, vars, db
  <2> QED BY <1>1, <2>1 DEF vars, db, proc, Inv, TypeOK, ProcInv, Ownership, Position, PendingRows,
             Evidence
<1>2. CASE AppendEvent
  BY <1>2, AppendEventInv
<1>3. CASE Tick
  BY <1>3, TickInv
<1>4. ASSUME NEW p \in Pilots, Step(p) PROVE Inv'
  BY <1>4, AuthorizeInv, StartExecutionInv, ContactFailsInv, SendInv, ClassifyInv, SettlePriorInv,
     ValidateInv, SettleFailedInv, WriteBlobInv, SettleCompletedInv, CheckLineageInv,
     ReserveNextInv, AdmitDocumentInv, BlockResourceInv, EvaluateInv, CrashInv, RestartInv
     DEF Step
<1> QED BY <1>1, <1>2, <1>3, <1>4 DEF Next

\* Inv, with Fresh, is an invariant of the pilot for all its parameters.
THEOREM Invariance == Spec => [](Inv /\ Fresh)
<1>1. Init => Inv /\ Fresh
  BY InitInv, LimitsAssumption DEF Init, Fresh
<1>2. Inv /\ Fresh /\ [Next]_vars => (Inv /\ Fresh)'
  BY NextInv, FreshInv, LimitsAssumption DEF Inv
<1> QED BY <1>1, <1>2, PTL DEF Spec

\* Every row of the tables and every variable of a process keeps its type.
THEOREM TypeCorrect == Spec => []TypeOK
<1>1. Inv => TypeOK
  BY DEF Inv
<1> QED BY <1>1, Invariance, PTL

\* Whatever number of processes race for the grant, with whatever approvals,
\* crashes and restarts, one of them at most is executing, and every attempt
\* is its own.
THEOREM OneExecution == Spec => []SingleExecution
<1>1. Inv => SingleExecution
  BY OneOwner DEF Inv, ProcInv, Ownership, SingleExecution
<1> QED BY <1>1, Invariance, PTL

\* One retry in the whole plan, of the slice just attempted, and none after a
\* permanent refusal.
THEOREM RetriesBounded == Spec => []RetryLawful
<1>1. Inv => RetryLawful
  BY DEF Inv, RowInv, RetryLawful
<1> QED BY <1>1, Invariance, PTL

\* A resource is requested only after the one it depends on.
THEOREM PlanFollowed == Spec => []ResourceOrder
<1>1. Inv => ResourceOrder
  BY DEF Inv, RowInv
<1> QED BY <1>1, Invariance, PTL

\* The ledgers of attempts and of consumption agree, and what they charge is
\* within the byte budget, for every limit and body size.
THEOREM RecordsSound == Spec => []LedgersBalanced
<1>1. Inv => LedgersBalanced
  BY DEF Inv, RowInv, LedgersBalanced
<1> QED BY <1>1, Invariance, PTL

\* An artifact that is recorded has a stored body.
THEOREM ArtifactsStored == Spec => []LineageDurable
<1>1. Inv => LineageDurable
  BY DEF Inv, RowInv
<1> QED BY <1>1, Invariance, PTL

\* A terminal event describes a finished run.
THEOREM EndDescribed == Spec => []TerminalSound
<1>1. Inv => TerminalSound
  BY DEF Inv, RowInv
<1> QED BY <1>1, Invariance, PTL

-----------------------------------------------------------------------------
(* What a step may do to the rows *)

RowsKept == UNCHANGED <<attempts, consumptions, terminals, authState>>

OperatorEvent ==
    /\ UNCHANGED <<attempts, consumptions, terminals>>
    /\ authState \in {"DRAFT", "APPROVED", "ACTIVE"} /\ authState' \in AuthStates \ {"CONSUMED"}

Reserves ==
    /\ UNCHANGED terminals /\ terminals = <<>> /\ authState' = "CONSUMED" /\ Len(attempts) < 4
    /\ authState = "CONSUMED" \/ (authState = "ACTIVE" /\ Len(attempts) = 0)
    /\ \E p \in Pilots, slice \in Slices, kind \in {"INITIAL", "RETRY"} : Reserve(p, slice, kind)

Settles ==
    /\ UNCHANGED <<terminals, authState>> /\ terminals = <<>>
    /\ \E n \in 1..Len(attempts), status \in {"COMPLETED", "BLOCKED"},
          state \in {"SETTLED", "ABANDONED"}, socket \in BOOLEAN :
          Settle(n, status, state, socket) /\ attempts[n].status = "PENDING"

Commits ==
    /\ UNCHANGED <<attempts, consumptions, authState>>
    /\ terminals = <<>> /\ authState = "CONSUMED"
    /\ \E p \in Pilots, status \in {"PASSED", "BLOCKED"},
          stage \in {"DATA_QUALITY", "RESOURCE_ORCHESTRATION"} :
          CommitTerminal(p, status, stage) /\ current[p] = Len(attempts)

\* Every step of the pilot writes at most one kind of row, and writes rows only
\* before the terminal event and only under a consumed authorization.
LEMMA StepKinds ==
    ASSUME Inv, [Next]_vars
    PROVE  RowsKept \/ OperatorEvent \/ Reserves \/ Settles \/ Commits
<1>1. CASE UNCHANGED vars
  BY <1>1 DEF vars, db, RowsKept
<1>2. CASE Tick
  BY <1>2 DEF Tick, db, RowsKept
<1>3. CASE AppendEvent
  <2>1. authState \in {"DRAFT", "APPROVED", "ACTIVE"} /\ authState' \in AuthStates \ {"CONSUMED"}
    BY <1>3 DEF AppendEvent, AuthTransitions, AuthStates
  <2> QED BY <1>3, <2>1 DEF AppendEvent, OperatorEvent
<1>4. ASSUME NEW p \in Pilots, Step(p) PROVE RowsKept \/ Reserves \/ Settles \/ Commits
  <2>1. pc[p] \in Executing => /\ current[p] \in 1..Len(attempts) /\ current[p] = Len(attempts)
                               /\ authState = "CONSUMED" /\ terminals = <<>>
                               /\ ordinal[p] \in Slices
    BY OwnAttempt DEF Inv, TypeOK
  <2>2. CASE \/ Authorize(p) \/ ContactFails(p) \/ Send(p) \/ Validate(p) \/ WriteBlob(p)
             \/ CheckLineage(p) \/ AdmitDocument(p) \/ Crash(p) \/ Restart(p)
    BY <2>2 DEF Authorize, ContactFails, Send, Validate, WriteBlob, CheckLineage, AdmitDocument,
                Crash, Restart, db, RowsKept
  <2>3. CASE StartExecution(p)
    <3>1. CASE CanStart(p) /\ authState' = "CONSUMED" /\ Reserve(p, 0, "INITIAL")
      <4>1. authState = "ACTIVE" /\ 0 \in Slices
        BY <3>1 DEF CanStart, Slices
      <4>2. attempts = <<>> /\ terminals = <<>>
        BY <4>1 DEF Inv, ProcInv, Ownership
      <4>3. Len(attempts) = 0 /\ Len(attempts) < 4
        BY <4>2
      <4> QED BY <2>3, <3>1, <4>1, <4>2, <4>3 DEF Reserves, StartExecution
    <3>2. CASE UNCHANGED <<authState, attempts, consumptions>>
      BY <2>3, <3>2 DEF StartExecution, RowsKept
    <3> QED BY <2>3, <3>1, <3>2 DEF StartExecution
  <2>4. CASE Classify(p)
    <3>1. pc[p] \in Executing
      BY <2>4 DEF Classify, Executing, Labels
    <3>2. CASE CanReserve(ordinal[p], current[p] + 1, "RETRY") /\ Reserve(p, ordinal[p], "RETRY")
      BY <2>1, <2>4, <3>1, <3>2 DEF Reserves, Classify, CanReserve
    <3>3. CASE UNCHANGED <<attempts, consumptions>>
      BY <2>4, <3>3 DEF Classify, RowsKept
    <3> QED BY <2>4, <3>2, <3>3 DEF Classify
  <2>5. CASE ReserveNext(p)
    <3>1. pc[p] \in Executing
      BY <2>5 DEF ReserveNext, Executing, Labels
    <3>2. CASE CanReserve(ordinal[p], current[p] + 1, "INITIAL") /\ Reserve(p, ordinal[p], "INITIAL")
      BY <2>1, <2>5, <3>1, <3>2 DEF Reserves, ReserveNext, CanReserve
    <3>3. CASE UNCHANGED <<attempts, consumptions>>
      BY <2>5, <3>3 DEF ReserveNext, RowsKept
    <3> QED BY <2>5, <3>2, <3>3 DEF ReserveNext
  <2>6. ASSUME NEW n \in 1..Len(attempts), pc[p] \in Executing, UNCHANGED <<terminals, authState>>,
               CanSettle(n, ResponseBytes(n)), SettleFailure(n)
        PROVE  Settles
    BY <2>1, <2>6 DEF Settles, SettleFailure, CanSettle
  <2>7. CASE SettlePrior(p)
    <3>1. pc[p] \in Executing /\ prior[p] # 0
      BY <2>7 DEF SettlePrior, Executing, Labels
    <3>2. prior[p] \in 1..Len(attempts)
      <4>1. prior[p] = current[p] - 1 /\ prior[p] \in 0..4
        BY <3>1 DEF Inv, TypeOK, ProcInv, PendingRows
      <4>2. current[p] \in 1..Len(attempts) /\ Len(attempts) \in 0..4
        BY <2>1, <3>1, TypeFacts DEF Inv
      <4> QED BY <3>1, <4>1, <4>2
    <3>3. CASE CanSettle(prior[p], ResponseBytes(prior[p])) /\ SettleFailure(prior[p])
      BY <2>6, <2>7, <3>1, <3>2, <3>3 DEF SettlePrior
    <3>4. CASE UNCHANGED <<attempts, consumptions>>
      BY <2>7, <3>4 DEF SettlePrior, RowsKept
    <3> QED BY <2>7, <3>3, <3>4 DEF SettlePrior
  <2>8. CASE SettleFailed(p)
    <3>1. pc[p] \in Executing
      BY <2>8 DEF SettleFailed, Executing, Labels
    <3>2. CASE CanSettle(current[p], ResponseBytes(current[p])) /\ SettleFailure(current[p])
      BY <2>1, <2>6, <2>8, <3>1, <3>2 DEF SettleFailed
    <3>3. CASE UNCHANGED <<attempts, consumptions>>
      BY <2>8, <3>3 DEF SettleFailed, RowsKept
    <3> QED BY <2>8, <3>2, <3>3 DEF SettleFailed
  <2>9. CASE SettleCompleted(p)
    <3>1. pc[p] \in Executing
      BY <2>9 DEF SettleCompleted, Executing, Labels
    <3>2. CASE /\ CanSettle(current[p], ResponseBytes(current[p]))
               /\ Settle(current[p], "COMPLETED", "SETTLED", TRUE)
      BY <2>1, <2>9, <3>1, <3>2 DEF SettleCompleted, Settles, CanSettle
    <3>3. CASE UNCHANGED <<attempts, consumptions>>
      BY <2>9, <3>3 DEF SettleCompleted, RowsKept
    <3> QED BY <2>9, <3>2, <3>3 DEF SettleCompleted
  <2>10. CASE BlockResource(p) \/ Evaluate(p)
    <3>1. pc[p] \in Executing
      BY <2>10 DEF BlockResource, Evaluate, Executing, Labels
    <3> QED BY <2>1, <2>10, <3>1 DEF BlockResource, Evaluate, Commits
  <2> QED BY <1>4, <2>2, <2>3, <2>4, <2>5, <2>7, <2>8, <2>9, <2>10 DEF Step
<1> QED BY <1>1, <1>2, <1>3, <1>4 DEF Next

\* History is not rewritten: no row disappears, no settled row changes.
THEOREM HistoryKept == Spec => LedgerAppendOnly
<1>1. Inv /\ Fresh /\ [Next]_vars =>
        [/\ Len(attempts') >= Len(attempts)
         /\ \A i \in DOMAIN attempts : attempts[i].status # "PENDING" =>
               attempts'[i] = attempts[i] /\ consumptions'[i] = consumptions[i]]_vars
  <2> SUFFICES ASSUME Inv, [Next]_vars
               PROVE  /\ Len(attempts') >= Len(attempts)
                      /\ \A i \in DOMAIN attempts : attempts[i].status # "PENDING" =>
                            attempts'[i] = attempts[i] /\ consumptions'[i] = consumptions[i]
    OBVIOUS
  <2>1. Len(attempts) \in Nat /\ DOMAIN attempts = 1..Len(attempts) /\ TypeOK
    BY TypeFacts DEF Inv
  <2>2. CASE RowsKept \/ OperatorEvent \/ Commits
    BY <2>1, <2>2 DEF RowsKept, OperatorEvent, Commits
  <2>3. CASE Reserves
    <3>1. PICK p \in Pilots, slice \in Slices, kind \in {"INITIAL", "RETRY"} :
              Reserve(p, slice, kind) /\ Len(attempts) < 4
      BY <2>3 DEF Reserves
    <3>2. /\ Len(attempts') = Len(attempts) + 1
          /\ \A i \in 1..Len(attempts) : attempts'[i] = attempts[i] /\ consumptions'[i] = consumptions[i]
      BY <2>1, <3>1, ReserveEffect
    <3>3. Len(attempts') >= Len(attempts)
      BY <2>1, <3>2
    <3> QED BY <2>1, <3>2, <3>3
  <2>4. CASE Settles
    <3>1. PICK n \in 1..Len(attempts), status \in {"COMPLETED", "BLOCKED"},
               state \in {"SETTLED", "ABANDONED"}, socket \in BOOLEAN :
               Settle(n, status, state, socket) /\ attempts[n].status = "PENDING"
      BY <2>4 DEF Settles
    <3>2. /\ Len(attempts') = Len(attempts)
          /\ \A i \in 1..Len(attempts) : i # n =>
                 attempts'[i] = attempts[i] /\ consumptions'[i] = consumptions[i]
      BY <2>1, <3>1, SettleEffect
    <3>3. Len(attempts') >= Len(attempts)
      BY <2>1, <3>2
    <3> QED BY <2>1, <3>1, <3>2, <3>3
  <2> QED BY <2>2, <2>3, <2>4, StepKinds
<1> QED BY <1>1, Invariance, PTL DEF Spec, LedgerAppendOnly

\* The terminal event closes the run: after it nothing is reserved, sent,
\* settled or stored, by any process.
THEOREM RunClosed == Spec => NothingAfterTerminal
<1>1. Inv /\ Fresh /\ [Next]_vars =>
        [terminals # <<>> =>
            UNCHANGED <<attempts, consumptions, artifacts, blobs, wire, terminals>>]_vars
  <2> SUFFICES ASSUME Inv, [Next]_vars, terminals # <<>>
               PROVE  UNCHANGED <<attempts, consumptions, artifacts, blobs, wire, terminals>>
    OBVIOUS
  <2>1. \A p \in Pilots : pc[p] \notin Executing
    BY DEF Inv, ProcInv, Ownership
  <2>2. RowsKept \/ OperatorEvent
    BY StepKinds DEF Reserves, Settles, Commits
  <2>3. UNCHANGED <<artifacts, blobs, wire>>
    <3>1. CASE AppendEvent \/ Tick \/ UNCHANGED vars
      BY <3>1 DEF AppendEvent, Tick, vars, db
    <3>2. ASSUME NEW p \in Pilots, Step(p) PROVE UNCHANGED <<artifacts, blobs, wire>>
      <4>1. CASE ContactFails(p) \/ Send(p) \/ WriteBlob(p) \/ SettleCompleted(p)
        BY <2>1, <4>1 DEF ContactFails, Send, WriteBlob, SettleCompleted, Executing, Labels
      <4>2. CASE \/ Authorize(p) \/ StartExecution(p) \/ Classify(p) \/ SettlePrior(p) \/ Validate(p)
                 \/ SettleFailed(p) \/ CheckLineage(p) \/ ReserveNext(p) \/ AdmitDocument(p)
        BY <4>2 DEF Authorize, StartExecution, Classify, SettlePrior, Validate, SettleFailed,
                    CheckLineage, ReserveNext, AdmitDocument, db
      <4>3. CASE BlockResource(p) \/ Evaluate(p) \/ Crash(p) \/ Restart(p)
        BY <4>3 DEF BlockResource, Evaluate, Crash, Restart, db
      <4> QED BY <3>2, <4>1, <4>2, <4>3 DEF Step
    <3> QED BY <3>1, <3>2 DEF Next
  <2> QED BY <2>2, <2>3 DEF RowsKept, OperatorEvent
<1> QED BY <1>1, Invariance, PTL DEF Spec, NothingAfterTerminal

-----------------------------------------------------------------------------
(* Refinement *)

\* The tables of the pilot implement the single-use grant: for every number of
\* processes and all limits, each step is a step of SingleUseGrant or stutters.
THEOREM GrantImplemented == Spec => ImplementsGrant
<1>1. Init => Grant!GrantInit
  BY DEF Init, Grant!GrantInit
<1>2. ASSUME Inv, Inv', [Next]_vars PROVE [Grant!GrantNext]_(Grant!grant)
  <2>0. Len(attempts) \in Nat /\ TypeOK
    BY <1>2, TypeFacts DEF Inv
  <2>1. CASE RowsKept
    BY <2>1 DEF RowsKept, Grant!grant
  <2>2. CASE OperatorEvent
    BY <2>2 DEF OperatorEvent, Grant!grant, Grant!GrantNext, Grant!Withdraw, AuthStates
  <2>3. CASE Reserves
    <3>1. Len(attempts') = Len(attempts) + 1
      BY <2>0, <2>3, ReserveEffect DEF Reserves
    <3> QED BY <2>0, <2>3, <3>1 DEF Reserves, Grant!GrantNext, Grant!Use, Grant!Request
  <2>4. CASE Settles
    <3>1. Len(attempts') = Len(attempts)
      BY <2>0, <2>4, SettleEffect DEF Settles
    <3> QED BY <2>4, <3>1 DEF Settles, Grant!grant
  <2>5. CASE Commits
    <3>1. PICK p \in Pilots, status \in {"PASSED", "BLOCKED"},
               stage \in {"DATA_QUALITY", "RESOURCE_ORCHESTRATION"} :
               CommitTerminal(p, status, stage) /\ current[p] = Len(attempts)
      BY <2>5 DEF Commits
    <3> DEFINE event == [status |-> status, stage |-> stage, slice |-> ordinal[p],
                         attempt |-> current[p]]
    <3>2. CASE terminals' = terminals
      BY <2>5, <3>2 DEF Commits, Grant!grant
    <3>3. CASE /\ terminals' = Append(terminals, event)
               /\ status = "PASSED" => CompleteResourceSet(Len(attempts))
      <4>1. terminals' # <<>> /\ terminals'[1].status = status
        <5>1. terminals \in Seq(TerminalRow) /\ terminals' \in Seq(TerminalRow) /\ terminals = <<>>
          BY <1>2, <2>5 DEF Inv, TypeOK, Commits
        <5>2. terminals' = <<event>>
          BY <3>3, <5>1
        <5> QED BY <5>2
      <4>2. CompleteResourceSet(Len(attempts)) => Len(attempts) >= 3
        BY <2>0, TypeFacts DEF CompleteResourceSet
      <4> QED BY <2>0, <2>5, <3>3, <4>1, <4>2 DEF Commits, Grant!GrantNext, Grant!Conclude
    <3> QED BY <3>1, <3>2, <3>3 DEF CommitTerminal
  <2> QED BY <1>2, <2>1, <2>2, <2>3, <2>4, <2>5, StepKinds
<1> QED BY <1>1, <1>2, Invariance, PTL DEF Spec, ImplementsGrant, Grant!GrantSpec
=============================================================================
