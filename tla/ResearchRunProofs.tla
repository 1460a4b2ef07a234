-------------------------- MODULE ResearchRunProofs --------------------------
(***************************************************************************)
(* The safety properties of ResearchRun for any number of commands, any    *)
(* plan and any budget.  Idempotency rests on the two locks: the           *)
(* transaction that writes a Run knows either that no Run is reusable (it  *)
(* inserted one) or that the reusable one is the Run it has locked, and    *)
(* both are destroyed only by a commit of the only writer.  Everything     *)
(* else is about one transaction: Local, and for the verdict JudgedSoFar,  *)
(* which says what the steps that have ended justify before the Run is     *)
(* given its status.                                                       *)
(***************************************************************************)
EXTENDS ResearchRun, FiniteSetTheorems, TLAPS

PlannedRun == [NewRun EXCEPT !.status = "PLANNED"]

\* The first n steps of the run were executed, and paid for.
Progress(run, n) ==
    /\ run.package = "none"
    /\ \A i \in StepIndex :
          /\ i <= n => run.steps[i] # "PENDING"
          /\ Plan[i] \in Tools =>
                IF i <= n THEN /\ run.budget.perTool[Plan[i]] \in 1..2
                               /\ run.budget.perTool[Plan[i]] <= MaxCallsPerTool
                          ELSE run.budget.perTool[Plan[i]] = 0

\* What one transaction knows at each of its labels.
Local(t) ==
    /\ t.row.budget.total <= MaxToolCalls
    /\ t.pc \in {"plan", "step", "assemble"} => t.writes
    /\ t.pc \in {"begin", "find", "insert", "winner", "done", "failed"} => ~t.writes
    /\ t.pc \in {"begin", "find", "insert", "winner", "plan", "done", "failed"} => t.id = 0
    /\ t.pc \in {"start", "commit"} /\ t.id = 0 => t.writes
    /\ t.pc \notin {"step", "assemble", "commit"} => t.step = 1
    /\ t.pc \in {"begin", "find", "insert", "winner", "plan"} => t.row = NewRun
    /\ t.pc = "start" /\ t.id = 0 => t.row = PlannedRun
    /\ t.pc = "step" => t.step \in StepIndex /\ Progress(t.row, t.step - 1)
    /\ t.pc = "assemble" => Progress(t.row, Len(Plan))
    /\ t.pc = "commit" /\ t.writes => Whole(t.row) /\ Accounted(t.row)

OneWriter == \A p, q \in Processes : tx[p].writes /\ tx[q].writes => p = q

OneReusable == \A i, j \in ReusableRuns : i = j

\* What a writer's lock is worth.
LockHeld(t) ==
    t.writes => IF t.id = 0 THEN ReusableRuns = {}
                            ELSE t.id \in DOMAIN runs /\ runs[t.id].status = "PLANNED"

IInv ==
    /\ TypeOK
    /\ \A p \in Processes : Local(tx[p]) /\ LockHeld(tx[p])
    /\ OneWriter /\ OneReusable
    /\ \A i \in DOMAIN runs : Whole(runs[i]) /\ Accounted(runs[i])

-----------------------------------------------------------------------------
(* One transaction *)

\* Tools and components do not overlap, and every tool is a step of the plan.
LEMMA PlanFacts ==
    /\ Len(Plan) \in Nat
    /\ \A t \in Tools : \E i \in StepIndex : Plan[i] = t
    /\ \A i \in StepIndex : Plan[i] \in Components => Plan[i] \notin Tools
    /\ \A i \in StepIndex : Plan[i] \notin Components => Plan[i] \in Tools
    BY PlanAssumption DEF Tools, StepIndex

\* A new Run is well-typed and has consumed nothing.
LEMMA NewRunFacts ==
    /\ NewRun \in RunRecords
    /\ PlannedRun \in RunRecords
    /\ NewRun.budget.total = 0 /\ PlannedRun.budget.total = 0
    /\ PlannedRun.status = "PLANNED"
    /\ Whole(PlannedRun) /\ Accounted(PlannedRun)
<1>1. NewRun \in RunRecords
    BY DEF NewRun, RunRecords, StepStatuses, Budgets
<1>2. PlannedRun \in RunRecords
    BY <1>1 DEF NewRun, PlannedRun, RunRecords
<1>3. NewRun.budget.total = 0 /\ PlannedRun.budget.total = 0 /\ PlannedRun.status = "PLANNED"
    BY DEF NewRun, PlannedRun
<1>4. Whole(PlannedRun)
    BY DEF Whole, PlannedRun
<1>5. Accounted(PlannedRun)
    BY BudgetAssumption DEF Accounted, NewRun, PlannedRun, TerminalStatuses
<1> QED
    BY <1>1, <1>2, <1>3, <1>4, <1>5

\* A transaction that has ended, or has not begun, is well-typed and knows nothing.
LEMMA IdleFacts ==
    ASSUME NEW label \in {"begin", "done", "failed"}
    PROVE  LET t == [Idle EXCEPT !.pc = label]
           IN  t \in Transactions /\ Local(t) /\ ~t.writes /\ t.id = 0
<1> DEFINE t == [Idle EXCEPT !.pc = label]
<1>1. Idle \in Transactions
    BY NewRunFacts DEF Idle, Transactions, Labels
<1>2. Idle.row = NewRun /\ Idle.writes = FALSE /\ Idle.id = 0 /\ Idle.step = 1
    BY DEF Idle
<1>3. t \in Transactions
    BY <1>1 DEF Transactions, Labels
<1>4. t.pc = label /\ t.row = NewRun /\ t.writes = FALSE /\ t.id = 0 /\ t.step = 1
    BY <1>1, <1>2 DEF Transactions
<1> HIDE DEF t
<1>5. Local(t)
    BY <1>4, NewRunFacts, BudgetAssumption DEF Local
<1> QED
    BY <1>3, <1>4, <1>5 DEF t

\* A step that changes one transaction, takes no lock and commits nothing.
LEMMA OneTransaction ==
    ASSUME IInv, NEW p \in Processes, NEW t \in Transactions,
           tx' = [tx EXCEPT ![p] = t], UNCHANGED runs,
           Local(t), t.id <= Len(runs),
           t.writes => tx[p].writes /\ t.id = tx[p].id
    PROVE  IInv'
<1>1. TypeOK'
    BY DEF IInv, TypeOK
<1>2. \A q \in Processes : (Local(tx[q]) /\ LockHeld(tx[q]))'
    BY DEF IInv, TypeOK, LockHeld, ReusableRuns
<1>3. OneWriter'
    BY DEF IInv, TypeOK, OneWriter
<1>4. OneReusable'
    BY DEF IInv, OneReusable, ReusableRuns
<1> QED
    BY <1>1, <1>2, <1>3, <1>4 DEF IInv

\* A rollback leaves the committed rows and frees the locks.
LEMMA RollbackInv ==
    ASSUME IInv, NEW p \in Processes, Rollback(p)
    PROVE  IInv'
<1> DEFINE t == [Idle EXCEPT !.pc = "failed"]
<1>1. t \in Transactions /\ Local(t) /\ ~t.writes /\ t.id = 0
    BY IdleFacts
<1>2. tx' = [tx EXCEPT ![p] = t] /\ UNCHANGED runs
    BY DEF Rollback
<1>3. t.id <= Len(runs)
    BY <1>1 DEF IInv, TypeOK
<1> QED
    BY <1>1, <1>2, <1>3, OneTransaction

\* The type of one transaction, and the index of its Run.
LEMMA TransactionType ==
    ASSUME IInv, NEW p \in Processes
    PROVE  tx[p] \in Transactions /\ Local(tx[p]) /\ tx[p].id <= Len(runs) /\ LockHeld(tx[p])
    BY DEF IInv, TypeOK

\* The locks: an insert that the unique index admits is the only writer.
LEMMA InsertInv ==
    ASSUME IInv, NEW p \in Processes, Insert(p)
    PROVE  IInv'
<1> USE TransactionType DEF Insert
<1>1. CASE ReusableRuns = {}
  <2> DEFINE t == [tx[p] EXCEPT !.pc = "plan", !.writes = TRUE]
  <2>1. tx' = [tx EXCEPT ![p] = t] /\ UNCHANGED runs
      BY <1>1 DEF IInv, TypeOK
  <2>2. t \in Transactions
      BY DEF Transactions, Labels
  <2>3. /\ t.pc = "plan" /\ t.writes = TRUE
        /\ t.id = tx[p].id /\ t.row = tx[p].row /\ t.step = tx[p].step
      BY DEF Transactions
  <2> HIDE DEF t
  <2>4. Local(t) /\ t.id = 0 /\ t.id <= Len(runs)
      BY <2>3 DEF Local
  <2>5. TypeOK'
    <3> HIDE TransactionType DEF Insert
    <3> QED
        BY <2>1, <2>2, <2>4 DEF IInv, TypeOK
  <2>6. ReusableRuns' = {}
      BY <1>1, <2>1 DEF ReusableRuns
  <2>7. \A q \in Processes : (Local(tx[q]) /\ LockHeld(tx[q]))'
    <3> SUFFICES ASSUME NEW q \in Processes
                 PROVE  Local(tx'[q]) /\ (tx'[q].writes => tx'[q].id = 0)
        BY <2>6 DEF LockHeld
    <3>1. CASE q = p
        BY <2>1, <2>4, <3>1 DEF IInv, TypeOK
    <3>2. CASE q # p
        BY <2>1, <3>2 DEF IInv, TypeOK, Writers
    <3> QED
        BY <3>1, <3>2
  <2>8. OneWriter'
      BY <2>1 DEF IInv, TypeOK, OneWriter, Writers
  <2>9. OneReusable'
      BY <2>6 DEF OneReusable
  <2> QED
      BY <2>1, <2>5, <2>7, <2>8, <2>9 DEF IInv
<1>2. CASE ReusableRuns # {}
  <2> DEFINE t == [tx[p] EXCEPT !.pc = "winner"]
  <2>1. tx' = [tx EXCEPT ![p] = t] /\ UNCHANGED runs
      BY <1>2 DEF IInv, TypeOK
  <2>2. t \in Transactions
      BY DEF Transactions, Labels
  <2>3. /\ t.pc = "winner" /\ t.writes = tx[p].writes
        /\ t.id = tx[p].id /\ t.row = tx[p].row /\ t.step = tx[p].step
      BY DEF Transactions
  <2> HIDE DEF t
  <2>4. Local(t)
      BY <2>3 DEF Local
  <2> QED
      BY <2>1, <2>2, <2>3, <2>4, OneTransaction
<1> QED
    BY <1>1, <1>2

\* Reading a reusable Run takes no lock.
LEMMA ReuseInv ==
    ASSUME IInv, NEW p \in Processes, NEW i \in ReusableRuns, tx[p].pc \in {"find", "winner"},
           Reuse(p, i), UNCHANGED runs
    PROVE  IInv'
<1> USE TransactionType
<1> DEFINE label == IF tx[p].command = "run" /\ runs[i].status = "PLANNED" THEN "start" ELSE "commit"
           t == [tx[p] EXCEPT !.id = i, !.pc = label]
<1>1. label \in {"start", "commit"}
    OBVIOUS
<1>2. tx' = [tx EXCEPT ![p] = t]
    BY DEF IInv, TypeOK, Reuse
<1>3. i \in Nat /\ i # 0 /\ i <= Len(runs)
    BY DEF IInv, TypeOK, ReusableRuns
<1> HIDE DEF label
<1>4. t \in Transactions
    BY <1>1, <1>3 DEF Transactions, Labels
<1>5. /\ t.pc = label /\ t.writes = tx[p].writes
      /\ t.id = i /\ t.row = tx[p].row /\ t.step = tx[p].step
    BY DEF Transactions
<1> HIDE DEF t
<1>6. Local(t) /\ ~t.writes
    BY <1>1, <1>3, <1>5 DEF Local
<1> QED
    BY <1>2, <1>3, <1>4, <1>5, <1>6, OneTransaction

\* FindReusable and FindWinner.
LEMMA FindInv ==
    ASSUME IInv, NEW p \in Processes, FindReusable(p) \/ FindWinner(p)
    PROVE  IInv'
<1>1. CASE \E i \in ReusableRuns : Reuse(p, i) /\ UNCHANGED runs /\ tx[p].pc \in {"find", "winner"}
    BY <1>1, ReuseInv
<1>2. CASE tx[p].pc = "find" /\ tx' = [tx EXCEPT ![p].pc = "insert"] /\ UNCHANGED runs
  <2> USE TransactionType
  <2> DEFINE t == [tx[p] EXCEPT !.pc = "insert"]
  <2>1. tx' = [tx EXCEPT ![p] = t]
      BY <1>2 DEF IInv, TypeOK
  <2>2. t \in Transactions
      BY DEF Transactions, Labels
  <2>3. /\ t.pc = "insert" /\ t.writes = tx[p].writes
        /\ t.id = tx[p].id /\ t.row = tx[p].row /\ t.step = tx[p].step
      BY DEF Transactions
  <2> HIDE DEF t
  <2>4. Local(t)
      BY <2>3, <1>2 DEF Local
  <2> QED
      BY <1>2, <2>1, <2>2, <2>3, <2>4, OneTransaction
<1>3. CASE Rollback(p)
    BY <1>3, RollbackInv
<1> QED
    BY <1>1, <1>2, <1>3 DEF FindReusable, FindWinner

\* Begin, and the plan of a Run that was inserted.
LEMMA BeginPlanInv ==
    ASSUME IInv, NEW p \in Processes, Begin(p) \/ CreatePlan(p)
    PROVE  IInv'
<1> USE TransactionType
<1>1. CASE Begin(p)
  <2>1. PICK command \in {"plan", "run"} : tx' = [tx EXCEPT ![p].pc = "find", ![p].command = command]
      BY <1>1 DEF Begin
  <2> DEFINE t == [tx[p] EXCEPT !.pc = "find", !.command = command]
  <2>2. tx' = [tx EXCEPT ![p] = t] /\ UNCHANGED runs
      BY <1>1, <2>1 DEF IInv, TypeOK, Begin
  <2>3. t \in Transactions
      BY DEF Transactions, Labels
  <2>4. /\ t.pc = "find" /\ t.writes = tx[p].writes
        /\ t.id = tx[p].id /\ t.row = tx[p].row /\ t.step = tx[p].step
      BY DEF Transactions
  <2> HIDE DEF t
  <2>5. Local(t)
      BY <2>4, <1>1 DEF Local, Begin
  <2> QED
      BY <2>2, <2>3, <2>4, <2>5, OneTransaction
<1>2. CASE CreatePlan(p)
  <2> DEFINE label == IF tx[p].command = "run" THEN "start" ELSE "commit"
             t == [tx[p] EXCEPT !.row = PlannedRun, !.pc = label]
  <2>1. tx[p].row = NewRun /\ tx[p].pc = "plan" /\ tx[p].writes /\ tx[p].id = 0
      BY <1>2 DEF CreatePlan, Local
  <2>2. tx' = [tx EXCEPT ![p] = t] /\ UNCHANGED runs
      BY <1>2, <2>1 DEF IInv, TypeOK, CreatePlan, PlannedRun, Transactions
  <2>3. label \in {"start", "commit"}
      OBVIOUS
  <2> HIDE DEF label
  <2>4. t \in Transactions
      BY <2>3, NewRunFacts DEF Transactions, Labels
  <2>5. /\ t.pc = label /\ t.writes = tx[p].writes
        /\ t.id = tx[p].id /\ t.row = PlannedRun /\ t.step = tx[p].step
      BY DEF Transactions
  <2> HIDE DEF t
  <2>6. Local(t)
      BY <2>1, <2>3, <2>5, NewRunFacts, BudgetAssumption DEF Local
  <2> QED
      BY <2>1, <2>2, <2>4, <2>5, <2>6, OneTransaction
<1> QED
    BY <1>1, <1>2

-----------------------------------------------------------------------------
(* Execution *)

RunningRun == [PlannedRun EXCEPT !.status = "RUNNING"]

\* A Run as it is when its execution starts.
LEMMA RunningFacts ==
    RunningRun \in RunRecords /\ RunningRun.budget.total = 0 /\ Progress(RunningRun, 0)
<1>1. RunningRun \in RunRecords
    BY NewRunFacts DEF RunningRun, RunRecords
<1>2. PlannedRun.budget = NewRun.budget /\ PlannedRun.package = NewRun.package
    BY NewRunFacts DEF PlannedRun, RunRecords
<1>3. RunningRun.budget = NewRun.budget /\ RunningRun.package = NewRun.package
    BY <1>2, NewRunFacts DEF RunningRun, RunRecords
<1>4. NewRun.budget = [total |-> 0, perTool |-> [x \in Tools |-> 0]] /\ NewRun.package = "none"
    BY DEF NewRun
<1>5. RunningRun.budget.total = 0 /\ RunningRun.package = "none"
      /\ RunningRun.budget.perTool = [x \in Tools |-> 0]
    BY <1>3, <1>4
<1>6. Progress(RunningRun, 0)
    BY <1>5 DEF Progress, StepIndex
<1> QED
    BY <1>1, <1>5, <1>6

\* Execution starts under the row lock: whoever else writes would have to be
\* writing this row, because it is the only reusable one.
LEMMA StartInv ==
    ASSUME IInv, NEW p \in Processes, StartExecution(p)
    PROVE  IInv'
<1> USE TransactionType
<1> DEFINE row == IF tx[p].id = 0 THEN tx[p].row ELSE runs[tx[p].id]
           t == [tx[p] EXCEPT !.pc = "step", !.writes = TRUE, !.row = [row EXCEPT !.status = "RUNNING"]]
<1>1. CASE Rollback(p)
    BY <1>1, RollbackInv
<1>2. CASE row.status = "PLANNED" /\ tx' = [tx EXCEPT ![p] = t] /\ UNCHANGED runs
  <2>0. tx[p].pc = "start" /\ tx[p].step = 1 /\ tx[p].id \in Nat
      BY DEF StartExecution, Local, Transactions
  <2>1. tx[p].id # 0 => tx[p].id \in DOMAIN runs
      BY <2>0 DEF IInv, TypeOK
  <2>2. row = PlannedRun
    <3>1. CASE tx[p].id = 0
        BY <3>1, <2>0 DEF Local
    <3>2. CASE tx[p].id # 0
        BY <3>2, <2>1, <1>2 DEF IInv, Whole, PlannedRun, TerminalStatuses
    <3> QED
        BY <3>1, <3>2
  <2>3. t = [tx[p] EXCEPT !.pc = "step", !.writes = TRUE, !.row = RunningRun]
      BY <2>2 DEF RunningRun
  <2> HIDE DEF t, row
  <2>4. tx[p] \in Transactions /\ RunningRun \in RunRecords
      BY RunningFacts
  <2>5. t \in Transactions
    <3> HIDE TransactionType
    <3> QED
      BY <2>3, <2>4 DEF Transactions, Labels
  <2>6. t.pc = "step" /\ t.writes = TRUE /\ t.row = RunningRun /\ t.id = tx[p].id /\ t.step = 1
      BY <2>0, <2>3, <2>4 DEF Transactions
  <2>7. 1 \in StepIndex
      BY PlanAssumption DEF StepIndex
  <2>8. Local(t)
      BY <2>6, <2>7, RunningFacts, BudgetAssumption DEF Local
  <2>9. CASE tx[p].id = 0
    <3>1. tx[p].writes
        BY <2>0, <2>9 DEF Local
    <3> QED
        BY <1>2, <2>5, <2>6, <2>8, <3>1, OneTransaction
  <2>10. CASE tx[p].id # 0
    <3>1. tx[p].id \in DOMAIN runs /\ runs[tx[p].id].status = "PLANNED"
        BY <2>1, <2>10, <1>2 DEF row
    <3>2. tx[p].id \in ReusableRuns
        BY <3>1 DEF ReusableRuns, ReusableStatuses
    <3>3. \A q \in Processes : tx[q].writes => q = p
      <4> SUFFICES ASSUME NEW q \in Processes, tx[q].writes PROVE q = p
          OBVIOUS
      <4>1. LockHeld(tx[q])
          BY DEF IInv
      <4>2. tx[q].id = tx[p].id
          BY <3>2, <4>1 DEF LockHeld, IInv, OneReusable, ReusableRuns, ReusableStatuses
      <4> QED
          BY <4>2 DEF StartExecution, Writers
    <3>4. TypeOK'
      <4> HIDE TransactionType
      <4>1. t.id <= Len(runs)
          BY <2>6, TransactionType
      <4> QED
          BY <1>2, <2>5, <4>1 DEF IInv, TypeOK
    <3>5. \A q \in Processes : (Local(tx[q]) /\ LockHeld(tx[q]))'
      <4> SUFFICES ASSUME NEW q \in Processes PROVE (Local(tx[q]) /\ LockHeld(tx[q]))'
          OBVIOUS
      <4>1. CASE q = p
        <5>1. tx'[q] = t
            BY <1>2, <4>1 DEF IInv, TypeOK
        <5> QED
            BY <5>1, <1>2, <2>6, <2>8, <2>10, <3>1 DEF LockHeld
      <4>2. CASE q # p
        <5>1. tx'[q] = tx[q] /\ ~tx[q].writes
            BY <1>2, <3>3, <4>2 DEF IInv, TypeOK
        <5> QED
            BY <5>1 DEF LockHeld, IInv
      <4> QED
          BY <4>1, <4>2
    <3>6. OneWriter'
        BY <1>2, <3>3 DEF IInv, TypeOK, OneWriter
    <3>7. OneReusable'
        BY <1>2 DEF IInv, OneReusable, ReusableRuns
    <3> QED
        BY <1>2, <3>4, <3>5, <3>6, <3>7 DEF IInv
  <2> QED
      BY <2>9, <2>10
<1>3. Rollback(p) \/ (row.status = "PLANNED" /\ tx' = [tx EXCEPT ![p] = t] /\ UNCHANGED runs)
    BY DEF StartExecution, IInv, TypeOK
<1> QED
    BY <1>1, <1>2, <1>3

\* A step is executed: what remains to be shown is about the new row only.
LEMMA NextStepInv ==
    ASSUME IInv, NEW p \in Processes, tx[p].pc = "step",
           NEW row \in RunRecords, NEW blocked \in BOOLEAN, NEW failed \in BOOLEAN,
           NextStep(p, row, blocked, failed),
           Progress(row, tx[p].step), row.budget.total <= MaxToolCalls
    PROVE  IInv'
<1> DEFINE label == IF tx[p].step = Len(Plan) THEN "assemble" ELSE "step"
           anyBlocked == tx[p].blocked \/ blocked
           anyFailed == tx[p].failed \/ failed
           t == [tx[p] EXCEPT !.row = row, !.blocked = anyBlocked, !.failed = anyFailed,
                              !.step = tx[p].step + 1, !.pc = label]
<1>1. tx[p] \in Transactions /\ Local(tx[p]) /\ tx[p].id <= Len(runs)
    BY TransactionType
<1>2. tx' = [tx EXCEPT ![p] = t] /\ UNCHANGED runs
    BY <1>1 DEF IInv, TypeOK, NextStep, Transactions
<1>3. tx[p].step \in StepIndex /\ tx[p].writes
    BY <1>1 DEF Local
<1>4. label \in {"assemble", "step"} /\ (label = "assemble" <=> tx[p].step = Len(Plan))
    OBVIOUS
<1>0. anyBlocked \in BOOLEAN /\ anyFailed \in BOOLEAN
    OBVIOUS
<1> HIDE DEF label, anyBlocked, anyFailed
<1>9. label \in Labels /\ tx[p].step + 1 \in Nat
    BY <1>3, <1>4 DEF Labels, StepIndex
<1>5. t \in Transactions
    BY <1>0, <1>1, <1>9 DEF Transactions
<1>6. /\ t.pc = label /\ t.writes = tx[p].writes /\ t.id = tx[p].id
      /\ t.row = row /\ t.step = tx[p].step + 1
    BY <1>1 DEF Transactions
<1> HIDE DEF t
<1>7. CASE label = "assemble"
  <2>1. Local(t)
      BY <1>3, <1>4, <1>6, <1>7 DEF Local
  <2> QED
      BY <1>1, <1>2, <1>3, <1>5, <1>6, <2>1, OneTransaction
<1>8. CASE label = "step"
  <2>1. t.step \in StepIndex /\ t.step - 1 = tx[p].step
      BY <1>3, <1>4, <1>6, <1>8, PlanFacts DEF StepIndex
  <2>2. Local(t)
      BY <1>3, <1>6, <1>8, <2>1 DEF Local
  <2> QED
      BY <1>1, <1>2, <1>3, <1>5, <1>6, <2>2, OneTransaction
<1> QED
    BY <1>4, <1>7, <1>8

\* Component steps cost nothing.
LEMMA ComponentInv ==
    ASSUME IInv, NEW p \in Processes, ExecuteComponent(p)
    PROVE  IInv'
<1> DEFINE k == tx[p].step
           done == [tx[p].row EXCEPT !.steps[k] = ComponentStatus(p)]
           with(status) == [done EXCEPT !.evidence = @ \cup
                               {Evidence(Step(p), "SECURITY_MASTER_EVIDENCE", status)}]
<1>1. tx[p] \in Transactions /\ Local(tx[p])
    BY TransactionType
<1>2. k \in StepIndex /\ Plan[k] \notin Tools /\ Progress(tx[p].row, k - 1) /\ tx[p].pc = "step"
    BY <1>1, PlanFacts DEF ExecuteComponent, Local, Step
<1>3. tx[p].row \in RunRecords /\ tx[p].row.budget.total <= MaxToolCalls
    BY <1>1 DEF Transactions, Local
<1>4. ComponentStatus(p) \in {"PASS", "BLOCKED"}
    BY DEF ComponentStatus
<1>5. done \in RunRecords /\ done.steps = [tx[p].row.steps EXCEPT ![k] = ComponentStatus(p)]
      /\ done.budget = tx[p].row.budget /\ done.package = tx[p].row.package
    BY <1>2, <1>3, <1>4 DEF RunRecords, StepStatuses
<1> HIDE DEF done
<1>6. tx[p].row.steps \in [StepIndex -> StepStatuses]
    BY <1>3 DEF RunRecords
<1>7. ASSUME NEW i \in StepIndex PROVE i <= k <=> i <= k - 1 \/ i = k
    BY <1>2 DEF StepIndex
<1>8. \A row : row.steps = done.steps /\ row.budget = done.budget /\ row.package = done.package
                  => Progress(row, k)
    BY <1>2, <1>4, <1>5, <1>6, <1>7 DEF Progress
<1>9. CASE NextStep(p, done, FALSE, FALSE)
    BY <1>2, <1>3, <1>5, <1>8, <1>9, NextStepInv
<1>10. ASSUME NEW status \in {"VALID", "INVALID"}, NextStep(p, with(status), FALSE, FALSE)
       PROVE  IInv'
  <2>1. Evidence(Step(p), "SECURITY_MASTER_EVIDENCE", status) \in EvidenceRecords
      BY <1>2 DEF Evidence, EvidenceRecords, Step
  <2>2. with(status) \in RunRecords
      BY <1>5, <2>1 DEF RunRecords
  <2>3. with(status).steps = done.steps /\ with(status).budget = done.budget
        /\ with(status).package = done.package
      BY <1>5 DEF RunRecords
  <2> HIDE DEF with
  <2> QED
      BY <1>2, <1>3, <1>5, <1>8, <1>10, <2>2, <2>3, NextStepInv
<1> QED
    BY <1>9, <1>10 DEF ExecuteComponent, done

\* What an affordable tool call leaves of the budget.
LEMMA OutcomeFacts ==
    ASSUME NEW b \in Budgets, NEW t \in Tools, Affordable(b, t), b.perTool[t] = 0,
           NEW o \in Outcomes(b, t)
    PROVE  /\ o.budget \in Budgets /\ o.budget.total <= MaxToolCalls
           /\ o.budget.perTool[t] \in 1..2 /\ o.budget.perTool[t] <= MaxCallsPerTool
           /\ \A u \in Tools \ {t} : o.budget.perTool[u] = b.perTool[u]
           /\ o.result.status \in {"PASS", "PARTIAL", "BLOCKED", "FAIL"}
<1> DEFINE once == Consume(b, t)
           twice == Consume(once, t)
<1>1. /\ once \in Budgets /\ once.total = b.total + 1 /\ once.perTool[t] = 1
      /\ \A u \in Tools \ {t} : once.perTool[u] = b.perTool[u]
    BY DEF Consume, Budgets
<1> HIDE DEF once
<1>2. /\ twice \in Budgets /\ twice.total = once.total + 1 /\ twice.perTool[t] = 2
      /\ \A u \in Tools \ {t} : twice.perTool[u] = once.perTool[u]
    BY <1>1 DEF Consume, Budgets
<1> HIDE DEF twice
<1>3. /\ once.total <= MaxToolCalls /\ once.perTool[t] <= MaxCallsPerTool
    BY <1>1, BudgetAssumption DEF Affordable, Budgets
<1>4. Affordable(once, t) => twice.total <= MaxToolCalls /\ twice.perTool[t] <= MaxCallsPerTool
    BY <1>1, <1>2, BudgetAssumption DEF Affordable, Budgets
<1>5. \A r \in Results \cup {Failure} : r.status \in {"PASS", "PARTIAL", "BLOCKED", "FAIL"}
  <2>1. \A r \in Results : r.status \in {"PASS", "PARTIAL", "BLOCKED", "FAIL"}
      BY DEF Results
  <2>2. Failure.status = "FAIL"
      BY DEF Failure
  <2> QED
      BY <2>1, <2>2
<1>6. /\ o.budget = once \/ (Affordable(once, t) /\ o.budget = twice)
      /\ o.result \in Results \cup {Failure}
    BY DEF Outcomes, once, twice
<1> QED
    BY <1>1, <1>2, <1>3, <1>4, <1>5, <1>6

\* A tool step pays for its calls.
LEMMA ToolInv ==
    ASSUME IInv, NEW p \in Processes, ExecuteTool(p)
    PROVE  IInv'
<1> DEFINE k == tx[p].step
           b == tx[p].row.budget
<1>1. tx[p] \in Transactions /\ Local(tx[p])
    BY TransactionType
<1>2. /\ tx[p].pc = "step" /\ Step(p) \in Tools /\ Affordable(b, Step(p))
      /\ k \in StepIndex /\ Step(p) = Plan[k] /\ Progress(tx[p].row, k - 1)
    BY <1>1 DEF ExecuteTool, CanCallTool, Local, Step
<1>3. tx[p].row \in RunRecords /\ b \in Budgets
    BY <1>1 DEF Transactions, RunRecords
<1>4. b.perTool[Step(p)] = 0
    BY <1>2 DEF Progress, StepIndex
<1>5. PICK o \in Outcomes(b, Step(p)) :
        LET status == o.result.status
            evidence == IF o.result.observed THEN Admitted(Step(p), status) ELSE {}
        IN  NextStep(p, [tx[p].row EXCEPT !.steps[k] = status, !.budget = o.budget,
                                          !.evidence = @ \cup evidence],
                     status \in {"BLOCKED", "FAIL"}, status = "FAIL")
    BY DEF ExecuteTool, EndTool
<1> DEFINE status == o.result.status
           evidence == IF o.result.observed THEN Admitted(Step(p), status) ELSE {}
           row == [tx[p].row EXCEPT !.steps[k] = status, !.budget = o.budget,
                                    !.evidence = @ \cup evidence]
<1>6. /\ o.budget \in Budgets /\ o.budget.total <= MaxToolCalls
      /\ o.budget.perTool[Step(p)] \in 1..2 /\ o.budget.perTool[Step(p)] <= MaxCallsPerTool
      /\ \A u \in Tools \ {Step(p)} : o.budget.perTool[u] = b.perTool[u]
      /\ status \in {"PASS", "PARTIAL", "BLOCKED", "FAIL"}
    BY <1>2, <1>3, <1>4, OutcomeFacts
<1>7. NextStep(p, row, status \in {"BLOCKED", "FAIL"}, status = "FAIL")
    BY <1>5
<1> HIDE DEF status
<1>8. evidence \subseteq EvidenceRecords
  <2>1. Step(p) \in {Plan[i] : i \in StepIndex}
      BY <1>2
  <2> QED
      BY <2>1, <1>6 DEF Admitted, Evidence, EvidenceRecords
<1> HIDE DEF evidence
<1>9. row \in RunRecords /\ row.steps = [tx[p].row.steps EXCEPT ![k] = status]
      /\ row.budget = o.budget /\ row.package = tx[p].row.package
    BY <1>2, <1>3, <1>6, <1>8 DEF RunRecords, StepStatuses
<1> HIDE DEF row
<1>10. tx[p].row.steps \in [StepIndex -> StepStatuses]
    BY <1>3 DEF RunRecords
<1>11. Progress(row, k)
  <2> SUFFICES ASSUME NEW i \in StepIndex
               PROVE  /\ i <= k => row.steps[i] # "PENDING"
                      /\ Plan[i] \in Tools =>
                            IF i <= k THEN /\ row.budget.perTool[Plan[i]] \in 1..2
                                           /\ row.budget.perTool[Plan[i]] <= MaxCallsPerTool
                                      ELSE row.budget.perTool[Plan[i]] = 0
      BY <1>2, <1>9 DEF Progress
  <2>1. CASE i = k
      BY <2>1, <1>2, <1>6, <1>9, <1>10 DEF StepIndex
  <2>2. CASE i # k
    <3>1. Plan[i] # Step(p) /\ (i <= k <=> i <= k - 1)
        BY <2>2, <1>2, PlanAssumption DEF StepIndex
    <3> QED
        BY <2>2, <3>1, <1>2, <1>6, <1>9, <1>10 DEF Progress
  <2> QED
      BY <2>1, <2>2
<1>12. row.budget.total <= MaxToolCalls
    BY <1>6, <1>9
<1> DEFINE unusable == status \in {"BLOCKED", "FAIL"}
           failed == status = "FAIL"
<1>13. unusable \in BOOLEAN /\ failed \in BOOLEAN /\ NextStep(p, row, unusable, failed)
    BY <1>7
<1> HIDE DEF unusable, failed
<1> QED
    BY <1>2, <1>9, <1>11, <1>12, <1>13, NextStepInv

\* The package decides how the Run ends.
LEMMA AssembleInv ==
    ASSUME IInv, NEW p \in Processes, Assemble(p)
    PROVE  IInv'
<1> DEFINE status == PackageStatus(tx[p].row.evidence, tx[p].failed)
           row == [tx[p].row EXCEPT !.package = status, !.status = status]
           t == [tx[p] EXCEPT !.row = row, !.pc = "commit"]
<1>1. tx[p] \in Transactions /\ Local(tx[p]) /\ tx[p].id <= Len(runs) /\ tx[p].pc = "assemble"
    BY TransactionType DEF Assemble
<1>2. tx' = [tx EXCEPT ![p] = t] /\ UNCHANGED runs
    BY <1>1 DEF Assemble, IInv, TypeOK, Transactions, RunRecords
<1>3. status \in {"COMPLETED", "PARTIAL", "BLOCKED", "FAILED"}
    BY DEF PackageStatus
<1> HIDE DEF status
<1>4. tx[p].row \in RunRecords
    BY <1>1 DEF Transactions
<1>5. /\ row \in RunRecords /\ row.status = status /\ row.package = status
      /\ row.steps = tx[p].row.steps /\ row.budget = tx[p].row.budget
    BY <1>3, <1>4 DEF RunRecords, TerminalStatuses
<1> HIDE DEF row
<1>6. t \in Transactions
    BY <1>1, <1>5 DEF Transactions, Labels
<1>7. t.pc = "commit" /\ t.writes = tx[p].writes /\ t.id = tx[p].id /\ t.row = row
    BY <1>1 DEF Transactions
<1> HIDE DEF t
<1>8. Progress(tx[p].row, Len(Plan)) /\ tx[p].row.budget.total <= MaxToolCalls /\ tx[p].writes
    BY <1>1 DEF Local
<1>9. \A i \in StepIndex : i <= Len(Plan)
    BY DEF StepIndex
<1>10. Whole(row)
    BY <1>3, <1>5, <1>8, <1>9 DEF Whole, Progress, TerminalStatuses
<1>11. Accounted(row)
  <2> SUFFICES ASSUME NEW x \in Tools
               PROVE  row.budget.perTool[x] \in 1..2 /\ row.budget.perTool[x] <= MaxCallsPerTool
      BY <1>5, <1>8 DEF Accounted
  <2>1. PICK i \in StepIndex : Plan[i] = x
      BY PlanFacts
  <2> QED
      BY <2>1, <1>5, <1>8, <1>9 DEF Progress
<1>12. Local(t)
    BY <1>5, <1>7, <1>8, <1>10, <1>11 DEF Local
<1> QED
    BY <1>1, <1>2, <1>6, <1>7, <1>12, OneTransaction

-----------------------------------------------------------------------------
(* Commit *)

\* The committed rows after a commit: one Run was added when none was reusable,
\* the locked one was replaced, or nothing happened.
LEMMA CommitRuns ==
    ASSUME IInv, NEW p \in Processes, Commit(p)
    PROVE  /\ runs' \in Seq(RunRecords) /\ Len(runs) <= Len(runs')
           /\ \A i \in DOMAIN runs : i \in DOMAIN runs'
           /\ \A i \in DOMAIN runs : runs[i].status # "PLANNED" => runs'[i] = runs[i]
           /\ \A i \in DOMAIN runs' : Whole(runs'[i]) /\ Accounted(runs'[i])
           /\ OneReusable'
           /\ ~tx[p].writes => runs' = runs
<1>1. tx[p] \in Transactions /\ Local(tx[p]) /\ tx[p].id <= Len(runs) /\ LockHeld(tx[p])
      /\ tx[p].pc = "commit" /\ runs \in Seq(RunRecords) /\ OneReusable
      /\ \A i \in DOMAIN runs : Whole(runs[i]) /\ Accounted(runs[i])
    BY TransactionType DEF Commit, IInv, TypeOK
<1>2. CASE ~tx[p].writes
    BY <1>1, <1>2 DEF Commit, OneReusable, ReusableRuns
<1> DEFINE row == tx[p].row
           id == tx[p].id
<1>3. row \in RunRecords /\ id \in Nat
    BY <1>1 DEF Transactions
<1>4. tx[p].writes => Whole(row) /\ Accounted(row)
    BY <1>1 DEF Local
<1>5. CASE tx[p].writes /\ id = 0
  <2>1. runs' = Append(runs, row) /\ ReusableRuns = {}
      BY <1>1, <1>5 DEF Commit, LockHeld
  <2> HIDE DEF row
  <2>2. /\ runs' \in Seq(RunRecords) /\ Len(runs') = Len(runs) + 1 /\ DOMAIN runs' = 1..(Len(runs) + 1)
        /\ \A i \in DOMAIN runs : runs'[i] = runs[i]
        /\ runs'[Len(runs) + 1] = row /\ Len(runs) \in Nat /\ DOMAIN runs = 1..Len(runs)
      BY <1>1, <1>3, <2>1
  <2>3. \A i \in DOMAIN runs' : i \in DOMAIN runs \/ i = Len(runs) + 1
      BY <2>2
  <2>4. \A i \in DOMAIN runs' : Whole(runs'[i]) /\ Accounted(runs'[i])
      BY <1>1, <1>4, <1>5, <2>2, <2>3
  <2>5. \A i \in ReusableRuns' : i = Len(runs) + 1
      BY <2>1, <2>2, <2>3 DEF ReusableRuns
  <2>6. OneReusable'
      BY <2>5 DEF OneReusable
  <2> QED
      BY <1>5, <2>2, <2>4, <2>6
<1>6. CASE tx[p].writes /\ id # 0
  <2>1. runs' = [runs EXCEPT ![id] = row] /\ id \in DOMAIN runs /\ runs[id].status = "PLANNED"
      BY <1>1, <1>6 DEF Commit, LockHeld
  <2> HIDE DEF row, id
  <2>2. /\ runs' \in Seq(RunRecords) /\ Len(runs') = Len(runs) /\ DOMAIN runs' = DOMAIN runs
        /\ \A i \in DOMAIN runs : i # id => runs'[i] = runs[i]
        /\ runs'[id] = row /\ Len(runs) \in Nat
      BY <1>1, <1>3, <2>1
  <2>3. \A i \in DOMAIN runs' : Whole(runs'[i]) /\ Accounted(runs'[i])
      BY <1>1, <1>4, <1>6, <2>1, <2>2
  <2>4. id \in ReusableRuns
      BY <2>1 DEF ReusableRuns, ReusableStatuses
  <2>5. \A i \in ReusableRuns' : i \in ReusableRuns
      BY <2>2, <2>4 DEF ReusableRuns
  <2>6. OneReusable'
      BY <1>1, <2>5 DEF OneReusable
  <2> QED
      BY <1>6, <2>1, <2>2, <2>3, <2>6
<1> QED
    BY <1>2, <1>5, <1>6

\* A commit ends the transaction of the only writer.
LEMMA CommitInv ==
    ASSUME IInv, NEW p \in Processes, Commit(p)
    PROVE  IInv'
<1> DEFINE t == [Idle EXCEPT !.pc = "done"]
<1>1. t \in Transactions /\ Local(t) /\ ~t.writes /\ t.id = 0
    BY IdleFacts
<1>2. tx' = [tx EXCEPT ![p] = t]
    BY DEF Commit
<1> HIDE DEF t
<1>3. runs' \in Seq(RunRecords) /\ Len(runs) <= Len(runs') /\ Len(runs) \in Nat /\ Len(runs') \in Nat
    BY CommitRuns DEF IInv, TypeOK
<1>4. TypeOK'
  <2>1. tx' \in [Processes -> Transactions]
      BY <1>1, <1>2 DEF IInv, TypeOK
  <2>2. \A q \in Processes : tx'[q].id <= Len(runs')
    <3> SUFFICES ASSUME NEW q \in Processes PROVE tx'[q].id <= Len(runs')
        OBVIOUS
    <3>1. tx[q].id <= Len(runs) /\ tx[q].id \in Nat
        BY DEF IInv, TypeOK, Transactions
    <3>2. tx'[q] = t \/ tx'[q] = tx[q]
        BY <1>2 DEF IInv, TypeOK
    <3> QED
        BY <1>1, <1>3, <3>1, <3>2
  <2> QED
      BY <1>3, <2>1, <2>2 DEF TypeOK
<1>5. \A q \in Processes : (Local(tx[q]) /\ LockHeld(tx[q]))'
  <2> SUFFICES ASSUME NEW q \in Processes PROVE (Local(tx[q]) /\ LockHeld(tx[q]))'
      OBVIOUS
  <2>1. CASE q = p
    <3>1. tx'[q] = t
        BY <1>2, <2>1 DEF IInv, TypeOK
    <3> QED
        BY <1>1, <3>1 DEF LockHeld
  <2>2. CASE q # p
    <3>1. tx'[q] = tx[q] /\ Local(tx[q]) /\ LockHeld(tx[q])
        BY <1>2, <2>2 DEF IInv, TypeOK
    <3>2. CASE tx[p].writes
      <4>1. ~tx[q].writes
          BY <2>2, <3>2 DEF IInv, OneWriter
      <4> QED
          BY <3>1, <4>1 DEF LockHeld
    <3>3. CASE ~tx[p].writes
      <4>1. runs' = runs
          BY <3>3, CommitRuns
      <4> QED
          BY <3>1, <4>1 DEF LockHeld, ReusableRuns
    <3> QED
        BY <3>2, <3>3
  <2> QED
      BY <2>1, <2>2
<1>6. OneWriter'
    BY <1>1, <1>2 DEF IInv, TypeOK, OneWriter
<1> QED
    BY <1>4, <1>5, <1>6, CommitRuns DEF IInv

-----------------------------------------------------------------------------
(* The verdict *)

\* Some tool step among the first n ended with one of the statuses.
EndedWith(row, n, keys, statuses) ==
    \E i \in StepIndex : i <= n /\ Plan[i] \in keys /\ row.steps[i] \in statuses

DataTools == Tools \ {"get_data_snapshot"}

\* Evidence that supports a claim comes from where the verdict looks for it.
EvidenceTraced(row, n) ==
    /\ \A e \in row.evidence :
          /\ e.type = "SECURITY_MASTER_EVIDENCE" => e.key = "resolve_security"
          /\ e.type = "DATA_QUALITY_EVIDENCE" => EndedWith(row, n, DataTools, {"PARTIAL"})
    /\ EndedWith(row, n, DataTools, {"PARTIAL"}) =>
          \E e \in row.evidence : e.type = "DATA_QUALITY_EVIDENCE" /\ e.status = "VALID"

\* What the flags, the steps and the evidence of a transaction say after n steps.
Judged(t, n) ==
    /\ t.failed <=> EndedWith(t.row, n, Tools, {"FAIL"})
    /\ t.blocked <=> EndedWith(t.row, n, Tools, {"BLOCKED", "FAIL"})
    /\ \A v \in StepIndex : Plan[v] = "validate_evidence" /\ v <= n =>
          (t.row.steps[v] = "BLOCKED" <=> t.blocked)
    /\ EvidenceTraced(t.row, n)

JudgedSoFar(t) ==
    /\ t.pc \notin {"step", "assemble", "commit"} => ~t.blocked /\ ~t.failed
    /\ t.pc = "step" => Judged(t, t.step - 1)
    /\ t.pc = "assemble" => Judged(t, Len(Plan))
    /\ t.pc = "commit" /\ t.writes /\ t.row.status \in TerminalStatuses => Verdict(t.row)

VerdictInv == (\A p \in Processes : JudgedSoFar(tx[p])) /\ VerdictFromSteps

\* The package of some evidence: FAILED, or PARTIAL where a claim is supported, or
\* BLOCKED; LIMITATION never passes.
LEMMA PackageVerdict ==
    ASSUME NEW evidence \in SUBSET EvidenceRecords, NEW failed \in BOOLEAN
    PROVE  LET supported == \E e \in evidence : /\ e.status = "VALID"
                                                /\ e.type \in {"SECURITY_MASTER_EVIDENCE",
                                                               "DATA_QUALITY_EVIDENCE"}
           IN  PackageStatus(evidence, failed) =
                 IF failed THEN "FAILED" ELSE IF supported THEN "PARTIAL" ELSE "BLOCKED"
<1> DEFINE claims == Claims(evidence)
           valid(type) == \E e \in evidence : e.status = "VALID" /\ e.type = type
           limited == \E e \in evidence : e.type = "BLOCKED_CAPABILITY_EVIDENCE"
           support(section) == {c.support : c \in {x \in claims : x.type = section}}
<1>1. \A c : c \in claims <=>
        \/ limited /\ c = [type |-> "LIMITATION", support |-> "BLOCKED"]
        \/ valid("SECURITY_MASTER_EVIDENCE") /\ c = [type |-> "IDENTITY", support |-> "SUPPORTED"]
        \/ valid("DATA_QUALITY_EVIDENCE") /\ c = [type |-> "DATA_QUALITY", support |-> "SUPPORTED"]
    BY DEF Claims
<1> HIDE DEF claims
<1>2. support("LIMITATION") = IF limited THEN {"BLOCKED"} ELSE {}
  <2>1. \A c \in claims : c.type = "LIMITATION" => limited /\ c.support = "BLOCKED"
      BY <1>1
  <2>2. limited => \E c \in claims : c.type = "LIMITATION" /\ c.support = "BLOCKED"
    <3> DEFINE c == [type |-> "LIMITATION", support |-> "BLOCKED"]
    <3>1. c.type = "LIMITATION" /\ c.support = "BLOCKED" /\ (limited => c \in claims)
        BY <1>1
    <3> QED
        BY <3>1
  <2> QED
      BY <2>1, <2>2
<1>3. support("IDENTITY") = IF valid("SECURITY_MASTER_EVIDENCE") THEN {"SUPPORTED"} ELSE {}
  <2>1. \A c \in claims : c.type = "IDENTITY" => valid("SECURITY_MASTER_EVIDENCE") /\ c.support = "SUPPORTED"
      BY <1>1
  <2>2. valid("SECURITY_MASTER_EVIDENCE") => \E c \in claims : c.type = "IDENTITY" /\ c.support = "SUPPORTED"
    <3> DEFINE c == [type |-> "IDENTITY", support |-> "SUPPORTED"]
    <3>1. c.type = "IDENTITY" /\ c.support = "SUPPORTED" /\ (valid("SECURITY_MASTER_EVIDENCE") => c \in claims)
        BY <1>1
    <3> QED
        BY <3>1
  <2> QED
      BY <2>1, <2>2
<1>4. support("DATA_QUALITY") = IF valid("DATA_QUALITY_EVIDENCE") THEN {"SUPPORTED"} ELSE {}
  <2>1. \A c \in claims : c.type = "DATA_QUALITY" => valid("DATA_QUALITY_EVIDENCE") /\ c.support = "SUPPORTED"
      BY <1>1
  <2>2. valid("DATA_QUALITY_EVIDENCE") => \E c \in claims : c.type = "DATA_QUALITY" /\ c.support = "SUPPORTED"
    <3> DEFINE c == [type |-> "DATA_QUALITY", support |-> "SUPPORTED"]
    <3>1. c.type = "DATA_QUALITY" /\ c.support = "SUPPORTED" /\ (valid("DATA_QUALITY_EVIDENCE") => c \in claims)
        BY <1>1
    <3> QED
        BY <3>1
  <2> QED
      BY <2>1, <2>2
<1>5. SectionStatus("LIMITATION", claims) = IF limited THEN "BLOCKED" ELSE "NO_EVIDENCE"
  <2>1. CASE limited
    <3>1. support("LIMITATION") = {"BLOCKED"}
        BY <1>2, <2>1
    <3> QED
        BY <2>1, <3>1 DEF SectionStatus
  <2>2. CASE ~limited
    <3>1. support("LIMITATION") = {}
        BY <1>2, <2>2
    <3> QED
        BY <2>2, <3>1 DEF SectionStatus
  <2> QED
      BY <2>1, <2>2
<1>6. SectionStatus("IDENTITY", claims)
        = IF valid("SECURITY_MASTER_EVIDENCE") THEN "PASS" ELSE "NO_EVIDENCE"
  <2>1. CASE valid("SECURITY_MASTER_EVIDENCE")
    <3>1. support("IDENTITY") = {"SUPPORTED"}
        BY <1>3, <2>1
    <3> QED
        BY <2>1, <3>1 DEF SectionStatus
  <2>2. CASE ~valid("SECURITY_MASTER_EVIDENCE")
    <3>1. support("IDENTITY") = {}
        BY <1>3, <2>2
    <3> QED
        BY <2>2, <3>1 DEF SectionStatus
  <2> QED
      BY <2>1, <2>2
<1>7. SectionStatus("DATA_QUALITY", claims)
        = IF valid("DATA_QUALITY_EVIDENCE") THEN "PASS" ELSE "NO_EVIDENCE"
  <2>1. CASE valid("DATA_QUALITY_EVIDENCE")
    <3>1. support("DATA_QUALITY") = {"SUPPORTED"}
        BY <1>4, <2>1
    <3> QED
        BY <2>1, <3>1 DEF SectionStatus
  <2>2. CASE ~valid("DATA_QUALITY_EVIDENCE")
    <3>1. support("DATA_QUALITY") = {}
        BY <1>4, <2>2
    <3> QED
        BY <2>2, <3>1 DEF SectionStatus
  <2> QED
      BY <2>1, <2>2
<1> DEFINE active == {SectionStatus(s, Claims(evidence)) : s \in RequestedSections}
           supported == valid("SECURITY_MASTER_EVIDENCE") \/ valid("DATA_QUALITY_EVIDENCE")
<1>8. active = {SectionStatus("IDENTITY", claims), SectionStatus("DATA_QUALITY", claims),
                SectionStatus("LIMITATION", claims)}
    BY DEF RequestedSections, claims
<1>9. active # {"PASS"}
    BY <1>5, <1>8
<1>10. active \subseteq {"BLOCKED", "NO_EVIDENCE"} <=> ~supported
    BY <1>5, <1>6, <1>7, <1>8
<1>11. PackageStatus(evidence, failed) =
         IF failed THEN "FAILED" ELSE IF supported THEN "PARTIAL" ELSE "BLOCKED"
  <2>1. PackageStatus(evidence, failed) =
          CASE failed -> "FAILED"
            [] ~failed /\ active = {"PASS"} -> "COMPLETED"
            [] ~failed /\ active \subseteq {"BLOCKED", "NO_EVIDENCE"} -> "BLOCKED"
            [] OTHER -> "PARTIAL"
      BY DEF PackageStatus
  <2> HIDE DEF active, supported
  <2> QED
      BY <1>9, <1>10, <2>1
<1> QED
    BY <1>11

\* The verdict of the transactions that do not move is the same.
LEMMA VerdictMove ==
    ASSUME IInv, VerdictInv, NEW p \in Processes, NEW t, tx' = [tx EXCEPT ![p] = t],
           UNCHANGED runs, JudgedSoFar(t)
    PROVE  VerdictInv'
<1>1. ASSUME NEW q \in Processes PROVE JudgedSoFar(tx[q])'
  <2>1. tx'[q] = t \/ tx'[q] = tx[q]
      BY DEF IInv, TypeOK
  <2> QED
      BY <2>1 DEF VerdictInv, JudgedSoFar, Judged, EvidenceTraced, EndedWith, Verdict
<1>2. VerdictFromSteps'
    BY DEF VerdictInv, VerdictFromSteps, Verdict
<1> QED
    BY <1>1, <1>2 DEF VerdictInv

\* One more step of a run.
LEMMA EndedStep ==
    ASSUME NEW k \in StepIndex, NEW status, NEW old, NEW new, NEW keys, NEW statuses,
           old.steps \in [StepIndex -> StepStatuses],
           new.steps = [old.steps EXCEPT ![k] = status]
    PROVE  EndedWith(new, k, keys, statuses) <=>
             EndedWith(old, k - 1, keys, statuses) \/ (Plan[k] \in keys /\ status \in statuses)
<1>1. \A i \in StepIndex : (i <= k <=> i <= k - 1 \/ i = k) /\ (i <= k - 1 => i # k)
    BY DEF StepIndex
<1>2. \A i \in StepIndex : i # k => new.steps[i] = old.steps[i]
    OBVIOUS
<1>3. new.steps[k] = status /\ k <= k
    BY DEF StepIndex
<1> QED
    BY <1>1, <1>2, <1>3 DEF EndedWith

\* The memory of a transaction after a step.
LEMMA NextStepFields ==
    ASSUME IInv, NEW p \in Processes, NEW row, NEW blocked \in BOOLEAN, NEW failed \in BOOLEAN,
           NextStep(p, row, blocked, failed)
    PROVE  \E t : /\ tx' = [tx EXCEPT ![p] = t] /\ UNCHANGED runs
                  /\ t.row = row /\ t.step = tx[p].step + 1
                  /\ t.writes = tx[p].writes /\ t.id = tx[p].id
                  /\ t.blocked <=> tx[p].blocked \/ blocked
                  /\ t.failed <=> tx[p].failed \/ failed
                  /\ t.pc = IF tx[p].step = Len(Plan) THEN "assemble" ELSE "step"
<1> DEFINE label == IF tx[p].step = Len(Plan) THEN "assemble" ELSE "step"
           anyBlocked == tx[p].blocked \/ blocked
           anyFailed == tx[p].failed \/ failed
           t == [tx[p] EXCEPT !.row = row, !.blocked = anyBlocked, !.failed = anyFailed,
                              !.step = tx[p].step + 1, !.pc = label]
<1>1. tx[p] \in Transactions
    BY TransactionType
<1>2. tx' = [tx EXCEPT ![p].row = row, ![p].blocked = anyBlocked, ![p].failed = anyFailed,
                       ![p].step = tx[p].step + 1, ![p].pc = label] /\ UNCHANGED runs
    BY DEF NextStep
<1> HIDE DEF label, anyBlocked, anyFailed
<1>3. tx' = [tx EXCEPT ![p] = t]
    BY <1>1, <1>2 DEF IInv, TypeOK, Transactions
<1>4. /\ t.row = row /\ t.step = tx[p].step + 1 /\ t.blocked = anyBlocked
      /\ t.failed = anyFailed /\ t.pc = label
      /\ t.writes = tx[p].writes /\ t.id = tx[p].id
    BY <1>1 DEF Transactions
<1> HIDE DEF t
<1> QED
    BY <1>2, <1>3, <1>4 DEF label, anyBlocked, anyFailed

\* A step keeps the judgement: what remains to be shown is about the flags, the
\* validation step and the evidence.
LEMMA JudgedNext ==
    ASSUME IInv, VerdictInv, NEW p \in Processes, tx[p].pc = "step", NEW status,
           NEW row, NEW blocked \in BOOLEAN, NEW failed \in BOOLEAN,
           NextStep(p, row, blocked, failed),
           row.steps = [tx[p].row.steps EXCEPT ![tx[p].step] = status],
           blocked <=> Plan[tx[p].step] \in Tools /\ status \in {"BLOCKED", "FAIL"},
           failed <=> Plan[tx[p].step] \in Tools /\ status = "FAIL",
           Plan[tx[p].step] = "validate_evidence" => (status = "BLOCKED" <=> tx[p].blocked),
           EvidenceTraced(row, tx[p].step)
    PROVE  VerdictInv'
<1> DEFINE k == tx[p].step
           old == tx[p].row
<1>1. PICK t : /\ tx' = [tx EXCEPT ![p] = t] /\ UNCHANGED runs
               /\ t.row = row /\ t.step = tx[p].step + 1
               /\ t.blocked <=> tx[p].blocked \/ blocked
               /\ t.failed <=> tx[p].failed \/ failed
               /\ t.pc = IF tx[p].step = Len(Plan) THEN "assemble" ELSE "step"
    BY NextStepFields
<1>2. /\ k \in StepIndex /\ Judged(tx[p], k - 1) /\ old.steps \in [StepIndex -> StepStatuses]
    BY TransactionType DEF Local, VerdictInv, JudgedSoFar, Transactions, RunRecords
<1>3. /\ EndedWith(row, k, Tools, {"FAIL"}) <=>
           EndedWith(old, k - 1, Tools, {"FAIL"}) \/ (Plan[k] \in Tools /\ status \in {"FAIL"})
      /\ EndedWith(row, k, Tools, {"BLOCKED", "FAIL"}) <=>
           \/ EndedWith(old, k - 1, Tools, {"BLOCKED", "FAIL"})
           \/ Plan[k] \in Tools /\ status \in {"BLOCKED", "FAIL"}
  <2>1. row.steps = [old.steps EXCEPT ![k] = status]
      OBVIOUS
  <2> HIDE DEF k, old
  <2>2. \A statuses : EndedWith(row, k, Tools, statuses) <=>
          EndedWith(old, k - 1, Tools, statuses) \/ (Plan[k] \in Tools /\ status \in statuses)
      BY <1>2, <2>1, EndedStep
  <2> QED
      BY <2>2
<1>4. t.failed <=> EndedWith(t.row, k, Tools, {"FAIL"})
    BY <1>1, <1>2, <1>3 DEF Judged
<1>5. t.blocked <=> EndedWith(t.row, k, Tools, {"BLOCKED", "FAIL"})
    BY <1>1, <1>2, <1>3 DEF Judged
<1>6. ASSUME NEW v \in StepIndex, Plan[v] = "validate_evidence", v <= k
      PROVE  t.row.steps[v] = "BLOCKED" <=> t.blocked
  <2>1. ~blocked
    <3>1. Plan[k] \in Tools => k < v
        BY <1>2, <1>6, PlanAssumption
    <3> QED
        BY <1>2, <1>6, <3>1 DEF StepIndex
  <2>2. CASE v = k
      BY <1>1, <1>2, <1>6, <2>1, <2>2
  <2>3. CASE v # k
    <3>1. t.row.steps[v] = old.steps[v] /\ v <= k - 1
        BY <1>1, <1>2, <1>6, <2>3 DEF StepIndex
    <3> QED
        BY <1>1, <1>2, <1>6, <2>1, <3>1 DEF Judged
  <2> QED
      BY <2>2, <2>3
<1>7. Judged(t, k)
    BY <1>1, <1>4, <1>5, <1>6 DEF Judged
<1>8. JudgedSoFar(t)
  <2>1. (t.step - 1 = k) /\ (k = Len(Plan) => Judged(t, Len(Plan)))
      BY <1>1, <1>2, <1>7 DEF StepIndex
  <2> QED
      BY <1>1, <1>7, <2>1 DEF JudgedSoFar
<1> QED
    BY <1>1, <1>8, VerdictMove

\* The evidence that a step adds, in terms of its key and of how it ended.
StepEvidence(added, key, status) ==
    /\ \A e \in added :
          /\ e.type = "SECURITY_MASTER_EVIDENCE" => e.key = "resolve_security"
          /\ e.type = "DATA_QUALITY_EVIDENCE" => key \in DataTools /\ status = "PARTIAL"
    /\ key \in DataTools /\ status = "PARTIAL" =>
          \E e \in added : e.type = "DATA_QUALITY_EVIDENCE" /\ e.status = "VALID"

\* What one step makes of the trace of the evidence.
LEMMA TracedStep ==
    ASSUME NEW k \in StepIndex, NEW status, NEW old, NEW new, NEW added,
           old.steps \in [StepIndex -> StepStatuses],
           new.steps = [old.steps EXCEPT ![k] = status],
           new.evidence = old.evidence \cup added,
           EvidenceTraced(old, k - 1), StepEvidence(added, Plan[k], status)
    PROVE  EvidenceTraced(new, k)
<1>1. EndedWith(new, k, DataTools, {"PARTIAL"}) <=>
        EndedWith(old, k - 1, DataTools, {"PARTIAL"}) \/ (Plan[k] \in DataTools /\ status \in {"PARTIAL"})
    BY EndedStep
<1>2. ASSUME NEW e \in new.evidence
      PROVE  /\ e.type = "SECURITY_MASTER_EVIDENCE" => e.key = "resolve_security"
             /\ e.type = "DATA_QUALITY_EVIDENCE" => EndedWith(new, k, DataTools, {"PARTIAL"})
    BY <1>1, <1>2 DEF EvidenceTraced, StepEvidence
<1>3. EndedWith(new, k, DataTools, {"PARTIAL"}) =>
        \E e \in new.evidence : e.type = "DATA_QUALITY_EVIDENCE" /\ e.status = "VALID"
    BY <1>1 DEF EvidenceTraced, StepEvidence
<1> QED
    BY <1>2, <1>3 DEF EvidenceTraced

\* The transaction that is about to execute a step.
LEMMA StepFacts ==
    ASSUME IInv, VerdictInv, NEW p \in Processes, tx[p].pc = "step"
    PROVE  /\ tx[p].step \in StepIndex /\ Step(p) = Plan[tx[p].step]
           /\ tx[p].row \in RunRecords /\ tx[p].row.steps \in [StepIndex -> StepStatuses]
           /\ Judged(tx[p], tx[p].step - 1)
<1>1. tx[p] \in Transactions /\ Local(tx[p]) /\ JudgedSoFar(tx[p])
    BY TransactionType DEF VerdictInv
<1>2. tx[p].row \in RunRecords
    BY <1>1 DEF Transactions
<1>3. tx[p].row.steps \in [StepIndex -> StepStatuses]
    BY <1>2 DEF RunRecords
<1> QED
    BY <1>1, <1>2, <1>3 DEF Local, JudgedSoFar, Step

\* A component step never blocks or fails the Run; only resolve_security leaves
\* evidence, of the identity.
LEMMA ComponentVerdict ==
    ASSUME IInv, VerdictInv, NEW p \in Processes, ExecuteComponent(p)
    PROVE  VerdictInv'
<1> DEFINE k == tx[p].step
           old == tx[p].row
           done == [old EXCEPT !.steps[k] = ComponentStatus(p)]
           with(status) == [done EXCEPT !.evidence = @ \cup
                               {Evidence(Step(p), "SECURITY_MASTER_EVIDENCE", status)}]
<1>1. /\ tx[p].pc = "step" /\ k \in StepIndex /\ Step(p) = Plan[k] /\ old \in RunRecords
      /\ old.steps \in [StepIndex -> StepStatuses] /\ Judged(tx[p], k - 1)
      /\ Plan[k] \in Components /\ Plan[k] \notin Tools
    BY StepFacts, PlanFacts DEF ExecuteComponent
<1>2. ComponentStatus(p) = IF Plan[k] = "validate_evidence" /\ tx[p].blocked THEN "BLOCKED" ELSE "PASS"
    BY <1>1 DEF ComponentStatus
<1>3. /\ done.steps = [old.steps EXCEPT ![k] = ComponentStatus(p)]
      /\ done.evidence = old.evidence /\ DOMAIN done = DOMAIN old
    BY <1>1 DEF RunRecords
<1>4. /\ EvidenceTraced(old, k - 1) /\ Plan[k] \notin DataTools
      /\ Plan[k] = "validate_evidence" => (ComponentStatus(p) = "BLOCKED" <=> tx[p].blocked)
    BY <1>1, <1>2 DEF Judged, DataTools
<1> HIDE DEF done
<1>5. CASE NextStep(p, done, FALSE, FALSE)
  <2>1. done.evidence = old.evidence \cup {} /\ StepEvidence({}, Plan[k], ComponentStatus(p))
      BY <1>3, <1>4 DEF StepEvidence
  <2>2. EvidenceTraced(done, k)
      BY <1>1, <1>3, <1>4, <2>1, TracedStep
  <2> QED
      BY <1>1, <1>3, <1>4, <1>5, <2>2, JudgedNext
<1>6. ASSUME NEW status \in {"VALID", "INVALID"}, NextStep(p, with(status), FALSE, FALSE),
             Step(p) = "resolve_security"
      PROVE  VerdictInv'
  <2> DEFINE e == Evidence(Step(p), "SECURITY_MASTER_EVIDENCE", status)
             row == with(status)
  <2>1. row.steps = done.steps /\ row.evidence = old.evidence \cup {e}
      BY <1>1, <1>3 DEF RunRecords
  <2>2. e.type = "SECURITY_MASTER_EVIDENCE" /\ e.key = "resolve_security"
      BY <1>6 DEF Evidence
  <2>3. NextStep(p, row, FALSE, FALSE)
      BY <1>6
  <2> HIDE DEF e, row
  <2>4. StepEvidence({e}, Plan[k], ComponentStatus(p))
      BY <1>4, <2>2 DEF StepEvidence
  <2>5. EvidenceTraced(row, k)
      BY <1>1, <1>3, <1>4, <2>1, <2>4, TracedStep
  <2> QED
      BY <1>1, <1>3, <1>4, <2>1, <2>3, <2>5, JudgedNext
<1> QED
    BY <1>5, <1>6 DEF ExecuteComponent, done

\* The evidence that a tool leaves: of data quality exactly when its result was
\* partial, which a result without observation never is.
LEMMA ToolEvidence ==
    ASSUME NEW b, NEW t \in Tools, NEW o \in Outcomes(b, t)
    PROVE  LET status == o.result.status
               evidence == IF o.result.observed THEN Admitted(t, status) ELSE {}
           IN  /\ status \in {"PASS", "PARTIAL", "BLOCKED", "FAIL"}
               /\ StepEvidence(evidence, t, status)
<1> DEFINE r == o.result
           status == r.status
<1>1. r \in Results \cup {Failure}
    BY DEF Outcomes
<1> HIDE DEF r
<1>2. status \in {"PASS", "PARTIAL", "BLOCKED", "FAIL"} /\ (status = "PARTIAL" => r.observed = TRUE)
  <2>1. CASE r \in Results
      BY <2>1 DEF Results
  <2>2. CASE r = Failure
      BY <2>2 DEF Failure
  <2> QED
      BY <1>1, <2>1, <2>2
<1> HIDE DEF status
<1>3. \A e \in Admitted(t, status) :
        /\ e.type # "SECURITY_MASTER_EVIDENCE"
        /\ e.type = "DATA_QUALITY_EVIDENCE" => t # "get_data_snapshot" /\ status = "PARTIAL"
    BY <1>2 DEF Admitted, Evidence
<1>4. t # "get_data_snapshot" /\ status = "PARTIAL" =>
        \E e \in Admitted(t, status) : e.type = "DATA_QUALITY_EVIDENCE" /\ e.status = "VALID"
    BY DEF Admitted, Evidence
<1>5. t \in DataTools <=> t # "get_data_snapshot"
    BY DEF DataTools
<1> QED
    BY <1>2, <1>3, <1>4, <1>5 DEF status, r, StepEvidence

\* A tool step blocks the Run when its result is not usable.
LEMMA ToolVerdict ==
    ASSUME IInv, VerdictInv, NEW p \in Processes, ExecuteTool(p)
    PROVE  VerdictInv'
<1> DEFINE k == tx[p].step
           old == tx[p].row
<1>1. /\ tx[p].pc = "step" /\ k \in StepIndex /\ Step(p) = Plan[k] /\ old \in RunRecords
      /\ old.steps \in [StepIndex -> StepStatuses] /\ Judged(tx[p], k - 1)
      /\ Plan[k] \in Tools /\ Plan[k] \notin Components
    BY StepFacts, PlanFacts DEF ExecuteTool, CanCallTool, Tools
<1>2. PICK o \in Outcomes(old.budget, Plan[k]) : EndTool(p, o)
    BY <1>1 DEF ExecuteTool
<1> DEFINE status == o.result.status
           added == IF o.result.observed THEN Admitted(Plan[k], status) ELSE {}
           row == [old EXCEPT !.steps[k] = status, !.budget = o.budget, !.evidence = @ \cup added]
           unusable == status \in {"BLOCKED", "FAIL"}
           failed == status = "FAIL"
<1>3. /\ status \in {"PASS", "PARTIAL", "BLOCKED", "FAIL"}
      /\ StepEvidence(added, Plan[k], status)
    BY <1>1, ToolEvidence
<1>4. NextStep(p, row, unusable, failed)
    BY <1>1, <1>2 DEF EndTool
<1> HIDE DEF status, added
<1>5. row.steps = [old.steps EXCEPT ![k] = status] /\ row.evidence = old.evidence \cup added
    BY <1>1 DEF RunRecords
<1> HIDE DEF row
<1>6. EvidenceTraced(row, k)
  <2>1. EvidenceTraced(old, k - 1)
      BY <1>1 DEF Judged
  <2> HIDE DEF k, old
  <2> QED
      BY <1>1, <1>3, <1>5, <2>1, TracedStep
<1>7. /\ unusable \in BOOLEAN /\ failed \in BOOLEAN
      /\ unusable <=> status \in {"BLOCKED", "FAIL"}
      /\ failed <=> status = "FAIL"
    OBVIOUS
<1>8. Plan[k] # "validate_evidence"
    BY <1>1 DEF Components
<1> HIDE DEF unusable, failed
<1> QED
    BY <1>1, <1>4, <1>5, <1>6, <1>7, <1>8, JudgedNext

\* A transaction that has ended, or has not begun, has judged nothing.
LEMMA IdleVerdict ==
    ASSUME NEW label \in {"begin", "done", "failed"}
    PROVE  JudgedSoFar([Idle EXCEPT !.pc = label])
<1> DEFINE t == [Idle EXCEPT !.pc = label]
<1>1. Idle \in Transactions /\ Idle.blocked = FALSE /\ Idle.failed = FALSE
    BY NewRunFacts DEF Idle, Transactions, Labels
<1>2. t.pc = label /\ t.blocked = FALSE /\ t.failed = FALSE
    BY <1>1 DEF Transactions
<1> HIDE DEF t
<1>3. JudgedSoFar(t)
    BY <1>2 DEF JudgedSoFar
<1> QED
    BY <1>3 DEF t

LEMMA RollbackVerdict ==
    ASSUME IInv, VerdictInv, NEW p \in Processes, Rollback(p)
    PROVE  VerdictInv'
    BY IdleVerdict, VerdictMove DEF Rollback

\* Before its execution a transaction finds nothing, and what it may commit is a
\* PLANNED Run or nothing.
LEMMA PrepareVerdict ==
    ASSUME IInv, VerdictInv, NEW p \in Processes,
           Begin(p) \/ FindReusable(p) \/ Insert(p) \/ FindWinner(p) \/ CreatePlan(p)
    PROVE  VerdictInv'
<1>1. tx \in [Processes -> Transactions] /\ tx[p] \in Transactions /\ Local(tx[p])
      /\ JudgedSoFar(tx[p])
    BY TransactionType DEF IInv, TypeOK, VerdictInv
<1>2. CASE Rollback(p)
    BY <1>2, RollbackVerdict
<1>3. ASSUME NEW t, tx' = [tx EXCEPT ![p] = t], UNCHANGED runs, t.blocked = tx[p].blocked,
             t.failed = tx[p].failed, t.pc \notin {"step", "assemble"},
             tx[p].pc \notin {"step", "assemble", "commit"},
             t.pc = "commit" /\ t.writes => t.row.status = "PLANNED"
      PROVE  VerdictInv'
  <2>1. JudgedSoFar(t)
      BY <1>1, <1>3 DEF JudgedSoFar, TerminalStatuses
  <2> QED
      BY <1>3, <2>1, VerdictMove
<1>4. CASE Begin(p)
  <2>1. PICK command \in {"plan", "run"} : tx' = [tx EXCEPT ![p].pc = "find", ![p].command = command]
      BY <1>4 DEF Begin
  <2> DEFINE t == [tx[p] EXCEPT !.pc = "find", !.command = command]
  <2>2. tx' = [tx EXCEPT ![p] = t] /\ UNCHANGED runs /\ tx[p].pc = "begin"
      BY <1>1, <1>4, <2>1 DEF Begin
  <2>3. t.pc = "find" /\ t.blocked = tx[p].blocked /\ t.failed = tx[p].failed
      BY <1>1 DEF Transactions
  <2> HIDE DEF t
  <2> QED
      BY <1>3, <2>2, <2>3
<1>5. ASSUME NEW i \in ReusableRuns, Reuse(p, i), UNCHANGED runs, tx[p].pc \in {"find", "winner"}
      PROVE  VerdictInv'
  <2> DEFINE label == IF tx[p].command = "run" /\ runs[i].status = "PLANNED" THEN "start" ELSE "commit"
             t == [tx[p] EXCEPT !.id = i, !.pc = label]
  <2>1. tx' = [tx EXCEPT ![p] = t] /\ label \in {"start", "commit"}
      BY <1>1, <1>5 DEF Reuse
  <2> HIDE DEF label
  <2>2. /\ t.pc = label /\ t.blocked = tx[p].blocked /\ t.failed = tx[p].failed
        /\ t.writes = tx[p].writes
      BY <1>1 DEF Transactions
  <2>3. ~tx[p].writes
      BY <1>1, <1>5 DEF Local
  <2> HIDE DEF t
  <2> QED
      BY <1>3, <1>5, <2>1, <2>2, <2>3
<1>6. ASSUME NEW label \in {"insert", "winner"}, tx[p].pc \in {"find", "insert"},
             tx' = [tx EXCEPT ![p].pc = label], UNCHANGED runs
      PROVE  VerdictInv'
  <2> DEFINE t == [tx[p] EXCEPT !.pc = label]
  <2>1. tx' = [tx EXCEPT ![p] = t]
      BY <1>1, <1>6
  <2>2. t.pc = label /\ t.blocked = tx[p].blocked /\ t.failed = tx[p].failed
      BY <1>1 DEF Transactions
  <2> HIDE DEF t
  <2> QED
      BY <1>3, <1>6, <2>1, <2>2
<1>7. ASSUME tx[p].pc = "insert", tx' = [tx EXCEPT ![p].pc = "plan", ![p].writes = TRUE],
             UNCHANGED runs
      PROVE  VerdictInv'
  <2> DEFINE t == [tx[p] EXCEPT !.pc = "plan", !.writes = TRUE]
  <2>1. tx' = [tx EXCEPT ![p] = t]
      BY <1>1, <1>7
  <2>2. t.pc = "plan" /\ t.blocked = tx[p].blocked /\ t.failed = tx[p].failed
      BY <1>1 DEF Transactions
  <2> HIDE DEF t
  <2> QED
      BY <1>3, <1>7, <2>1, <2>2
<1>8. CASE CreatePlan(p)
  <2> DEFINE label == IF tx[p].command = "run" THEN "start" ELSE "commit"
             row == [tx[p].row EXCEPT !.status = "PLANNED"]
             t == [tx[p] EXCEPT !.row = row, !.pc = label]
  <2>1. tx' = [tx EXCEPT ![p] = t] /\ UNCHANGED runs /\ tx[p].pc = "plan"
      BY <1>1, <1>8 DEF CreatePlan, Transactions
  <2>2. label \in {"start", "commit"}
      OBVIOUS
  <2>3. row.status = "PLANNED"
      BY <1>1 DEF Transactions, RunRecords
  <2> HIDE DEF label, row
  <2>4. t.pc = label /\ t.blocked = tx[p].blocked /\ t.failed = tx[p].failed /\ t.row = row
      BY <1>1 DEF Transactions
  <2> HIDE DEF t
  <2> QED
      BY <1>3, <2>1, <2>2, <2>3, <2>4
<1>9. CASE FindReusable(p)
    BY <1>5, <1>6, <1>9 DEF FindReusable
<1>10. CASE FindWinner(p)
    BY <1>2, <1>5, <1>10 DEF FindWinner
<1>11. CASE Insert(p)
    BY <1>6, <1>7, <1>11 DEF Insert
<1> QED
    BY <1>4, <1>8, <1>9, <1>10, <1>11

\* A Run whose execution starts has no step ended and no evidence.
LEMMA StartVerdict ==
    ASSUME IInv, VerdictInv, NEW p \in Processes, StartExecution(p)
    PROVE  VerdictInv'
<1> DEFINE row == IF tx[p].id = 0 THEN tx[p].row ELSE runs[tx[p].id]
           t == [tx[p] EXCEPT !.pc = "step", !.writes = TRUE, !.row = [row EXCEPT !.status = "RUNNING"]]
<1>1. /\ tx \in [Processes -> Transactions] /\ tx[p] \in Transactions /\ Local(tx[p])
      /\ JudgedSoFar(tx[p]) /\ tx[p].pc = "start" /\ tx[p].id <= Len(runs)
    BY TransactionType DEF IInv, TypeOK, VerdictInv, StartExecution
<1>2. CASE Rollback(p)
    BY <1>2, RollbackVerdict
<1>3. CASE row.status = "PLANNED" /\ tx' = [tx EXCEPT ![p] = t] /\ UNCHANGED runs
  <2>1. tx[p].id # 0 => tx[p].id \in DOMAIN runs
      BY <1>1 DEF IInv, TypeOK, Transactions
  <2>2. row = PlannedRun
    <3>1. CASE tx[p].id = 0
        BY <3>1, <1>1 DEF Local
    <3>2. CASE tx[p].id # 0
        BY <3>2, <2>1, <1>3 DEF IInv, Whole, PlannedRun, TerminalStatuses
    <3> QED
        BY <3>1, <3>2
  <2>3. t = [tx[p] EXCEPT !.pc = "step", !.writes = TRUE, !.row = RunningRun]
      BY <2>2 DEF RunningRun
  <2> HIDE DEF t, row
  <2>4. /\ t.pc = "step" /\ t.row = RunningRun /\ t.step = 1
        /\ t.blocked = tx[p].blocked /\ t.failed = tx[p].failed
      BY <1>1, <2>3 DEF Transactions, Local
  <2>5. ~t.blocked /\ ~t.failed
      BY <1>1, <2>4 DEF JudgedSoFar
  <2>6. RunningRun.evidence = {}
    <3>1. PlannedRun.evidence = NewRun.evidence
        BY NewRunFacts DEF PlannedRun, RunRecords
    <3>2. RunningRun.evidence = PlannedRun.evidence
        BY NewRunFacts DEF RunningRun, RunRecords
    <3> QED
        BY <3>1, <3>2 DEF NewRun
  <2>7. \A keys, statuses : ~EndedWith(t.row, 0, keys, statuses)
      BY DEF EndedWith, StepIndex
  <2>8. \A v \in StepIndex : ~(v <= 0)
      BY DEF StepIndex
  <2>9. Judged(t, 0)
      BY <2>4, <2>5, <2>6, <2>7, <2>8 DEF Judged, EvidenceTraced
  <2>10. JudgedSoFar(t)
      BY <2>4, <2>9 DEF JudgedSoFar
  <2> QED
      BY <1>3, <2>10, VerdictMove
<1>4. Rollback(p) \/ (row.status = "PLANNED" /\ tx' = [tx EXCEPT ![p] = t] /\ UNCHANGED runs)
    BY DEF StartExecution, IInv, TypeOK
<1> QED
    BY <1>2, <1>3, <1>4

\* The plan names every step once.
LEMMA StepOfPlan ==
    ASSUME NEW i \in StepIndex
    PROVE  StepOf(Plan[i]) = i
    BY PlanAssumption DEF StepOf

\* Every step has ended: the tool that ended so, by its key.
LEMMA EndedAll ==
    ASSUME NEW row, NEW keys \in SUBSET Tools, NEW status
    PROVE  EndedWith(row, Len(Plan), keys, {status}) <=>
             \E key \in keys : row.steps[StepOf(key)] = status
<1>1. \A i \in StepIndex : i <= Len(Plan)
    BY DEF StepIndex
<1>2. \A key \in keys : StepOf(key) \in StepIndex /\ Plan[StepOf(key)] = key
    BY PlanFacts, StepOfPlan
<1>3. ASSUME EndedWith(row, Len(Plan), keys, {status})
      PROVE  \E key \in keys : row.steps[StepOf(key)] = status
  <2>1. PICK i \in StepIndex : Plan[i] \in keys /\ row.steps[i] \in {status}
      BY <1>3 DEF EndedWith
  <2>2. StepOf(Plan[i]) = i
      BY StepOfPlan
  <2> QED
      BY <2>1, <2>2
<1>4. ASSUME NEW key \in keys, row.steps[StepOf(key)] = status
      PROVE  EndedWith(row, Len(Plan), keys, {status})
    BY <1>1, <1>2, <1>4 DEF EndedWith
<1> QED
    BY <1>3, <1>4

\* The same for all tools and for the tools that bring data.
LEMMA EndedTools ==
    ASSUME NEW row
    PROVE  /\ \A status : EndedWith(row, Len(Plan), Tools, {status})
                            <=> \E key \in Tools : row.steps[StepOf(key)] = status
           /\ EndedWith(row, Len(Plan), DataTools, {"PARTIAL"})
                 <=> \E key \in DataTools : row.steps[StepOf(key)] = "PARTIAL"
<1>1. Tools \in SUBSET Tools /\ DataTools \in SUBSET Tools
    BY DEF DataTools
<1>2. ASSUME NEW status
      PROVE  EndedWith(row, Len(Plan), Tools, {status})
                <=> \E key \in Tools : row.steps[StepOf(key)] = status
    BY <1>1, EndedAll
<1>3. EndedWith(row, Len(Plan), DataTools, {"PARTIAL"})
         <=> \E key \in DataTools : row.steps[StepOf(key)] = "PARTIAL"
    BY <1>1, EndedAll
<1> QED
    BY <1>2, <1>3

\* The claims are supported by the evidence that the verdict looks for.
LEMMA SupportTraced ==
    ASSUME NEW row \in RunRecords, EvidenceTraced(row, Len(Plan))
    PROVE  (\E e \in row.evidence : /\ e.status = "VALID"
                                    /\ e.type \in {"SECURITY_MASTER_EVIDENCE", "DATA_QUALITY_EVIDENCE"})
             <=> \/ Evidence("resolve_security", "SECURITY_MASTER_EVIDENCE", "VALID") \in row.evidence
                 \/ EndedWith(row, Len(Plan), DataTools, {"PARTIAL"})
<1> DEFINE identified == Evidence("resolve_security", "SECURITY_MASTER_EVIDENCE", "VALID")
<1>1. identified.type = "SECURITY_MASTER_EVIDENCE" /\ identified.status = "VALID"
    BY DEF Evidence
<1>2. ASSUME NEW e \in row.evidence, e.status = "VALID", e.type = "SECURITY_MASTER_EVIDENCE"
      PROVE  e = identified
  <2>1. e \in EvidenceRecords /\ e.key = "resolve_security"
      BY <1>2 DEF RunRecords, EvidenceTraced
  <2>2. e = [key |-> e.key, type |-> e.type, status |-> e.status]
      BY <2>1 DEF EvidenceRecords
  <2> QED
      BY <1>2, <2>1, <2>2 DEF Evidence
<1> HIDE DEF identified
<1>3. ASSUME NEW e \in row.evidence, e.status = "VALID",
             e.type \in {"SECURITY_MASTER_EVIDENCE", "DATA_QUALITY_EVIDENCE"}
      PROVE  identified \in row.evidence \/ EndedWith(row, Len(Plan), DataTools, {"PARTIAL"})
    BY <1>2, <1>3 DEF EvidenceTraced
<1>4. EndedWith(row, Len(Plan), DataTools, {"PARTIAL"}) =>
        \E e \in row.evidence : e.type = "DATA_QUALITY_EVIDENCE" /\ e.status = "VALID"
    BY DEF EvidenceTraced
<1> QED
    BY <1>1, <1>3, <1>4 DEF identified

\* The package says what the steps say.
LEMMA AssembleVerdict ==
    ASSUME IInv, VerdictInv, NEW p \in Processes, Assemble(p)
    PROVE  VerdictInv'
<1> DEFINE old == tx[p].row
           status == PackageStatus(old.evidence, tx[p].failed)
           row == [old EXCEPT !.package = status, !.status = status]
           t == [tx[p] EXCEPT !.row = row, !.pc = "commit"]
           failed == \E key \in Tools : row.steps[StepOf(key)] = "FAIL"
           blocked == \E key \in Tools : row.steps[StepOf(key)] = "BLOCKED"
           quality == \E key \in DataTools : row.steps[StepOf(key)] = "PARTIAL"
           identified == Evidence("resolve_security", "SECURITY_MASTER_EVIDENCE", "VALID") \in row.evidence
           supported == \E e \in old.evidence :
                           /\ e.status = "VALID"
                           /\ e.type \in {"SECURITY_MASTER_EVIDENCE", "DATA_QUALITY_EVIDENCE"}
<1>1. /\ tx \in [Processes -> Transactions] /\ tx[p] \in Transactions /\ JudgedSoFar(tx[p])
      /\ tx[p].pc = "assemble" /\ tx[p].failed \in BOOLEAN
    BY TransactionType DEF IInv, TypeOK, VerdictInv, Assemble, Transactions
<1>2. old \in RunRecords /\ old.evidence \in SUBSET EvidenceRecords
    BY <1>1 DEF Transactions, RunRecords
<1>3. Judged(tx[p], Len(Plan))
    BY <1>1 DEF JudgedSoFar
<1>4. tx' = [tx EXCEPT ![p] = t] /\ UNCHANGED runs
    BY <1>1 DEF Assemble, Transactions, RunRecords
<1>5. status = IF tx[p].failed THEN "FAILED" ELSE IF supported THEN "PARTIAL" ELSE "BLOCKED"
    BY <1>1, <1>2, PackageVerdict
<1> HIDE DEF status
<1>6. row.status = status /\ row.steps = old.steps /\ row.evidence = old.evidence
    BY <1>2 DEF RunRecords
<1>7. t.pc = "commit" /\ t.row = row
    BY <1>1 DEF Transactions
<1> HIDE DEF t, row, supported
<1>8. tx[p].failed <=> failed
  <2>1. EndedWith(old, Len(Plan), Tools, {"FAIL"}) <=> \E key \in Tools : old.steps[StepOf(key)] = "FAIL"
      BY EndedTools
  <2> QED
      BY <1>3, <1>6, <2>1 DEF Judged
<1>9. tx[p].blocked <=> failed \/ blocked
  <2>1. EndedWith(old, Len(Plan), Tools, {"BLOCKED"}) <=> \E key \in Tools : old.steps[StepOf(key)] = "BLOCKED"
      BY EndedTools
  <2>2. EndedWith(old, Len(Plan), Tools, {"FAIL"}) <=> \E key \in Tools : old.steps[StepOf(key)] = "FAIL"
      BY EndedTools
  <2>3. EndedWith(old, Len(Plan), Tools, {"BLOCKED", "FAIL"}) <=>
          EndedWith(old, Len(Plan), Tools, {"BLOCKED"}) \/ EndedWith(old, Len(Plan), Tools, {"FAIL"})
      BY DEF EndedWith
  <2> QED
      BY <1>3, <1>6, <2>1, <2>2, <2>3 DEF Judged
<1>10. supported <=> identified \/ quality
  <2>1. EndedWith(old, Len(Plan), DataTools, {"PARTIAL"})
          <=> \E key \in DataTools : old.steps[StepOf(key)] = "PARTIAL"
      BY EndedTools
  <2>2. EvidenceTraced(old, Len(Plan))
      BY <1>3 DEF Judged
  <2> DEFINE known == Evidence("resolve_security", "SECURITY_MASTER_EVIDENCE", "VALID") \in old.evidence
             partial == EndedWith(old, Len(Plan), DataTools, {"PARTIAL"})
  <2>3. supported <=> known \/ partial
      BY <1>2, <2>2, SupportTraced DEF supported
  <2>4. known <=> identified
      BY <1>6
  <2>5. partial <=> quality
      BY <1>6, <2>1
  <2> HIDE DEF known, partial, identified, quality
  <2> QED
      BY <2>3, <2>4, <2>5
<1>11. row.steps[StepOf("validate_evidence")] = "BLOCKED" <=> tx[p].blocked
  <2>1. PICK v \in StepIndex : Plan[v] = "validate_evidence"
      BY PlanAssumption
  <2>2. StepOf("validate_evidence") = v /\ v <= Len(Plan)
      BY <2>1, StepOfPlan DEF StepIndex
  <2> QED
      BY <1>3, <1>6, <2>1, <2>2 DEF Judged
<1>12. Verdict(row)
  <2> HIDE DEF failed, blocked, quality, identified
  <2>1. /\ row.status = IF failed THEN "FAILED" ELSE IF identified \/ quality THEN "PARTIAL" ELSE "BLOCKED"
        /\ row.steps[StepOf("validate_evidence")] = "BLOCKED" <=> failed \/ blocked
      BY <1>5, <1>6, <1>8, <1>9, <1>10, <1>11
  <2> QED
      BY <2>1 DEF Verdict, failed, blocked, quality, identified, DataTools
<1>13. JudgedSoFar(t)
    BY <1>7, <1>12 DEF JudgedSoFar
<1> QED
    BY <1>4, <1>13, VerdictMove

\* A commit makes the Run of the only writer visible, and nothing else.
LEMMA CommitVerdict ==
    ASSUME IInv, VerdictInv, NEW p \in Processes, Commit(p)
    PROVE  VerdictInv'
<1> DEFINE row == tx[p].row
           id == tx[p].id
<1>1. /\ tx \in [Processes -> Transactions] /\ tx[p] \in Transactions /\ JudgedSoFar(tx[p])
      /\ tx[p].pc = "commit" /\ runs \in Seq(RunRecords) /\ VerdictFromSteps /\ LockHeld(tx[p])
    BY TransactionType DEF IInv, TypeOK, VerdictInv, Commit
<1>2. row \in RunRecords /\ id \in Nat
    BY <1>1 DEF Transactions
<1>3. tx[p].writes /\ row.status \in TerminalStatuses => Verdict(row)
    BY <1>1 DEF JudgedSoFar
<1>4. VerdictFromSteps'
  <2> SUFFICES ASSUME NEW i \in DOMAIN runs', runs'[i].status \in TerminalStatuses
               PROVE  Verdict(runs'[i])
      BY DEF VerdictFromSteps, Verdict
  <2>1. CASE ~tx[p].writes
      BY <1>1, <2>1 DEF Commit, VerdictFromSteps
  <2>2. CASE tx[p].writes /\ id = 0
    <3>1. runs' = Append(runs, row)
        BY <2>2 DEF Commit
    <3> HIDE DEF row
    <3>2. (i \in DOMAIN runs /\ runs'[i] = runs[i]) \/ runs'[i] = row
        BY <1>1, <1>2, <3>1
    <3> QED
        BY <1>1, <1>3, <2>2, <3>2 DEF VerdictFromSteps
  <2>3. CASE tx[p].writes /\ id # 0
    <3>1. runs' = [runs EXCEPT ![id] = row] /\ id \in DOMAIN runs
        BY <1>1, <2>3 DEF Commit, LockHeld
    <3> HIDE DEF row, id
    <3>2. (i \in DOMAIN runs /\ runs'[i] = runs[i]) \/ runs'[i] = row
        BY <1>1, <1>2, <3>1
    <3> QED
        BY <1>1, <1>3, <2>3, <3>2 DEF VerdictFromSteps
  <2> QED
      BY <2>1, <2>2, <2>3
<1> DEFINE t == [Idle EXCEPT !.pc = "done"]
<1>5. tx' = [tx EXCEPT ![p] = t] /\ JudgedSoFar(t)
    BY IdleVerdict DEF Commit
<1> HIDE DEF t
<1>6. ASSUME NEW q \in Processes PROVE JudgedSoFar(tx[q])'
  <2>1. tx'[q] = t \/ tx'[q] = tx[q]
      BY <1>1, <1>5
  <2> QED
      BY <1>5, <2>1 DEF VerdictInv, JudgedSoFar, Judged, EvidenceTraced, EndedWith, Verdict
<1> QED
    BY <1>4, <1>6 DEF VerdictInv

-----------------------------------------------------------------------------
(* Theorems *)

\* The invariant is inductive.
LEMMA NextInv == IInv /\ [Next]_vars => IInv'
<1> SUFFICES ASSUME IInv, [Next]_vars PROVE IInv'
    OBVIOUS
<1>1. CASE UNCHANGED vars
    BY <1>1 DEF vars, IInv, TypeOK, LockHeld, OneWriter, OneReusable, ReusableRuns
<1>2. ASSUME NEW p \in Processes, Abort(p) PROVE IInv'
    BY <1>2, RollbackInv DEF Abort
<1> QED
    BY <1>1, <1>2, BeginPlanInv, FindInv, InsertInv, StartInv, ComponentInv, ToolInv, AssembleInv,
       CommitInv DEF Next

\* The initial states satisfy the invariant.
LEMMA InitInv == Init => IInv
<1> SUFFICES ASSUME Init PROVE IInv
    OBVIOUS
<1>1. /\ Idle.pc = "begin" /\ Idle.row = NewRun /\ Idle.writes = FALSE
      /\ Idle.id = 0 /\ Idle.step = 1
    BY DEF Idle
<1>2. /\ Idle \in Transactions /\ ~Idle.writes /\ Idle.id = 0
      /\ Local(Idle)
  <2>1. Idle \in Transactions
      BY NewRunFacts DEF Idle, Transactions, Labels
  <2>2. Local(Idle)
      BY <1>1, NewRunFacts, BudgetAssumption DEF Local
  <2> QED
      BY <1>1, <2>1, <2>2
<1>3. runs = <<>> /\ \A p \in Processes : tx[p] = Idle
    BY DEF Init
<1>4. TypeOK
    BY <1>2, <1>3 DEF Init, TypeOK
<1> QED
    BY <1>2, <1>3, <1>4 DEF IInv, LockHeld, OneWriter, OneReusable, ReusableRuns

\* The invariant holds in every reachable state.
LEMMA Invariance == Spec => []IInv
    BY InitInv, NextInv, PTL DEF Spec

\* A set of which any two elements are equal has at most one.
LEMMA AtMostOne ==
    ASSUME NEW S, \A x, y \in S : x = y
    PROVE  Cardinality(S) <= 1
<1>1. CASE S = {}
    BY <1>1, FS_EmptySet
<1>2. CASE S # {}
  <2>1. PICK x \in S : TRUE
      BY <1>2
  <2>2. S = {x}
      BY <2>1
  <2> QED
      BY <2>2, FS_Singleton
<1> QED
    BY <1>1, <1>2

\* The rows and the transactions of the commands are well-typed, whatever they
\* do at the same time.
THEOREM RunTypes == Spec => []TypeOK
<1>1. IInv => TypeOK
    BY DEF IInv
<1> QED
    BY <1>1, Invariance, PTL

\* Idempotent creation: at most one reusable Run of a question is ever committed
\* and at most one transaction writes one, for any number of racing commands.
THEOREM RunIdempotent == Spec => []OneReusableRun
<1>1. IInv => OneReusableRun
  <2> SUFFICES ASSUME IInv PROVE OneReusableRun
      OBVIOUS
  <2>1. Cardinality(ReusableRuns) <= 1
      BY AtMostOne DEF IInv, OneReusable
  <2>2. \A p, q \in Writers : p = q
      BY DEF IInv, OneWriter, Writers
  <2>3. Cardinality(Writers) <= 1
      BY <2>2, AtMostOne
  <2> QED
      BY <2>1, <2>3 DEF OneReusableRun
<1> QED
    BY <1>1, Invariance, PTL

\* A whole Run is consistent: nothing of its plan is done, or everything.
LEMMA WholeIsConsistent ==
    ASSUME NEW run \in RunRecords, Whole(run), Accounted(run)
    PROVE  /\ \E n \in 0..Len(Plan) : StoppedAfter(run, n)
           /\ run.status = "PLANNED" => StoppedAfter(run, 0)
           /\ run.status \in TerminalStatuses \ {"CANCELLED"} => run.package # "none"
           /\ run.package # "none" => run.package = run.status
<1>1. /\ Len(Plan) \in Nat /\ StepIndex = 1..Len(Plan)
      /\ \A t \in Tools : StepOf(t) \in StepIndex
      /\ \A e \in run.evidence : StepOf(e.key) \in StepIndex
    BY PlanFacts, StepOfPlan DEF RunRecords, EvidenceRecords, StepIndex
<1>2. CASE run = PlannedRun
  <2>1. /\ \A s \in StepIndex : run.steps[s] = "PENDING"
        /\ \A t \in Tools : run.budget.perTool[t] = 0
        /\ run.evidence = {} /\ run.package = "none" /\ run.status = "PLANNED"
      BY <1>2 DEF PlannedRun, NewRun
  <2>2. StoppedAfter(run, 0)
      BY <1>1, <2>1 DEF StoppedAfter
  <2> QED
      BY <1>1, <2>1, <2>2 DEF TerminalStatuses
<1>3. CASE run # PlannedRun
  <2>1. /\ run.status \in TerminalStatuses /\ run.package = run.status
        /\ \A s \in StepIndex : run.steps[s] # "PENDING"
      BY <1>3 DEF Whole, PlannedRun
  <2>2. \A t \in Tools : run.budget.perTool[t] # 0
      BY <2>1 DEF Accounted
  <2>3. StoppedAfter(run, Len(Plan))
      BY <1>1, <2>1, <2>2 DEF StoppedAfter
  <2> QED
      BY <1>1, <2>1, <2>3 DEF TerminalStatuses
<1> QED
    BY <1>2, <1>3

\* Committed Runs are consistent, however the commands interleave or die: steps,
\* budget and evidence are of one prefix of the plan, and the package of an ended
\* Run says the same as the Run.
THEOREM RunConsistent == Spec => []CommittedConsistent
<1>1. IInv => CommittedConsistent
  <2> SUFFICES ASSUME IInv, NEW i \in DOMAIN runs
               PROVE  /\ \E n \in 0..Len(Plan) : StoppedAfter(runs[i], n)
                      /\ runs[i].status = "PLANNED" => StoppedAfter(runs[i], 0)
                      /\ runs[i].status \in TerminalStatuses \ {"CANCELLED"}
                            => runs[i].package # "none"
                      /\ runs[i].package # "none" => runs[i].package = runs[i].status
      BY DEF CommittedConsistent
  <2>1. runs[i] \in RunRecords /\ Whole(runs[i]) /\ Accounted(runs[i])
      BY DEF IInv, TypeOK
  <2> QED
      BY <2>1, WholeIsConsistent
<1> QED
    BY <1>1, Invariance, PTL

\* No Run exceeds its tool budget, and what is saved is what was used.
THEOREM RunAffordable == Spec => []BudgetKept
<1>1. IInv => BudgetKept
    BY DEF IInv, BudgetKept, Local
<1> QED
    BY <1>1, Invariance, PTL

\* A terminal Run never changes.
THEOREM RunClosed == Spec => TerminalImmutable
<1> DEFINE A == \A i \in DOMAIN runs :
                   /\ i \in DOMAIN runs'
                   /\ runs[i].status \in TerminalStatuses => runs'[i] = runs[i]
<1>1. IInv /\ [Next]_vars => [A]_vars
  <2> SUFFICES ASSUME IInv, Next PROVE A
      OBVIOUS
  <2>1. ASSUME NEW p \in Processes, Commit(p) PROVE A
      BY <2>1, CommitRuns DEF TerminalStatuses
  <2>2. CASE UNCHANGED runs
      BY <2>2
  <2>3. PICK p \in Processes :
            \/ Begin(p) \/ FindReusable(p) \/ Insert(p) \/ FindWinner(p) \/ CreatePlan(p)
            \/ StartExecution(p) \/ ExecuteComponent(p) \/ ExecuteTool(p) \/ Assemble(p)
            \/ Commit(p) \/ Abort(p)
      BY DEF Next
  <2>4. CASE Begin(p) \/ FindReusable(p) \/ Insert(p) \/ FindWinner(p) \/ CreatePlan(p)
             \/ StartExecution(p) \/ Assemble(p) \/ Abort(p)
      BY <2>2, <2>4 DEF Begin, FindReusable, Insert, FindWinner, CreatePlan, StartExecution,
         Assemble, Abort, Rollback
  <2>5. CASE ExecuteComponent(p)
      BY <2>2, <2>5 DEF ExecuteComponent, NextStep
  <2>6. CASE ExecuteTool(p)
      BY <2>2, <2>6 DEF ExecuteTool, EndTool, NextStep
  <2> HIDE DEF A
  <2> QED
      BY <2>1, <2>3, <2>4, <2>5, <2>6
<1> QED
    BY <1>1, Invariance, PTL DEF Spec, TerminalImmutable

\* However the commands interleave, a terminal Run ended as its own steps and
\* evidence say: FAILED iff a tool step failed, otherwise PARTIAL iff the identity was
\* verified or a data tool was partial, otherwise BLOCKED; and validate_evidence is
\* BLOCKED iff a tool step was not usable.
LEMMA RunVerdict == Spec => []VerdictFromSteps
<1>1. Init => VerdictInv
  <2> SUFFICES ASSUME Init PROVE VerdictInv
      OBVIOUS
  <2>1. Idle.pc = "begin" /\ Idle.blocked = FALSE /\ Idle.failed = FALSE
      BY DEF Idle
  <2>2. JudgedSoFar(Idle)
      BY <2>1 DEF JudgedSoFar
  <2>3. runs = <<>> /\ \A p \in Processes : tx[p] = Idle
      BY DEF Init
  <2> QED
      BY <2>2, <2>3 DEF VerdictInv, VerdictFromSteps
<1>2. IInv /\ VerdictInv /\ [Next]_vars => VerdictInv'
  <2> SUFFICES ASSUME IInv, VerdictInv, [Next]_vars PROVE VerdictInv'
      OBVIOUS
  <2>1. CASE UNCHANGED vars
      BY <2>1 DEF vars, VerdictInv, JudgedSoFar, Judged, EvidenceTraced, EndedWith, VerdictFromSteps, Verdict
  <2>2. ASSUME NEW p \in Processes, Abort(p) PROVE VerdictInv'
      BY <2>2, RollbackVerdict DEF Abort
  <2> QED
      BY <2>1, <2>2, PrepareVerdict, StartVerdict, ComponentVerdict, ToolVerdict, AssembleVerdict,
         CommitVerdict DEF Next
<1> QED
    BY <1>1, <1>2, Invariance, PTL DEF Spec, VerdictInv
=============================================================================
