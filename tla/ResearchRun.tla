----------------------------- MODULE ResearchRun -----------------------------
(***************************************************************************)
(* The commands "agent plan" and "agent run" of one research question, run *)
(* by several processes at once.  Each command is one database transaction *)
(* (_plan_or_run commits once, at its end; every exception rolls it back). *)
(* It reuses a Run that has the same idempotency key or inserts one, plans *)
(* it, and for "run" executes the plan step by step under the tool budget, *)
(* builds the claims and assembles the package that decides how the Run    *)
(* ends.  What the processes share is the committed rows and PostgreSQL's  *)
(* locks: the partial unique index on idempotency_key makes an insert wait *)
(* for whoever is writing a row with that key, and SELECT ... FOR UPDATE   *)
(* makes a transition wait for whoever is writing that row.                *)
(***************************************************************************)
EXTENDS Integers, Sequences, FiniteSets

CONSTANTS
    Processes,          \* commands issued, one transaction each
    Plan,               \* step_key of each step of the plan, in step_index order
    MaxToolCalls,       \* max_tool_calls of the policy
    MaxCallsPerTool,    \* max_calls_per_tool of the policy
    MaxRuns             \* bound on the number of Runs

Components == {"resolve_security", "validate_evidence", "build_claims", "validate_claims",
               "assemble_package"}

StepIndex == 1..Len(Plan)
Tools == {Plan[i] : i \in StepIndex} \ Components

\* What DeterministicTemplatePlanner compiles and ResearchPlanValidator accepts.
ASSUME PlanAssumption ==
    /\ Plan \in Seq(STRING) /\ Len(Plan) <= 20
    /\ \A i, j \in StepIndex : Plan[i] = Plan[j] => i = j
    /\ \E i \in StepIndex : Plan[i] = "resolve_security"
    /\ "get_data_snapshot" \in Tools
    /\ \E v \in StepIndex : /\ Plan[v] = "validate_evidence"
                            /\ \A i \in StepIndex : Plan[i] \in Tools => i < v

ASSUME BudgetAssumption == MaxToolCalls \in Nat /\ MaxCallsPerTool \in Nat /\ MaxRuns \in Nat

VARIABLES
    runs,       \* the committed rows of research_agent_runs, oldest first, with their children
    tx          \* the open transaction of each process

vars == <<runs, tx>>

ReusableStatuses == {"CREATED", "PLANNING", "PLANNED", "RUNNING", "PAUSED", "COMPLETED"}
TerminalStatuses == {"COMPLETED", "PARTIAL", "BLOCKED", "FAILED", "CANCELLED"}

\* A Run as create_run inserts it.
NewRun == [status   |-> "CREATED",
           steps    |-> [i \in StepIndex |-> "PENDING"],
           budget   |-> [total |-> 0, perTool |-> [t \in Tools |-> 0]],
           evidence |-> {},
           package  |-> "none"]

\* id is the index in runs of the Run at hand, 0 for one that was never
\* committed; row is the transaction's own version of it, of interest to the
\* others only if the transaction has written it.
Idle == [pc |-> "begin", command |-> "none", id |-> 0, row |-> NewRun, writes |-> FALSE,
         step |-> 1, blocked |-> FALSE, failed |-> FALSE]

Init ==
    /\ runs = <<>>
    /\ tx = [p \in Processes |-> Idle]

ReusableRuns == {i \in DOMAIN runs : runs[i].status \in ReusableStatuses}

Writers == {p \in Processes : tx[p].writes}

\* session_scope closes the session without commit; the locks go with it.
Rollback(p) ==
    /\ tx' = [tx EXCEPT ![p] = [Idle EXCEPT !.pc = "failed"]]
    /\ UNCHANGED runs

-----------------------------------------------------------------------------
(* _create_planned_run *)

Begin(p) ==
    /\ tx[p].pc = "begin"
    /\ \E command \in {"plan", "run"} :
          tx' = [tx EXCEPT ![p].pc = "find", ![p].command = command]
    /\ UNCHANGED runs

\* A Run that is not CREATED is returned as it is; "run" executes a PLANNED one.
Reuse(p, i) ==
    tx' = [tx EXCEPT ![p].id = i,
                     ![p].pc = IF tx[p].command = "run" /\ runs[i].status = "PLANNED"
                               THEN "start" ELSE "commit"]

\* create_run: find_reusable_run, before any lock is taken.
FindReusable(p) ==
    /\ tx[p].pc = "find"
    /\ \/ \E i \in ReusableRuns : Reuse(p, i)
       \/ /\ ReusableRuns = {}
          /\ tx' = [tx EXCEPT ![p].pc = "insert"]
    /\ UNCHANGED runs

Insert_Unchecked(p) ==
    /\ tx[p].pc = "insert" /\ Len(runs) < MaxRuns
    /\ Writers = {}
    /\ tx' = [tx EXCEPT ![p].pc = "plan", ![p].writes = TRUE]
    /\ UNCHANGED runs

\* create_run: the insert waits for every other writer of the key, and the
\* unique index then admits or rejects it.
Insert(p) ==
    /\ tx[p].pc = "insert" /\ Len(runs) < MaxRuns
    /\ Writers = {}
    /\ tx' = IF ReusableRuns = {}
             THEN [tx EXCEPT ![p].pc = "plan", ![p].writes = TRUE]
             ELSE [tx EXCEPT ![p].pc = "winner"]
    /\ UNCHANGED runs

\* create_run after an IntegrityError: the winner may have ended meanwhile.
FindWinner(p) ==
    /\ tx[p].pc = "winner"
    /\ \/ /\ \E i \in ReusableRuns : Reuse(p, i)
          /\ UNCHANGED runs
       \/ ReusableRuns = {} /\ Rollback(p)

\* CREATED -> PLANNING, the plan, its steps, PLANNING -> PLANNED.
CreatePlan(p) ==
    /\ tx[p].pc = "plan"
    /\ tx' = [tx EXCEPT ![p].row.status = "PLANNED",
                        ![p].pc = IF tx[p].command = "run" THEN "start" ELSE "commit"]
    /\ UNCHANGED runs

-----------------------------------------------------------------------------
(* DeterministicResearchExecutionService.execute *)

StartExecution_NoLock(p) ==
    /\ tx[p].pc = "start"
    /\ LET row == IF tx[p].id = 0 THEN tx[p].row ELSE runs[tx[p].id]
       IN  \/ /\ row.status = "PLANNED"
              /\ tx' = [tx EXCEPT ![p].pc = "step", ![p].writes = TRUE,
                                  ![p].row = [row EXCEPT !.status = "RUNNING"]]
              /\ UNCHANGED runs
           \/ row.status # "PLANNED" /\ Rollback(p)

\* RUN_STARTED: the row is read again under its lock, and only PLANNED may
\* become RUNNING.  Every step of a PLANNED Run is PENDING, so that execute never
\* skips one.
StartExecution(p) ==
    /\ tx[p].pc = "start"
    /\ \A q \in Writers : tx[q].id = tx[p].id => q = p
    /\ LET row == IF tx[p].id = 0 THEN tx[p].row ELSE runs[tx[p].id]
       IN  \/ /\ row.status = "PLANNED"
              /\ tx' = [tx EXCEPT ![p].pc = "step", ![p].writes = TRUE,
                                  ![p].row = [row EXCEPT !.status = "RUNNING"]]
              /\ UNCHANGED runs
           \/ row.status # "PLANNED" /\ Rollback(p)

Step(p) == Plan[tx[p].step]

NextStep(p, row, blocked, failed) ==
    /\ tx' = [tx EXCEPT ![p].row = row,
                        ![p].blocked = @ \/ blocked,
                        ![p].failed = @ \/ failed,
                        ![p].step = @ + 1,
                        ![p].pc = IF tx[p].step = Len(Plan) THEN "assemble" ELSE "step"]
    /\ UNCHANGED runs

Evidence(key, type, status) == [key |-> key, type |-> type, status |-> status]

ComponentStatus(p) == IF Step(p) = "validate_evidence" /\ tx[p].blocked THEN "BLOCKED" ELSE "PASS"

\* A step without a tool.  resolve_security reads the Security Master twice, for
\* the observation and for its source: if it changed in between, the checksums
\* differ and the evidence is INVALID.
ExecuteComponent(p) ==
    /\ tx[p].pc = "step" /\ Step(p) \in Components
    /\ LET done == [tx[p].row EXCEPT !.steps[tx[p].step] = ComponentStatus(p)]
       IN  IF Step(p) = "resolve_security"
           THEN \E status \in {"VALID", "INVALID"} :
                   NextStep(p, [done EXCEPT !.evidence = @ \cup
                                   {Evidence(Step(p), "SECURITY_MASTER_EVIDENCE", status)}],
                            FALSE, FALSE)
           ELSE NextStep(p, done, FALSE, FALSE)

\* RunBudgetTracker.consume_tool_call: what it admits, and the budget after it.
Affordable(b, t) == b.total < MaxToolCalls /\ b.perTool[t] < MaxCallsPerTool
Consume(b, t) == [total |-> b.total + 1, perTool |-> [b.perTool EXCEPT ![t] = @ + 1]]

\* What a tool call ends with: an observation of its status, or an error, which
\* blocks or fails the step and leaves no observation.  The error of a retry
\* that the budget cannot afford is the budget's.
Results == [status : {"PASS", "PARTIAL", "BLOCKED", "FAIL"}, observed : {TRUE}, code : {"none"}]
           \cup [status : {"BLOCKED", "FAIL"}, observed : {FALSE}, code : {"TOOL_ERROR"}]
Failure == [status |-> "FAIL", observed |-> FALSE, code |-> "BUDGET_EXCEEDED"]

Outcomes_FreeRetry(b, t) ==
    LET once == Consume(b, t)
    IN  [attempt : {1}, budget : {once}, result : Results]
        \cup [attempt : {2}, budget : {Consume(once, t)}, result : Results]

\* Mutant: the retry is not charged to the budget.
Outcomes_UnpaidRetry(b, t) == [attempt : 1..2, budget : {Consume(b, t)}, result : Results]

\* ResearchToolExecutor.execute, last attempt, budget and result: one attempt, or
\* after TRANSIENT_INTERNAL a second one, if the budget has a call left for it.
Outcomes(b, t) ==
    LET once == Consume(b, t)
    IN  [attempt : {1}, budget : {once}, result : Results]
        \cup (IF Affordable(once, t)
              THEN [attempt : {2}, budget : {Consume(once, t)}, result : Results]
              ELSE [attempt : {1}, budget : {once}, result : {Failure}])

\* ProductionObservationEvidenceAdapter.admit with EvidenceLedgerService: the
\* source of a factual result is never loaded, so its evidence is never VALID.
Admitted(key, status) ==
    CASE status = "BLOCKED"          -> {Evidence(key, "BLOCKED_CAPABILITY_EVIDENCE", "BLOCKED")}
      [] status # "BLOCKED" /\ key = "get_data_snapshot"
                                     -> {Evidence(key, "SNAPSHOT_EVIDENCE",
                                                  IF status = "FAIL" THEN "SOURCE_MISSING" ELSE "VALID")}
      [] status = "PARTIAL" /\ key # "get_data_snapshot"
                                     -> {Evidence(key, "DATA_QUALITY_EVIDENCE", "VALID")}
      [] OTHER                       -> {Evidence(key, "TOOL_EVIDENCE", "SOURCE_MISSING")}

\* Mutant: the budget after the call is not saved with the Run.
EndTool_BudgetDropped(p, o) ==
    LET status == o.result.status
        evidence == IF o.result.observed THEN Admitted(Step(p), status) ELSE {}
    IN  NextStep(p, [tx[p].row EXCEPT !.steps[tx[p].step] = status,
                                      !.evidence = @ \cup evidence],
                 status \in {"BLOCKED", "FAIL"}, status = "FAIL")

\* A tool step that ends with outcome o, with _persist_execution.
EndTool(p, o) ==
    LET status == o.result.status
        evidence == IF o.result.observed THEN Admitted(Step(p), status) ELSE {}
    IN  NextStep(p, [tx[p].row EXCEPT !.steps[tx[p].step] = status,
                                      !.budget = o.budget,
                                      !.evidence = @ \cup evidence],
                 status \in {"BLOCKED", "FAIL"}, status = "FAIL")

\* A budget that cannot afford the first attempt raises: only Abort is left.
CanCallTool(p) ==
    /\ tx[p].pc = "step" /\ Step(p) \in Tools
    /\ Affordable(tx[p].row.budget, Step(p))

ExecuteTool(p) ==
    /\ CanCallTool(p)
    /\ \E o \in Outcomes(tx[p].row.budget, Step(p)) : EndTool(p, o)

-----------------------------------------------------------------------------
(* Claims and package *)

\* DeterministicClaimBuilder._propose and ClaimSupportValidator._support on the
\* evidence that is admitted above: the claims, each with its support.
Claims(evidence) ==
    {[type |-> "LIMITATION", support |-> "BLOCKED"] :
        e \in {x \in evidence : x.type = "BLOCKED_CAPABILITY_EVIDENCE"}}
    \cup {[type |-> IF e.type = "SECURITY_MASTER_EVIDENCE" THEN "IDENTITY" ELSE "DATA_QUALITY",
           support |-> "SUPPORTED"] :
        e \in {x \in evidence : /\ x.type \in {"SECURITY_MASTER_EVIDENCE", "DATA_QUALITY_EVIDENCE"}
                                /\ x.status = "VALID"}}

\* _command: the sections that the command line requests.
RequestedSections == {"IDENTITY", "DATA_QUALITY", "LIMITATION"}

SectionStatus_Optimistic(section, claims) ==
    LET support == {c.support : c \in {x \in claims : x.type = section}}
    IN  IF "BLOCKED" \notin support THEN "PASS" ELSE "BLOCKED"

\* _section of one requested section.
SectionStatus(section, claims) ==
    LET support == {c.support : c \in {x \in claims : x.type = section}}
    IN  CASE support = {}            -> "NO_EVIDENCE"
          [] support = {"SUPPORTED"} -> "PASS"
          [] support = {"BLOCKED"}   -> "BLOCKED"
          [] OTHER                   -> "PARTIAL"

\* _package_status, and the Run status that execute derives from it.
PackageStatus(evidence, failed) ==
    LET active == {SectionStatus(s, Claims(evidence)) : s \in RequestedSections}
    IN  CASE failed                                       -> "FAILED"
          [] ~failed /\ active = {"PASS"}                 -> "COMPLETED"
          [] ~failed /\ active \subseteq {"BLOCKED", "NO_EVIDENCE"} -> "BLOCKED"
          [] OTHER                                        -> "PARTIAL"

Assemble(p) ==
    /\ tx[p].pc = "assemble"
    /\ LET status == PackageStatus(tx[p].row.evidence, tx[p].failed)
       IN  tx' = [tx EXCEPT ![p].row.package = status, ![p].row.status = status,
                            ![p].pc = "commit"]
    /\ UNCHANGED runs

\* session.commit() at the end of _plan_or_run.
Commit(p) ==
    /\ tx[p].pc = "commit"
    /\ runs' = IF ~tx[p].writes THEN runs
               ELSE IF tx[p].id = 0 THEN Append(runs, tx[p].row)
               ELSE [runs EXCEPT ![tx[p].id] = tx[p].row]
    /\ tx' = [tx EXCEPT ![p] = [Idle EXCEPT !.pc = "done"]]

\* An exception anywhere else, or the process dies.
Abort(p) ==
    /\ tx[p].pc \notin {"begin", "done", "failed"}
    /\ Rollback(p)

Next ==
    \E p \in Processes :
        \/ Begin(p) \/ FindReusable(p) \/ Insert(p) \/ FindWinner(p) \/ CreatePlan(p)
        \/ StartExecution(p) \/ ExecuteComponent(p) \/ ExecuteTool(p) \/ Assemble(p)
        \/ Commit(p) \/ Abort(p)

Spec == Init /\ [][Next]_vars

-----------------------------------------------------------------------------
(* Properties *)

StepStatuses == {"PENDING", "PASS", "PARTIAL", "BLOCKED", "FAIL"}

Budgets == [total : Nat, perTool : [Tools -> Nat]]

EvidenceRecords == [key : {Plan[i] : i \in StepIndex},
                    type : {"SECURITY_MASTER_EVIDENCE", "BLOCKED_CAPABILITY_EVIDENCE",
                            "SNAPSHOT_EVIDENCE", "DATA_QUALITY_EVIDENCE", "TOOL_EVIDENCE"},
                    status : {"VALID", "INVALID", "SOURCE_MISSING", "BLOCKED"}]

RunRecords == [status   : {"CREATED", "PLANNED", "RUNNING"} \cup (TerminalStatuses \ {"CANCELLED"}),
               steps    : [StepIndex -> StepStatuses],
               budget   : Budgets,
               evidence : SUBSET EvidenceRecords,
               package  : {"none", "COMPLETED", "PARTIAL", "BLOCKED", "FAILED"}]

Labels == {"begin", "find", "insert", "winner", "plan", "start", "step", "assemble", "commit",
           "done", "failed"}

Transactions == [pc : Labels, command : {"none", "plan", "run"}, id : Nat, row : RunRecords,
                 writes : BOOLEAN, step : Nat, blocked : BOOLEAN, failed : BOOLEAN]

\* The types of the rows and of the transactions; a Run at hand exists.
TypeOK ==
    /\ runs \in Seq(RunRecords)
    /\ tx \in [Processes -> Transactions]
    /\ \A p \in Processes : tx[p].id <= Len(runs)

\* Idempotency under races: whatever the processes do at the same time, at most
\* one committed Run of the question is reusable, and at most one transaction
\* writes a Run of it.
OneReusableRun ==
    /\ Cardinality(ReusableRuns) <= 1
    /\ Cardinality(Writers) <= 1

\* PLANNED and untouched, or terminal with every step ended and a package that
\* says the same.
Whole(run) ==
    \/ run = [NewRun EXCEPT !.status = "PLANNED"]
    \/ /\ run.status \in TerminalStatuses
       /\ \A s \in StepIndex : run.steps[s] # "PENDING"
       /\ run.package = run.status

StepOf(key) == CHOOSE i \in StepIndex : Plan[i] = key

\* The Run as it is after n steps of its plan and no further: those have ended,
\* the tools among them and only they were charged, and all evidence is theirs.
StoppedAfter(run, n) ==
    /\ \A s \in StepIndex : run.steps[s] = "PENDING" <=> s > n
    /\ \A t \in Tools : run.budget.perTool[t] = 0 <=> StepOf(t) > n
    /\ \A e \in run.evidence : StepOf(e.key) <= n

\* The rows of a committed Run belong together, however the processes raced or
\* died: its steps, its budget and its evidence are those of one prefix of the
\* plan, none of it while the Run waits to be executed; an execution that has
\* ended has its package, and a package says the same as its Run.
CommittedConsistent ==
    \A i \in DOMAIN runs :
        /\ \E n \in 0..Len(Plan) : StoppedAfter(runs[i], n)
        /\ runs[i].status = "PLANNED" => StoppedAfter(runs[i], 0)
        /\ runs[i].status \in TerminalStatuses \ {"CANCELLED"} => runs[i].package # "none"
        /\ runs[i].package # "none" => runs[i].package = runs[i].status

\* "one state transition plus Event" and "one Tool attempt plus terminal Invocation
\* and Observation" are transactions of their own: while a process is past the
\* first step of a Run, that Run is seen RUNNING by the other commands.
ExecutionIsVisible ==
    \A p \in Processes :
        tx[p].pc = "step" /\ tx[p].step > 1 => \E i \in DOMAIN runs : runs[i].status = "RUNNING"

\* How a Run ends, in terms of its steps: FAILED iff a tool step failed;
\* otherwise BLOCKED iff nothing was supported, that is the identity was not
\* verified and no data tool was PARTIAL; otherwise PARTIAL.  With the sections
\* that the command line requests a Run is never COMPLETED, because LIMITATIONS
\* never passes.  And validate_evidence is BLOCKED iff a tool step was not usable.
Verdict(run) ==
    LET ended(key, status) == run.steps[StepOf(key)] = status
        identified == Evidence("resolve_security", "SECURITY_MASTER_EVIDENCE", "VALID")
                         \in run.evidence
        failed == \E k \in Tools : ended(k, "FAIL")
        quality == \E k \in Tools \ {"get_data_snapshot"} : ended(k, "PARTIAL")
    IN  /\ run.status = IF failed THEN "FAILED"
                        ELSE IF identified \/ quality THEN "PARTIAL" ELSE "BLOCKED"
        /\ ended("validate_evidence", "BLOCKED")
              <=> (failed \/ \E k \in Tools : ended(k, "BLOCKED"))

VerdictFromSteps == \A i \in DOMAIN runs : runs[i].status \in TerminalStatuses => Verdict(runs[i])

Accounted(run) ==
    /\ run.budget.total <= MaxToolCalls
    /\ \A t \in Tools :
          /\ run.budget.perTool[t] <= MaxCallsPerTool
          /\ run.status \in TerminalStatuses => run.budget.perTool[t] \in 1..2

\* The tool budget is kept at every moment, retries included, and the budget that
\* is saved is the one that was used: in a terminal Run every planned tool was
\* called once or, retried, twice.
BudgetKept ==
    /\ \A p \in Processes : tx[p].row.budget.total <= MaxToolCalls
    /\ \A i \in DOMAIN runs : Accounted(runs[i])

\* A terminal Run never changes, and no committed Run goes away.
TerminalImmutable ==
    [][\A i \in DOMAIN runs :
          /\ i \in DOMAIN runs'
          /\ runs[i].status \in TerminalStatuses => runs'[i] = runs[i]]_vars
=============================================================================
