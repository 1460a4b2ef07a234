--------------------------- MODULE ResearchLedger ---------------------------
(***************************************************************************)
(* The audit rows that the commands of ResearchRun write: the request, the *)
(* events of the Run, its plan, the tool invocations, the observations,    *)
(* the claims with their links and the package.  A command writes them in  *)
(* the same transaction as the Run, and PostgreSQL checks every one of     *)
(* them against the constraints and triggers of migrations 0006, 0010,     *)
(* 0011 and 0012: a row that breaks one ends the command with nothing      *)
(* stored.                                                                 *)
(*                                                                         *)
(* Every action is an action of ResearchRun with what it writes here.  Ids *)
(* are what identifies a row: a request is the process that issued the     *)
(* command, a step its key, an invocation its step and attempt, an         *)
(* observation, its evidence and the claim made of it the step they come   *)
(* from.  The columns that say which security, snapshot and time a Run is  *)
(* about are the same in all rows of one question and are left out.        *)
(***************************************************************************)
EXTENDS ResearchRun

CONSTANTS
    Questions,      \* what the commands may be asked about
    None            \* NULL

VARIABLES
    policy,         \* research_policies holds the policy that the commands name
    question,       \* the question of all commands
    ledger,         \* the audit rows of each committed Run
    work            \* what each open transaction has read and written

auditVars == <<policy, question, ledger, work>>

SnapshotStatuses == {"BUILDING", "COMPLETE", "PARTIAL", "FAILED", "SUPERSEDED"}

\* Whether the security is resolved, and the snapshot: its status, whether it is
\* of that security, and whether it is not after the time of the research.
ASSUME QuestionAssumption ==
    Questions \subseteq [resolved : BOOLEAN, status : SnapshotStatuses,
                         ownSecurity : BOOLEAN, notAfter : BOOLEAN]

NewGraph(request) ==
    [request |-> request, terminal_reason |-> None, events |-> <<>>, plan |-> FALSE,
     invocations |-> {}, observations |-> {}, claims |-> {}, links |-> {}, package |-> None]

NoWork == [request |-> None, graph |-> NewGraph(None)]

AuditInit ==
    /\ Init
    /\ policy = FALSE
    /\ question \in Questions
    /\ ledger = <<>>
    /\ work = [p \in Processes |-> NoWork]

Write(p, graph) ==
    /\ work' = [work EXCEPT ![p].graph = graph]
    /\ UNCHANGED <<policy, question, ledger>>

Forget(p) ==
    /\ work' = [work EXCEPT ![p] = NoWork]
    /\ UNCHANGED <<policy, question>>

-----------------------------------------------------------------------------
(* The repository's writes *)

\* ResearchRunStateMachine.transition: update_run, then append_event with
\* next_sequence, which counts the events of the Run.
NextSequence(g) == Len(g.events) + 1

AppendEvent(g, from, to, reason) ==
    [g EXCEPT !.events = Append(@, [sequence_number |-> NextSequence(g), from_status |-> from,
                                    to_status |-> to, reason_code |-> reason])]

Transition(g, from, to, reason) ==
    [AppendEvent(g, from, to, reason) EXCEPT
        !.terminal_reason = IF to \in TerminalStatuses THEN reason ELSE None]

AddPlan(g) == [g EXCEPT !.plan = TRUE]

AddInvocation(g, step, attempt) ==
    [g EXCEPT !.invocations = @ \cup {[step |-> step, attempt_number |-> attempt,
                                       status |-> "RUNNING", error_code |-> "none"]}]

CompleteInvocation(g, step, attempt, status, code) ==
    [g EXCEPT !.invocations =
        {IF i.step = step /\ i.attempt_number = attempt
         THEN [i EXCEPT !.status = status, !.error_code = code] ELSE i : i \in @}]

AddObservation(g, step, invocation, status) ==
    [g EXCEPT !.observations = @ \cup {[step |-> step, invocation |-> invocation,
                                        status |-> status]}]

-----------------------------------------------------------------------------
(* The commands *)

\* ResearchPolicySeedService.seed_v1, a command of its own; seeding twice changes
\* nothing.
SeedPolicy ==
    /\ ~policy
    /\ policy' = TRUE
    /\ UNCHANGED <<question, ledger, work, vars>>

\* ResearchRequestService.create: what it admits.
Admissible ==
    /\ question.resolved
    /\ question.status \in {"COMPLETE", "PARTIAL"}
    /\ question.ownSecurity /\ question.notAfter
    /\ policy

\* A command that is not admissible has no request and can only fail.
BeginCommand(p) ==
    /\ Begin(p)
    /\ work' = [work EXCEPT ![p].request = IF Admissible THEN p ELSE None]
    /\ UNCHANGED <<policy, question, ledger>>

\* Mutant: a reused Run is executed for the request of this command.
RequestAtHand_Own(p) == work[p].request

\* _create_planned_run: a reused Run brings its original request.
RequestAtHand(p) == IF tx'[p].id = 0 THEN work[p].request ELSE ledger[tx'[p].id].request

Find(p) ==
    /\ work[p].request # None
    /\ FindReusable(p)
    /\ work' = [work EXCEPT ![p].request = RequestAtHand(p)]
    /\ UNCHANGED <<policy, question, ledger>>

InsertRun(p) ==
    /\ Insert(p)
    /\ Write(p, IF tx'[p].writes THEN NewGraph(work[p].request) ELSE work[p].graph)

Winner(p) ==
    /\ FindWinner(p)
    /\ work' = IF tx'[p].pc = "failed" THEN [work EXCEPT ![p] = NoWork]
               ELSE [work EXCEPT ![p].request = RequestAtHand(p)]
    /\ UNCHANGED <<policy, question, ledger>>

PlanRun(p) ==
    /\ CreatePlan(p)
    /\ LET started == Transition(work[p].graph, tx[p].row.status, "PLANNING", "PLAN_STARTED")
       IN  Write(p, Transition(AddPlan(started), "PLANNING", tx'[p].row.status,
                               "PLAN_VALIDATED"))

\* get_plan and list_steps of the Run at hand, after its row is locked.
Loaded(p) == IF tx[p].id = 0 THEN work[p].graph ELSE ledger[tx[p].id]

StartRun(p) ==
    /\ StartExecution(p)
    /\ work' = IF tx'[p].pc = "failed" THEN [work EXCEPT ![p] = NoWork]
               ELSE [work EXCEPT ![p].graph = Transition(Loaded(p), "PLANNED",
                                                         tx'[p].row.status, "RUN_STARTED")]
    /\ UNCHANGED <<policy, question, ledger>>

\* _persist_security_identity, for the step that has an observation of its own.
RunComponent(p) ==
    /\ ExecuteComponent(p)
    /\ Write(p, IF Step(p) = "resolve_security"
                THEN AddObservation(work[p].graph, Step(p), None, "PASS") ELSE work[p].graph)

\* complete_invocation: a call that returned is PASS, whatever it returned.
InvocationStatus(result) == IF result.observed THEN "PASS" ELSE result.status

PersistExecution(g, step, o) ==
    LET called == CompleteInvocation(AddInvocation(g, step, o.attempt), step, o.attempt,
                                     InvocationStatus(o.result), o.result.code)
    IN  IF o.result.observed
        THEN AddObservation(called, step, <<step, o.attempt>>, o.result.status) ELSE called

RunTool(p) ==
    /\ CanCallTool(p)
    /\ \E o \in Outcomes(tx[p].row.budget, Step(p)) :
          EndTool(p, o) /\ Write(p, PersistExecution(work[p].graph, Step(p), o))

\* DeterministicClaimBuilder._propose: the evidence that becomes a claim.
Proposed(evidence) ==
    {e \in evidence : \/ e.type = "BLOCKED_CAPABILITY_EVIDENCE"
                      \/ /\ e.status = "VALID"
                         /\ e.type \in {"SECURITY_MASTER_EVIDENCE", "DATA_QUALITY_EVIDENCE"}}

ClaimType(e) == CASE e.type = "SECURITY_MASTER_EVIDENCE"    -> "IDENTITY"
                  [] e.type = "DATA_QUALITY_EVIDENCE"       -> "DATA_QUALITY"
                  [] e.type = "BLOCKED_CAPABILITY_EVIDENCE" -> "LIMITATION"

\* Mutant: the code says what is missing, not in which tool.
StatementCode_Kind(e) == <<ClaimType(e), "">>

\* _capability_code and _quality_code: observations carry no warnings, so the
\* code is made of the name of the tool.
StatementCode(e) == <<ClaimType(e), e.key>>

\* ClaimSupportValidator._support, on the one evidence that a claim proposes.
Support(e) == IF e.status = "BLOCKED" THEN [support |-> "BLOCKED", role |-> "LIMITATION"]
              ELSE [support |-> "SUPPORTED", role |-> "PRIMARY"]

\* _linkable: the evidence that a claim is linked to.
Linkable(e) == Support(e).support = "SUPPORTED" => e.status = "VALID"

\* ProductionDeterministicClaimPipeline.build_and_validate.
BuildAndValidate(g, evidence) ==
    [g EXCEPT
        !.claims = {[id |-> e.key, claim_type |-> ClaimType(e), statement_code |-> StatementCode(e),
                     lifecycle_status |-> "VALIDATED", support_status |-> Support(e).support] :
                       e \in Proposed(evidence)},
        !.links = {[claim |-> e.key, evidence |-> e.key, role |-> Support(e).role] :
                       e \in {x \in Proposed(evidence) : Linkable(x)}}]

PackageStatusOf == [COMPLETED |-> "COMPLETE", PARTIAL |-> "PARTIAL", BLOCKED |-> "BLOCKED",
                    FAILED |-> "FAILED"]
PackageReason == [COMPLETED |-> "PACKAGE_COMPLETE", PARTIAL |-> "PACKAGE_PARTIAL",
                  BLOCKED |-> "PACKAGE_BLOCKED", FAILED |-> "PACKAGE_FAILED"]

BlockedTools(row) == {k \in Tools : row.steps[StepOf(k)] \in {"BLOCKED", "FAIL"}}

\* ResearchPackageAssembler.assemble.
Package(p, row) == [request |-> work[p].request, status |-> PackageStatusOf[row.package],
                    evidence_ids |-> {e.key : e \in row.evidence},
                    blocked_capabilities |-> BlockedTools(row)]

AssembleRun(p) ==
    /\ Assemble(p)
    /\ LET row == tx'[p].row
           claimed == BuildAndValidate(work[p].graph, row.evidence)
       IN  Write(p, Transition([claimed EXCEPT !.package = Package(p, row)], tx[p].row.status,
                               row.status, PackageReason[row.status]))

CommitCommand(p) ==
    /\ Commit(p)
    /\ ledger' = IF ~tx[p].writes THEN ledger
                 ELSE IF tx[p].id = 0 THEN Append(ledger, work[p].graph)
                 ELSE [ledger EXCEPT ![tx[p].id] = work[p].graph]
    /\ Forget(p)

AbortCommand(p) == Abort(p) /\ Forget(p) /\ UNCHANGED ledger

AuditNext ==
    \/ SeedPolicy
    \/ \E p \in Processes :
          \/ BeginCommand(p) \/ Find(p) \/ InsertRun(p) \/ Winner(p) \/ PlanRun(p)
          \/ StartRun(p) \/ RunComponent(p) \/ RunTool(p) \/ AssembleRun(p)
          \/ CommitCommand(p) \/ AbortCommand(p)

AuditSpec == AuditInit /\ [][AuditNext]_<<vars, auditVars>>

-----------------------------------------------------------------------------
(* The tables: their columns, constraints and triggers *)

RunStatuses == {"CREATED", "PLANNING", "PLANNED", "RUNNING", "PAUSED"} \cup TerminalStatuses

Reasons == {"PLAN_STARTED", "PLAN_VALIDATED", "RUN_STARTED", "PACKAGE_COMPLETE",
            "PACKAGE_PARTIAL", "PACKAGE_BLOCKED", "PACKAGE_FAILED"}

ResearchRunEvent == [sequence_number : Nat, from_status : RunStatuses, to_status : RunStatuses,
                     reason_code : Reasons]

ResearchToolInvocation == [step : Tools, attempt_number : Nat,
                           status : {"PENDING", "RUNNING", "PASS", "PARTIAL", "BLOCKED", "FAIL"},
                           error_code : {"none", "TOOL_ERROR", "BUDGET_EXCEEDED"}]

ResearchClaim == [id : {Plan[i] : i \in StepIndex},
                  claim_type : {"IDENTITY", "DATA_QUALITY", "LIMITATION"},
                  statement_code : {"IDENTITY", "DATA_QUALITY", "LIMITATION"} \X STRING,
                  lifecycle_status : {"CANDIDATE", "VALIDATED", "REJECTED"},
                  support_status : {None, "SUPPORTED", "PARTIALLY_SUPPORTED", "CONFLICTING",
                                    "UNSUPPORTED", "BLOCKED"}]

ClaimEvidenceLink == [claim : {Plan[i] : i \in StepIndex}, evidence : {Plan[i] : i \in StepIndex},
                      role : {"PRIMARY", "CORROBORATING", "CONTRADICTING", "CONTEXT",
                              "LIMITATION"}]

ResearchObservation == [step : {Plan[i] : i \in StepIndex},
                        invocation : {None} \cup (Tools \X (1..2)),
                        status : {"PASS", "PARTIAL", "BLOCKED", "FAIL"}]

ResearchPackage == [request : Processes, status : {"COMPLETE", "PARTIAL", "BLOCKED", "FAILED"},
                    evidence_ids : SUBSET {Plan[i] : i \in StepIndex},
                    blocked_capabilities : SUBSET Tools]

\* NULL is no value of a column.
ASSUME NullAssumption ==
    /\ None \notin Processes /\ None \notin Reasons
    /\ None \notin Tools \X (1..2) /\ None \notin ResearchPackage

\* stage7_guard_run_update.
RunUpdates ==
    {<<"CREATED", "PLANNING">>, <<"PLANNED", "RUNNING">>}
    \cup {"PLANNING"} \X {"PLANNED", "BLOCKED", "FAILED"}
    \cup {"RUNNING"} \X {"PAUSED", "PARTIAL", "BLOCKED", "COMPLETED", "FAILED", "CANCELLED"}
    \cup {"PAUSED"} \X {"RUNNING", "CANCELLED"}

\* ALLOWED_RUN_TRANSITIONS, what the state machine lets through.
AllowedRunTransitions ==
    [CREATED  |-> {"PLANNING"},
     PLANNING |-> {"PLANNED", "BLOCKED", "FAILED"},
     PLANNED  |-> {"RUNNING"},
     RUNNING  |-> {"PAUSED", "PARTIAL", "BLOCKED", "COMPLETED", "FAILED", "CANCELLED"},
     PAUSED   |-> {"RUNNING", "CANCELLED"}]

\* stage7_guard_step_update, and the path on which execute takes every step.
StepUpdates ==
    {"PENDING"} \X {"READY", "BLOCKED", "SKIPPED"}
    \cup {"READY"} \X {"RUNNING", "BLOCKED", "SKIPPED"}
    \cup {"RUNNING"} \X {"PASS", "PARTIAL", "BLOCKED", "FAIL"}
StepPath(target) == <<"PENDING", "READY", "RUNNING", target>>
StepsReached == {"PENDING"} \cup {s \in StepStatuses :
                    \A n \in 1..3 : <<StepPath(s)[n], StepPath(s)[n + 1]>> \in StepUpdates}

\* stage7_guard_invocation_update, for the one update of an invocation.
InvocationUpdates == {"PENDING", "RUNNING"} \X {"PASS", "PARTIAL", "BLOCKED", "FAIL"}

\* stage7_validate_request_snapshot as migration 0010 leaves it.
RequestLawful(q) == q.ownSecurity /\ q.notAfter /\ q.status \in {"COMPLETE", "PARTIAL"}

\* research_agent_runs: the request of the Run, among those that can be seen.
RunLawful(row, g, requests) ==
    /\ g.request \in requests
    /\ row.status \in RunStatuses
    /\ g.terminal_reason # None <=> row.status \in TerminalStatuses

EventsLawful(g) ==
    /\ \A n \in DOMAIN g.events :
          /\ g.events[n] \in ResearchRunEvent
          /\ g.events[n].sequence_number > 0
          /\ g.events[n].to_status \in AllowedRunTransitions[g.events[n].from_status]
          /\ <<g.events[n].from_status, g.events[n].to_status>> \in RunUpdates
    /\ \A m, n \in DOMAIN g.events :
          g.events[m].sequence_number = g.events[n].sequence_number => m = n

\* research_plans and research_steps: the bounds of an index, unique keys, and
\* every update of a step's status.
StepsLawful(row, g) ==
    /\ g.plan <=> row.status # "CREATED"
    /\ \A i \in StepIndex : i - 1 \in 0..19 /\ row.steps[i] \in StepsReached

InvocationsLawful(g) ==
    /\ \A i \in g.invocations :
          /\ i \in ResearchToolInvocation
          /\ i.attempt_number \in 1..2
          /\ <<"RUNNING", i.status>> \in InvocationUpdates
    /\ \A i, j \in g.invocations :
          i.step = j.step /\ i.attempt_number = j.attempt_number => i = j

\* stage7_validate_observation_lineage, with the columns of the table.
ObservationLineage(g, o) ==
    /\ o \in ResearchObservation
    /\ o.invocation = None <=> o.step \notin Tools
    /\ o.invocation # None =>
          /\ o.invocation[1] = o.step
          /\ \E i \in g.invocations : <<i.step, i.attempt_number>> = o.invocation

\* The two unique indexes of migration 0011.
ObservationsLawful(g) ==
    /\ \A o \in g.observations : ObservationLineage(g, o)
    /\ \A o, q \in g.observations :
          (o.invocation = q.invocation /\ (o.invocation = None => o.step = q.step)) => o = q

\* research_evidence: its observation exists.
EvidenceLawful(row, g) ==
    \A e \in row.evidence : \E o \in g.observations : o.step = e.key

\* research_claims: claim_key, a checksum of all but the id, the status and the
\* support, is unique in a Run.
ClaimsLawful(g) ==
    /\ g.claims \subseteq ResearchClaim
    /\ \A c, d \in g.claims :
          (c.claim_type = d.claim_type /\ c.statement_code = d.statement_code) => c = d

\* stage7_validate_link_lineage, and one link for a pair.
LinksLawful(row, g) ==
    /\ g.links \subseteq ClaimEvidenceLink
    /\ \A l \in g.links : /\ \E c \in g.claims : c.id = l.claim
                          /\ \E e \in row.evidence : e.key = l.evidence
    /\ \A l, m \in g.links : (l.claim = m.claim /\ l.evidence = m.evidence) => l = m

\* stage7_validate_package_lineage.
PackageLawful(g) ==
    g.package # None => g.package \in ResearchPackage /\ g.package.request = g.request

RowsLawful(row, g, requests) ==
    /\ RunLawful(row, g, requests) /\ EventsLawful(g) /\ StepsLawful(row, g)
    /\ InvocationsLawful(g) /\ ObservationsLawful(g) /\ EvidenceLawful(row, g)
    /\ ClaimsLawful(g) /\ LinksLawful(row, g) /\ PackageLawful(g)

-----------------------------------------------------------------------------
(* Properties *)

\* The requests that are committed, with the Run or with a reuse of it.
Requests == {p \in Processes : tx[p].pc = "done"}

\* No constraint or trigger ever ends a command: what ResearchRequestService
\* admits the trigger on research_requests admits, and the rows that planning,
\* execution and assembly write, in whatever order commands reuse each other's
\* Runs, satisfy every constraint of the tables at every step up to the commit.
LedgerLawful ==
    /\ \A p \in Processes : work[p].request # None => RequestLawful(question)
    /\ \A p \in Writers : RowsLawful(tx[p].row, work[p].graph, Requests \cup {p})
    /\ \A i \in DOMAIN ledger : ledger[i].request \in Requests

\* The events are numbered 1, 2, ... and lead from CREATED to the status of the Run.
EventsLead(row, g) ==
    LET n == Len(g.events)
    IN  /\ n >= 2 /\ g.events[1].from_status = "CREATED" /\ g.events[n].to_status = row.status
        /\ \A i \in 1..n : g.events[i].sequence_number = i
        /\ \A i \in 2..n : g.events[i].from_status = g.events[i - 1].to_status

\* The last call that the budget was charged for a tool of the plan is stored, and
\* no call that it was not charged.
CallsRecorded(row, g) ==
    /\ \A k \in Tools : \E i \in g.invocations :
          i.step = k /\ i.attempt_number = row.budget.perTool[k]
    /\ \A i \in g.invocations : i.attempt_number \in 1..row.budget.perTool[i.step]

\* A supported claim rests on VALID evidence, that on an observation of a step that
\* was not blocked or failed; a step without observation is told by the package.
ClaimsGrounded(row, g) ==
    /\ \A c \in g.claims : c.support_status = "SUPPORTED" =>
          \E l \in g.links, e \in row.evidence, o \in g.observations :
              /\ l.claim = c.id /\ l.evidence = e.key /\ e.status = "VALID"
              /\ o.step = e.key /\ o.status \in {"PASS", "PARTIAL"}
    /\ \A k \in Tools : (\E o \in g.observations : o.step = k) \/ k \in g.package.blocked_capabilities
    /\ g.package.evidence_ids = {o.step : o \in g.observations}

\* The audit trail of a committed Run tells how it got there: the events form a
\* path to its status, the call that gave each tool its result is stored and none
\* that was not charged, and every supported claim can be followed to the call it
\* comes from.
AuditTrail ==
    \A i \in DOMAIN ledger :
        /\ EventsLead(runs[i], ledger[i])
        /\ runs[i].status \in TerminalStatuses =>
              CallsRecorded(runs[i], ledger[i]) /\ ClaimsGrounded(runs[i], ledger[i])

\* A call of the Run met the end of its budget.
Exhausted(g) == \E i \in g.invocations : i.error_code = "BUDGET_EXCEEDED"

\* How a Run ends follows from its steps and evidence, in every ended Run whose
\* budget sufficed: see Verdict.
VerdictSound ==
    \A i \in DOMAIN runs :
        runs[i].status \in TerminalStatuses /\ ~Exhausted(ledger[i]) => Verdict(runs[i])

\* "Each retry is a new immutable Invocation attempt": an ended Run has a row for
\* every call that its budget was charged.
EveryAttemptStored ==
    \A i \in DOMAIN ledger : runs[i].status \in TerminalStatuses =>
        \A k \in Tools : \A n \in 1..runs[i].budget.perTool[k] :
            \E v \in ledger[i].invocations : v.step = k /\ v.attempt_number = n

\* "Budget exhaustion stops execution and produces PARTIAL if validated useful
\* evidence exists [...]; otherwise it produces BLOCKED": a Run whose budget did not
\* suffice for a call ends with one of the two.
ExhaustionEndsPartial ==
    \A i \in DOMAIN ledger : Exhausted(ledger[i]) => runs[i].status \in {"PARTIAL", "BLOCKED"}
=============================================================================
