------------------------ MODULE ResearchLedgerProofs ------------------------
(***************************************************************************)
(* The commands with their audit rows are the commands of ResearchRun: the *)
(* rows only record what a command does and never decide it, except that   *)
(* a command that is not admissible goes no further.  So everything that   *)
(* is proved of ResearchRun holds of the commands with their audit rows.   *)
(* The rows themselves are lawful and complete: AuditInv says, for every   *)
(* label of a command, which rows its steps so far have left and that they *)
(* agree with the Run's own steps and budget.                              *)
(***************************************************************************)
EXTENDS ResearchLedger, ResearchRunProofs

\* A tool call that is recorded is a tool call.
LEMMA RecordedCall == ASSUME NEW p \in Processes, RunTool(p) PROVE ExecuteTool(p)
BY DEF RunTool, ExecuteTool

\* Every step of a command with its audit rows is a step of the command, and the
\* seeding of the policy is none.
LEMMA RecordedStep == AuditNext => Next \/ UNCHANGED vars
<1> SUFFICES ASSUME AuditNext PROVE Next \/ UNCHANGED vars
    OBVIOUS
<1>1. CASE SeedPolicy
    BY <1>1 DEF SeedPolicy, vars
<1>2. ASSUME NEW p \in Processes,
             \/ BeginCommand(p) \/ Find(p) \/ InsertRun(p) \/ Winner(p) \/ PlanRun(p)
             \/ StartRun(p) \/ RunComponent(p) \/ RunTool(p) \/ AssembleRun(p)
             \/ CommitCommand(p) \/ AbortCommand(p)
      PROVE  Next
  <2>1. CASE BeginCommand(p)
      BY <2>1 DEF BeginCommand, Next
  <2>2. CASE Find(p)
      BY <2>2 DEF Find, Next
  <2>3. CASE InsertRun(p)
      BY <2>3 DEF InsertRun, Next
  <2>4. CASE Winner(p)
      BY <2>4 DEF Winner, Next
  <2>5. CASE PlanRun(p)
      BY <2>5 DEF PlanRun, Next
  <2>6. CASE StartRun(p)
      BY <2>6 DEF StartRun, Next
  <2>7. CASE RunComponent(p)
      BY <2>7 DEF RunComponent, Next
  <2>8. CASE RunTool(p)
      BY <2>8, RecordedCall DEF Next
  <2>9. CASE AssembleRun(p)
      BY <2>9 DEF AssembleRun, Next
  <2>10. CASE CommitCommand(p)
      BY <2>10 DEF CommitCommand, Next
  <2>11. CASE AbortCommand(p)
      BY <2>11 DEF AbortCommand, Next
  <2> QED
      BY <1>2, <2>1, <2>2, <2>3, <2>4, <2>5, <2>6, <2>7, <2>8, <2>9, <2>10, <2>11
<1> QED
    BY <1>1, <1>2 DEF AuditNext

\* Commands that write their audit rows behave as the commands of ResearchRun.
THEOREM AuditImplementsRun == AuditSpec => Spec
<1>1. AuditInit => Init
    BY DEF AuditInit
<1>2. [AuditNext]_<<vars, auditVars>> => [Next]_vars
    BY RecordedStep
<1> QED
    BY <1>1, <1>2, PTL DEF AuditSpec, Spec

\* Idempotency, consistent Runs and the budget, also for commands with audit rows.
THEOREM AuditedRunsSafe ==
    AuditSpec => [](OneReusableRun /\ CommittedConsistent /\ BudgetKept)
BY AuditImplementsRun, RunIdempotent, RunConsistent, RunAffordable, PTL

\* However the commands interleave, an ended Run whose budget sufficed ended as its
\* own steps and evidence say: FAILED iff a tool step failed, otherwise PARTIAL iff
\* the identity was verified or a data tool was partial, otherwise BLOCKED; and
\* validate_evidence is BLOCKED iff a tool step was not usable.
THEOREM AuditedVerdict == AuditSpec => []VerdictSound
<1>1. VerdictFromSteps => VerdictSound
    BY DEF VerdictFromSteps, VerdictSound
<1> QED
    BY <1>1, AuditImplementsRun, RunVerdict, PTL

-----------------------------------------------------------------------------
(* What the audit rows say *)

\* The audit rows of one Run, with the columns of their tables.
Graphs == [request : Processes \cup {None}, terminal_reason : Reasons \cup {None},
           events : Seq(ResearchRunEvent), plan : BOOLEAN,
           invocations : SUBSET ResearchToolInvocation, observations : SUBSET ResearchObservation,
           claims : SUBSET ResearchClaim, links : SUBSET ClaimEvidenceLink,
           package : ResearchPackage \cup {None}]

\* The events are numbered and lead from CREATED to the status over updates that
\* the state machine and the trigger allow.
EventsSound(events, status) ==
    /\ events \in Seq(ResearchRunEvent)
    /\ \A i \in DOMAIN events :
          /\ events[i].sequence_number = i
          /\ events[i].to_status \in AllowedRunTransitions[events[i].from_status]
          /\ <<events[i].from_status, events[i].to_status>> \in RunUpdates
          /\ events[i].from_status = IF i = 1 THEN "CREATED" ELSE events[i - 1].to_status
    /\ status = IF events = <<>> THEN "CREATED" ELSE events[Len(events)].to_status

Reached(key, n) == \E i \in StepIndex : i <= n /\ Plan[i] = key

\* Every tool that was called has one invocation, of the last attempt.
CallsSound(row, g, n) ==
    /\ \A i \in g.invocations :
          /\ i.step \in Tools /\ Reached(i.step, n)
          /\ i.attempt_number = row.budget.perTool[i.step]
          /\ i.status \in {"PASS", "BLOCKED", "FAIL"}
    /\ \A i, j \in g.invocations : i.step = j.step => i = j
    /\ \A k \in Tools : Reached(k, n) => \E i \in g.invocations : i.step = k

\* The observations belong to the steps that were executed, one for each that has one.
ObservationsSound(row, g, n) ==
    /\ \A o \in g.observations :
          /\ Reached(o.step, n)
          /\ o.invocation = IF o.step \in Tools THEN <<o.step, row.budget.perTool[o.step]>> ELSE None
    /\ \A o, q \in g.observations : o.step = q.step => o = q
    /\ \A i \in StepIndex : i <= n /\ Plan[i] \in Tools =>
          (\E o \in g.observations : o.step = Plan[i]) \/ row.steps[i] \in {"BLOCKED", "FAIL"}

\* The evidence is that of the observations, one for each.
EvidenceSound(row, g) ==
    /\ \A e \in row.evidence :
          /\ \E o \in g.observations : /\ o.step = e.key
                                       /\ e.status = "VALID" => o.status \in {"PASS", "PARTIAL"}
          /\ e.type = "BLOCKED_CAPABILITY_EVIDENCE" => e.status = "BLOCKED"
    /\ \A e, f \in row.evidence : e.key = f.key => e = f
    /\ \A o \in g.observations : \E e \in row.evidence : e.key = o.step

Recorded(row, g, n) == CallsSound(row, g, n) /\ ObservationsSound(row, g, n) /\ EvidenceSound(row, g)

\* The audit rows of a Run that is planned, that has executed n steps, that has ended.
Planned(g) ==
    /\ EventsSound(g.events, "PLANNED") /\ Len(g.events) >= 2
    /\ g.plan = TRUE /\ g.terminal_reason = None /\ g.invocations = {} /\ g.observations = {}
    /\ g.claims = {} /\ g.links = {} /\ g.package = None

Executing(row, g, n) ==
    /\ row.status = "RUNNING" /\ EventsSound(g.events, "RUNNING") /\ Len(g.events) >= 2
    /\ g.plan = TRUE /\ g.terminal_reason = None
    /\ g.claims = {} /\ g.links = {} /\ g.package = None
    /\ Recorded(row, g, n)

Concluded(row, g) ==
    /\ EventsSound(g.events, row.status) /\ Len(g.events) >= 2
    /\ g.plan = TRUE /\ g.terminal_reason # None
    /\ Recorded(row, g, Len(Plan))
    /\ ClaimsLawful(g) /\ LinksLawful(row, g) /\ PackageLawful(g) /\ ClaimsGrounded(row, g)

Visible(row, g) ==
    /\ row.status = "PLANNED" => Planned(g)
    /\ row.status \in TerminalStatuses => Concluded(row, g)

\* What an open transaction has written.
GraphAt(t, w) ==
    /\ t.writes => w.graph.request = w.request
    /\ t.pc = "plan" => w.graph = NewGraph(w.request)
    /\ t.pc = "start" /\ t.writes => t.id = 0
    /\ t.pc = "start" /\ t.id = 0 => Planned(w.graph)
    /\ t.pc = "step" => Executing(t.row, w.graph, t.step - 1)
    /\ t.pc = "assemble" => Executing(t.row, w.graph, Len(Plan))
    /\ t.pc = "commit" /\ t.writes => Visible(t.row, w.graph)

\* The request that a transaction works for: its own, or that of the Run it reuses.
RequestAt(p, t, w) ==
    /\ w.request # None => RequestLawful(question)
    /\ t.pc = "find" => w.request \in {p, None}
    /\ t.pc \notin {"begin", "find", "done", "failed"} /\ t.id = 0 => w.request = p
    /\ t.id # 0 => w.request = ledger[t.id].request

Works == [request : Processes \cup {None}, graph : Graphs]

AuditInv ==
    /\ ledger \in Seq(Graphs) /\ Len(ledger) = Len(runs)
    /\ work \in [Processes -> Works]
    /\ \A p \in Processes : GraphAt(tx[p], work[p]) /\ RequestAt(p, tx[p], work[p])
    /\ \A i \in DOMAIN ledger : Visible(runs[i], ledger[i]) /\ ledger[i].request \in Requests

-----------------------------------------------------------------------------
(* What the invariant says of the rows *)

\* Every status of a step is reached over updates that the trigger allows.
LEMMA StepsAllowed == StepStatuses \subseteq StepsReached
<1> SUFFICES ASSUME NEW s \in StepStatuses \ {"PENDING"} PROVE s \in StepsReached
    BY DEF StepsReached
<1>1. s \in {"PASS", "PARTIAL", "BLOCKED", "FAIL"}
    BY DEF StepStatuses
<1>2. StepPath(s)[1] = "PENDING" /\ StepPath(s)[2] = "READY" /\ StepPath(s)[3] = "RUNNING"
      /\ StepPath(s)[4] = s
    BY DEF StepPath
<1>3. <<"PENDING", "READY">> \in StepUpdates /\ <<"READY", "RUNNING">> \in StepUpdates
      /\ <<"RUNNING", s>> \in StepUpdates
    BY <1>1 DEF StepUpdates
<1> HIDE DEF StepPath
<1>4. ASSUME NEW n \in 1..3 PROVE <<StepPath(s)[n], StepPath(s)[n + 1]>> \in StepUpdates
  <2>1. n = 1 \/ n = 2 \/ n = 3
      OBVIOUS
  <2> QED
      BY <1>2, <1>3, <2>1
<1> QED
    BY <1>4 DEF StepsReached

\* The events of a Run are lawful, and lead to its status.
LEMMA SoundEvents ==
    ASSUME NEW g \in Graphs, NEW row, EventsSound(g.events, row.status)
    PROVE  /\ EventsLawful(g)
           /\ Len(g.events) >= 2 => EventsLead(row, g)
<1> DEFINE events == g.events
<1>1. events \in Seq(ResearchRunEvent) /\ Len(events) \in Nat /\ DOMAIN events = 1..Len(events)
    BY DEF EventsSound
<1>2. \A n \in DOMAIN events : events[n] \in ResearchRunEvent /\ n > 0
    BY <1>1
<1>3. EventsLawful(g)
    BY <1>1, <1>2 DEF EventsSound, EventsLawful
<1>4. ASSUME Len(events) >= 2 PROVE EventsLead(row, g)
  <2>1. events # <<>> /\ 1 \in DOMAIN events
      BY <1>1, <1>4
  <2>2. \A i \in 2..Len(events) : i \in DOMAIN events /\ i # 1
      BY <1>1
  <2> QED
      BY <1>1, <1>4, <2>1, <2>2 DEF EventsSound, EventsLead
<1> QED
    BY <1>3, <1>4

\* Calls and observations that are recorded satisfy the constraints of their tables.
LEMMA SoundRecords ==
    ASSUME NEW row, NEW g \in Graphs, NEW n, Recorded(row, g, n),
           \A k \in Tools : Reached(k, n) => row.budget.perTool[k] \in 1..2
    PROVE  InvocationsLawful(g) /\ ObservationsLawful(g) /\ EvidenceLawful(row, g)
<1>1. CallsSound(row, g, n) /\ ObservationsSound(row, g, n) /\ EvidenceSound(row, g)
    BY DEF Recorded
<1>2. g.invocations \subseteq ResearchToolInvocation /\ g.observations \subseteq ResearchObservation
    BY DEF Graphs
<1>3. InvocationsLawful(g)
  <2>1. \A s \in {"PASS", "BLOCKED", "FAIL"} : <<"RUNNING", s>> \in InvocationUpdates
      BY DEF InvocationUpdates
  <2>2. ASSUME NEW i \in g.invocations
        PROVE  i \in ResearchToolInvocation /\ i.attempt_number \in 1..2
               /\ <<"RUNNING", i.status>> \in InvocationUpdates
      BY <1>1, <1>2, <2>1 DEF CallsSound
  <2> QED
      BY <1>1, <2>2 DEF InvocationsLawful, CallsSound
<1>4. ASSUME NEW o \in g.observations PROVE ObservationLineage(g, o)
  <2>1. CASE o.step \in Tools
    <3>1. o.invocation = <<o.step, row.budget.perTool[o.step]>> /\ Reached(o.step, n)
        BY <1>1, <2>1 DEF ObservationsSound
    <3>2. row.budget.perTool[o.step] \in 1..2
        BY <2>1, <3>1
    <3>3. o.invocation # None /\ o.invocation[1] = o.step
        BY <2>1, <3>1, <3>2, NullAssumption
    <3>4. PICK i \in g.invocations : i.step = o.step
        BY <1>1, <2>1, <3>1 DEF CallsSound
    <3>5. <<i.step, i.attempt_number>> = o.invocation
        BY <1>1, <3>1, <3>4 DEF CallsSound
    <3> QED
        BY <1>2, <2>1, <3>3, <3>5 DEF ObservationLineage
  <2>2. CASE o.step \notin Tools
      BY <1>1, <1>2, <2>2 DEF ObservationsSound, ObservationLineage
  <2> QED
      BY <2>1, <2>2
<1>5. ASSUME NEW o \in g.observations, NEW q \in g.observations, o.invocation = q.invocation,
             o.invocation = None => o.step = q.step
      PROVE  o = q
  <2>1. o.step = q.step
      BY <1>4, <1>5 DEF ObservationLineage
  <2> QED
      BY <1>1, <2>1 DEF ObservationsSound
<1>6. EvidenceLawful(row, g)
    BY <1>1 DEF EvidenceSound, EvidenceLawful
<1> QED
    BY <1>3, <1>4, <1>5, <1>6 DEF ObservationsLawful

\* One writer's rows, from what the invariant says of them.
LEMMA SoundRows ==
    ASSUME NEW row \in RunRecords, NEW g \in Graphs, NEW requests, NEW n,
           g.request \in requests, EventsSound(g.events, row.status), Recorded(row, g, n),
           \A k \in Tools : Reached(k, n) => row.budget.perTool[k] \in 1..2,
           g.plan = TRUE <=> row.status # "CREATED",
           g.terminal_reason # None <=> row.status \in TerminalStatuses,
           ClaimsLawful(g), LinksLawful(row, g), PackageLawful(g)
    PROVE  RowsLawful(row, g, requests)
<1>1. RunLawful(row, g, requests)
    BY DEF RunLawful, RunRecords, RunStatuses
<1>2. StepsLawful(row, g)
  <2>1. ASSUME NEW i \in StepIndex PROVE i - 1 \in 0..19 /\ row.steps[i] \in StepsReached
    <3>1. row.steps[i] \in StepStatuses
        BY DEF RunRecords
    <3>2. i - 1 \in 0..19
        BY PlanAssumption DEF StepIndex
    <3> QED
        BY <3>1, <3>2, StepsAllowed
  <2>2. g.plan \in BOOLEAN
      BY DEF Graphs
  <2> QED
      BY <2>1, <2>2 DEF StepsLawful
<1> QED
    BY <1>1, <1>2, SoundEvents, SoundRecords DEF RowsLawful

\* Nothing is claimed and nothing packaged before the end.
LEMMA NothingClaimed ==
    ASSUME NEW row, NEW g, g.claims = {}, g.links = {}, g.package = None
    PROVE  ClaimsLawful(g) /\ LinksLawful(row, g) /\ PackageLawful(g)
    BY DEF ClaimsLawful, LinksLawful, PackageLawful

\* Before its first step a Run has no records, and needs none.
LEMMA NothingRecorded ==
    ASSUME NEW row, NEW g, row.evidence = {}, g.invocations = {}, g.observations = {}
    PROVE  Recorded(row, g, 0) /\ \A k : ~Reached(k, 0)
<1>1. \A i \in StepIndex : ~(i <= 0)
    BY DEF StepIndex
<1> QED
    BY <1>1 DEF Recorded, CallsSound, ObservationsSound, EvidenceSound, Reached

\* What the row of a transaction looks like before and during execution.
LEMMA RowFacts ==
    /\ NewRun.status = "CREATED" /\ NewRun.evidence = {}
    /\ PlannedRun.status = "PLANNED" /\ PlannedRun.evidence = {}
    /\ RunningRun.status = "RUNNING" /\ RunningRun.evidence = {}
<1>1. NewRun.status = "CREATED" /\ NewRun.evidence = {}
    BY DEF NewRun
<1>2. PlannedRun.status = "PLANNED" /\ PlannedRun.evidence = {}
    BY <1>1, NewRunFacts DEF PlannedRun, RunRecords
<1>3. RunningRun.status = "RUNNING" /\ RunningRun.evidence = {}
    BY <1>2, NewRunFacts DEF RunningRun, RunRecords
<1> QED
    BY <1>1, <1>2, <1>3

\* A tool that was reached was charged once or twice.
LEMMA ReachedPaid ==
    ASSUME NEW row, NEW n, Progress(row, n), NEW k \in Tools, Reached(k, n)
    PROVE  row.budget.perTool[k] \in 1..2
    BY DEF Progress, Reached

LEMMA AllReached ==
    ASSUME NEW k \in Tools
    PROVE  Reached(k, Len(Plan))
    BY PlanFacts DEF Reached, StepIndex

\* The rows of a transaction satisfy every constraint.
LEMMA WriterLawful ==
    ASSUME IInv, AuditInv, NEW p \in Processes, tx[p].writes
    PROVE  RowsLawful(tx[p].row, work[p].graph, Requests \cup {p})
<1> DEFINE t == tx[p]
           row == tx[p].row
           g == work[p].graph
<1>1. /\ t \in Transactions /\ Local(t) /\ GraphAt(t, work[p]) /\ RequestAt(p, t, work[p])
      /\ work[p] \in Works /\ t.id <= Len(runs)
    BY TransactionType DEF AuditInv
<1>2. row \in RunRecords /\ g \in Graphs /\ t.id \in Nat
    BY <1>1 DEF Transactions, Works
<1>3. g.request \in Requests \cup {p}
  <2>1. g.request = work[p].request
      BY <1>1 DEF GraphAt
  <2>2. CASE t.id = 0
      BY <1>1, <2>1, <2>2 DEF RequestAt, Local
  <2>3. CASE t.id # 0
    <3>1. t.id \in DOMAIN ledger
        BY <1>1, <1>2, <2>3 DEF AuditInv, IInv, TypeOK
    <3> QED
        BY <1>1, <2>1, <2>3, <3>1 DEF RequestAt, AuditInv
  <2> QED
      BY <2>2, <2>3
<1>4. t.pc \in {"plan", "start", "step", "assemble", "commit"}
    BY <1>1 DEF Local, Transactions, Labels
<1>5. ASSUME row.status = "PLANNED", row.evidence = {}, Planned(g)
      PROVE  RowsLawful(row, g, Requests \cup {p})
  <2>1. /\ EventsSound(g.events, row.status) /\ g.plan = TRUE /\ g.terminal_reason = None
        /\ g.claims = {} /\ g.links = {} /\ g.package = None
        /\ g.invocations = {} /\ g.observations = {} /\ row.status \notin TerminalStatuses
      BY <1>5 DEF Planned, TerminalStatuses
  <2>2. Recorded(row, g, 0) /\ \A k : ~Reached(k, 0)
      BY <1>5, <2>1, NothingRecorded
  <2>3. ClaimsLawful(g) /\ LinksLawful(row, g) /\ PackageLawful(g)
      BY <2>1, NothingClaimed
  <2> HIDE DEF row, g
  <2> QED
      BY <1>2, <1>3, <1>5, <2>1, <2>2, <2>3, SoundRows
<1>6. ASSUME NEW n, Executing(row, g, n), Progress(row, n)
      PROVE  RowsLawful(row, g, Requests \cup {p})
  <2>1. /\ EventsSound(g.events, row.status) /\ g.plan = TRUE /\ g.terminal_reason = None
        /\ g.claims = {} /\ g.links = {} /\ g.package = None
        /\ Recorded(row, g, n) /\ row.status = "RUNNING" /\ row.status \notin TerminalStatuses
      BY <1>6 DEF Executing, TerminalStatuses
  <2>2. \A k \in Tools : Reached(k, n) => row.budget.perTool[k] \in 1..2
      BY <1>6, ReachedPaid
  <2>3. ClaimsLawful(g) /\ LinksLawful(row, g) /\ PackageLawful(g)
      BY <2>1, NothingClaimed
  <2> HIDE DEF row, g
  <2> QED
      BY <1>2, <1>3, <2>1, <2>2, <2>3, SoundRows
<1>7. CASE t.pc = "plan"
  <2>1. row = NewRun /\ g = NewGraph(work[p].request)
      BY <1>1, <1>7 DEF Local, GraphAt
  <2>2. /\ g.events = <<>> /\ g.plan = FALSE /\ g.terminal_reason = None
        /\ g.claims = {} /\ g.links = {} /\ g.package = None
        /\ g.invocations = {} /\ g.observations = {}
      BY <2>1 DEF NewGraph
  <2>3. row.status = "CREATED" /\ row.status \notin TerminalStatuses /\ row.evidence = {}
      BY <2>1, RowFacts DEF TerminalStatuses
  <2>4. EventsSound(g.events, row.status)
      BY <2>2, <2>3 DEF EventsSound
  <2>5. Recorded(row, g, 0) /\ \A k : ~Reached(k, 0)
      BY <2>2, <2>3, NothingRecorded
  <2>6. ClaimsLawful(g) /\ LinksLawful(row, g) /\ PackageLawful(g)
      BY <2>2, NothingClaimed
  <2>7. /\ g.plan = TRUE <=> row.status # "CREATED"
        /\ g.terminal_reason # None <=> row.status \in TerminalStatuses
        /\ \A k \in Tools : Reached(k, 0) => row.budget.perTool[k] \in 1..2
      BY <2>2, <2>3, <2>5
  <2> HIDE DEF row, g
  <2>8. RowsLawful(row, g, Requests \cup {p})
      BY <1>2, <1>3, <2>4, <2>5, <2>6, <2>7, SoundRows
  <2> QED
      BY <2>8 DEF row, g
<1>8. CASE t.pc = "start"
  <2>1. row = PlannedRun /\ Planned(g)
      BY <1>1, <1>8 DEF Local, GraphAt
  <2> QED
      BY <1>5, <2>1, RowFacts
<1>9. CASE t.pc = "step"
    BY <1>1, <1>6, <1>9 DEF Local, GraphAt
<1>10. CASE t.pc = "assemble"
    BY <1>1, <1>6, <1>10 DEF Local, GraphAt
<1>11. CASE t.pc = "commit"
  <2>1. Whole(row) /\ Accounted(row) /\ Visible(row, g)
      BY <1>1, <1>11 DEF Local, GraphAt
  <2>2. CASE row = PlannedRun
    <3>1. row.status = "PLANNED" /\ row.evidence = {}
        BY <2>2, RowFacts
    <3> QED
        BY <1>5, <2>1, <3>1 DEF Visible
  <2>3. CASE row.status \in TerminalStatuses
    <3>1. Concluded(row, g) /\ row.status # "CREATED"
        BY <2>1, <2>3 DEF Visible, TerminalStatuses
    <3>2. \A k \in Tools : row.budget.perTool[k] \in 1..2
        BY <2>1, <2>3 DEF Accounted
    <3>3. /\ EventsSound(g.events, row.status) /\ g.plan = TRUE /\ g.terminal_reason # None
          /\ Recorded(row, g, Len(Plan))
          /\ ClaimsLawful(g) /\ LinksLawful(row, g) /\ PackageLawful(g)
        BY <3>1 DEF Concluded
    <3>4. /\ g.plan = TRUE <=> row.status # "CREATED"
          /\ g.terminal_reason # None <=> row.status \in TerminalStatuses
          /\ \A k \in Tools : Reached(k, Len(Plan)) => row.budget.perTool[k] \in 1..2
        BY <2>3, <3>1, <3>2, <3>3
    <3> HIDE DEF row, g
    <3>5. RowsLawful(row, g, Requests \cup {p})
        BY <1>2, <1>3, <3>3, <3>4, SoundRows
    <3> QED
        BY <3>5 DEF row, g
  <2> QED
      BY <2>1, <2>2, <2>3 DEF Whole, PlannedRun
<1> QED
    BY <1>4, <1>7, <1>8, <1>9, <1>10, <1>11

\* The invariant gives both properties.
LEMMA AuditInvLawful == IInv /\ AuditInv => LedgerLawful
<1> SUFFICES ASSUME IInv, AuditInv PROVE LedgerLawful
    OBVIOUS
<1>1. \A p \in Processes : work[p].request # None => RequestLawful(question)
    BY DEF AuditInv, RequestAt
<1>2. \A p \in Writers : RowsLawful(tx[p].row, work[p].graph, Requests \cup {p})
    BY WriterLawful DEF Writers
<1>3. \A i \in DOMAIN ledger : ledger[i].request \in Requests
    BY DEF AuditInv
<1> QED
    BY <1>1, <1>2, <1>3 DEF LedgerLawful

LEMMA AuditInvTrail == IInv /\ AuditInv => AuditTrail
<1> SUFFICES ASSUME IInv, AuditInv, NEW i \in DOMAIN ledger
             PROVE  /\ EventsLead(runs[i], ledger[i])
                    /\ runs[i].status \in TerminalStatuses =>
                         CallsRecorded(runs[i], ledger[i]) /\ ClaimsGrounded(runs[i], ledger[i])
    BY DEF AuditTrail
<1> DEFINE row == runs[i]
           g == ledger[i]
<1>1. i \in DOMAIN runs /\ row \in RunRecords /\ g \in Graphs
    BY DEF AuditInv, IInv, TypeOK
<1>2. Whole(row) /\ Visible(row, g)
    BY <1>1 DEF AuditInv, IInv
<1>3. Accounted(row)
    BY <1>1 DEF IInv
<1>4. row.status = "PLANNED" \/ row.status \in TerminalStatuses
    BY <1>2, RowFacts DEF Whole, PlannedRun
<1>5. EventsSound(g.events, row.status) /\ Len(g.events) >= 2
    BY <1>2, <1>4 DEF Visible, Planned, Concluded
<1> HIDE DEF row, g
<1>6. EventsLead(row, g)
    BY <1>1, <1>5, SoundEvents
<1>7. ASSUME row.status \in TerminalStatuses
      PROVE  CallsRecorded(row, g) /\ ClaimsGrounded(row, g)
  <2>1. CallsSound(row, g, Len(Plan)) /\ ClaimsGrounded(row, g)
      BY <1>2, <1>7 DEF Visible, Concluded, Recorded
  <2>2. ASSUME NEW k \in Tools
        PROVE  \E c \in g.invocations : c.step = k /\ c.attempt_number = row.budget.perTool[k]
    <3>1. PICK c \in g.invocations : c.step = k
        BY <2>1, AllReached DEF CallsSound
    <3> QED
        BY <2>1, <3>1 DEF CallsSound
  <2>3. ASSUME NEW c \in g.invocations PROVE c.attempt_number \in 1..row.budget.perTool[c.step]
    <3>1. c.step \in Tools /\ c.attempt_number = row.budget.perTool[c.step]
        BY <2>1 DEF CallsSound
    <3>2. row.budget.perTool[c.step] \in 1..2
        BY <1>3, <1>7, <3>1 DEF Accounted
    <3> QED
        BY <3>1, <3>2
  <2> QED
      BY <2>1, <2>2, <2>3 DEF CallsRecorded
<1> QED
    BY <1>6, <1>7 DEF row, g

-----------------------------------------------------------------------------
(* What the writes do to the rows *)

Ends == {"COMPLETED", "PARTIAL", "BLOCKED", "FAILED"}

\* The transitions that the commands make.
Made(from, to) ==
    \/ from = "CREATED" /\ to = "PLANNING"
    \/ from = "PLANNING" /\ to = "PLANNED"
    \/ from = "PLANNED" /\ to = "RUNNING"
    \/ from = "RUNNING" /\ to \in Ends

LEMMA MadeAllowed ==
    ASSUME NEW from, NEW to, Made(from, to)
    PROVE  /\ from \in RunStatuses /\ to \in RunStatuses
           /\ to \in AllowedRunTransitions[from] /\ <<from, to>> \in RunUpdates
<1>1. from \in RunStatuses /\ to \in RunStatuses
    BY DEF Made, Ends, RunStatuses, TerminalStatuses
<1>2. to \in AllowedRunTransitions[from]
    BY DEF Made, Ends, AllowedRunTransitions
<1>3. <<from, to>> \in RunUpdates
    BY DEF Made, Ends, RunUpdates
<1> QED
    BY <1>1, <1>2, <1>3

\* A transition extends the events by one, and gives the reason of an end.
LEMMA TransitionFacts ==
    ASSUME NEW g \in Graphs, NEW from, NEW to, NEW reason \in Reasons,
           EventsSound(g.events, from), Made(from, to)
    PROVE  LET h == Transition(g, from, to, reason)
           IN  /\ h \in Graphs /\ EventsSound(h.events, to) /\ Len(h.events) = Len(g.events) + 1
               /\ h.terminal_reason = IF to \in TerminalStatuses THEN reason ELSE None
               /\ h.request = g.request /\ h.plan = g.plan /\ h.invocations = g.invocations
               /\ h.observations = g.observations /\ h.claims = g.claims /\ h.links = g.links
               /\ h.package = g.package
<1> DEFINE n == Len(g.events)
           event == [sequence_number |-> NextSequence(g), from_status |-> from,
                     to_status |-> to, reason_code |-> reason]
           events == Append(g.events, event)
           why == IF to \in TerminalStatuses THEN reason ELSE None
           h == Transition(g, from, to, reason)
<1>1. g.events \in Seq(ResearchRunEvent) /\ n \in Nat /\ DOMAIN g.events = 1..n
    BY DEF EventsSound
<1>2. /\ event \in ResearchRunEvent /\ event.sequence_number = n + 1
      /\ event.from_status = from /\ event.to_status = to
  <2>1. from \in RunStatuses /\ to \in RunStatuses
      BY MadeAllowed
  <2>2. NextSequence(g) = n + 1 /\ n + 1 \in Nat
      BY <1>1 DEF NextSequence
  <2> QED
      BY <2>1, <2>2 DEF ResearchRunEvent
<1> HIDE DEF event
<1>3. /\ events \in Seq(ResearchRunEvent) /\ Len(events) = n + 1 /\ DOMAIN events = 1..(n + 1)
      /\ \A i \in 1..n : events[i] = g.events[i]
      /\ events[n + 1] = event
    BY <1>1, <1>2
<1> HIDE DEF events
<1>4. EventsSound(events, to)
  <2>1. ASSUME NEW i \in DOMAIN events
        PROVE  /\ events[i].sequence_number = i
               /\ events[i].to_status \in AllowedRunTransitions[events[i].from_status]
               /\ <<events[i].from_status, events[i].to_status>> \in RunUpdates
               /\ events[i].from_status = IF i = 1 THEN "CREATED" ELSE events[i - 1].to_status
    <3>1. CASE i \in 1..n
      <4>1. i # 1 => events[i - 1] = g.events[i - 1]
          BY <1>1, <1>3, <3>1
      <4> QED
          BY <1>1, <1>3, <3>1, <4>1 DEF EventsSound
    <3>2. CASE i = n + 1
      <4>1. /\ to \in AllowedRunTransitions[from] /\ <<from, to>> \in RunUpdates
          BY MadeAllowed
      <4>2. CASE n = 0
        <5>1. g.events = <<>> /\ from = "CREATED"
            BY <1>1, <4>2 DEF EventsSound
        <5> QED
            BY <1>2, <1>3, <3>2, <4>1, <4>2, <5>1
      <4>3. CASE n # 0
        <5>1. from = g.events[n].to_status
            BY <1>1, <4>3 DEF EventsSound
        <5>2. i - 1 = n /\ i # 1 /\ n \in 1..n
            BY <1>1, <3>2, <4>3
        <5> QED
            BY <1>2, <1>3, <3>2, <4>1, <5>1, <5>2
      <4> QED
          BY <4>2, <4>3
    <3> QED
        BY <1>1, <1>3, <3>1, <3>2
  <2>2. to = IF events = <<>> THEN "CREATED" ELSE events[Len(events)].to_status
      BY <1>1, <1>2, <1>3
  <2> QED
      BY <1>3, <2>1, <2>2 DEF EventsSound
<1>5. why \in Reasons \cup {None}
    OBVIOUS
<1>6. h = [[g EXCEPT !.events = events] EXCEPT !.terminal_reason = why]
    BY DEF Transition, AppendEvent, events, event, Graphs
<1> HIDE DEF why, h
<1>7. /\ h \in Graphs /\ h.events = events /\ h.terminal_reason = why
      /\ h.request = g.request /\ h.plan = g.plan /\ h.invocations = g.invocations
      /\ h.observations = g.observations /\ h.claims = g.claims /\ h.links = g.links
      /\ h.package = g.package
    BY <1>3, <1>5, <1>6 DEF Graphs
<1> QED
    BY <1>3, <1>4, <1>7 DEF h, why

\* A new Run with its plan.
LEMMA PlannedGraph ==
    ASSUME NEW request \in Processes \cup {None}
    PROVE  LET g == NewGraph(request)
               started == Transition(g, "CREATED", "PLANNING", "PLAN_STARTED")
               h == Transition(AddPlan(started), "PLANNING", "PLANNED", "PLAN_VALIDATED")
           IN  g \in Graphs /\ g.request = request /\ h \in Graphs /\ Planned(h) /\ h.request = request
<1> DEFINE g == NewGraph(request)
           started == Transition(g, "CREATED", "PLANNING", "PLAN_STARTED")
           planned == AddPlan(started)
           h == Transition(planned, "PLANNING", "PLANNED", "PLAN_VALIDATED")
<1>1. /\ g.request = request /\ g.events = <<>> /\ g.invocations = {} /\ g.observations = {}
      /\ g.claims = {} /\ g.links = {} /\ g.package = None
    BY DEF NewGraph
<1>2. g \in Graphs
    BY DEF NewGraph, Graphs
<1>3. EventsSound(g.events, "CREATED")
    BY <1>1 DEF EventsSound
<1> HIDE DEF g
<1>4. /\ Made("CREATED", "PLANNING") /\ Made("PLANNING", "PLANNED")
      /\ "PLAN_STARTED" \in Reasons /\ "PLAN_VALIDATED" \in Reasons
      /\ "PLANNED" \notin TerminalStatuses
    BY DEF Made, Reasons, TerminalStatuses
<1>5. /\ started \in Graphs /\ EventsSound(started.events, "PLANNING")
      /\ Len(started.events) = Len(g.events) + 1
      /\ started.request = g.request /\ started.invocations = g.invocations
      /\ started.observations = g.observations /\ started.claims = g.claims
      /\ started.links = g.links /\ started.package = g.package
    BY <1>2, <1>3, <1>4, TransitionFacts
<1> HIDE DEF started
<1>6. /\ planned \in Graphs /\ planned.events = started.events /\ planned.plan = TRUE
      /\ planned.request = started.request /\ planned.invocations = started.invocations
      /\ planned.observations = started.observations /\ planned.claims = started.claims
      /\ planned.links = started.links /\ planned.package = started.package
    BY <1>5 DEF AddPlan, Graphs
<1> HIDE DEF planned
<1>7. /\ h \in Graphs /\ EventsSound(h.events, "PLANNED")
      /\ Len(h.events) = Len(planned.events) + 1 /\ h.plan = planned.plan
      /\ h.terminal_reason = None
      /\ h.request = planned.request /\ h.invocations = planned.invocations
      /\ h.observations = planned.observations /\ h.claims = planned.claims
      /\ h.links = planned.links /\ h.package = planned.package
    BY <1>4, <1>5, <1>6, TransitionFacts
<1>8. Len(h.events) >= 2
    BY <1>1, <1>5, <1>6, <1>7
<1> HIDE DEF h
<1>9. Planned(h) /\ h.request = request
    BY <1>1, <1>5, <1>6, <1>7, <1>8 DEF Planned
<1> QED
    BY <1>1, <1>2, <1>7, <1>9 DEF g, started, planned, h

\* The tools reached with one more step.
LEMMA ReachedStep ==
    ASSUME NEW k \in StepIndex
    PROVE  /\ \A key : Reached(key, k) <=> Reached(key, k - 1) \/ key = Plan[k]
           /\ ~Reached(Plan[k], k - 1)
<1>1. \A i \in StepIndex : (i <= k <=> i <= k - 1 \/ i = k) /\ (i <= k - 1 => i # k)
    BY DEF StepIndex
<1> QED
    BY <1>1, PlanAssumption DEF Reached

\* What step k may record: at most one invocation, observation and evidence, of this
\* step, and none missing.
StepRecord(new, k, calls, observed, admitted) ==
    /\ \A c \in calls : /\ Plan[k] \in Tools /\ c.step = Plan[k]
                        /\ c.attempt_number = new.budget.perTool[Plan[k]]
                        /\ c.status \in {"PASS", "BLOCKED", "FAIL"}
    /\ \A c, d \in calls : c = d
    /\ Plan[k] \in Tools => calls # {}
    /\ \A o \in observed :
          /\ o.step = Plan[k]
          /\ o.invocation = IF Plan[k] \in Tools THEN <<Plan[k], new.budget.perTool[Plan[k]]>> ELSE None
    /\ \A o, q \in observed : o = q
    /\ Plan[k] \in Tools => observed # {} \/ new.steps[k] \in {"BLOCKED", "FAIL"}
    /\ \A e \in admitted :
          /\ e.key = Plan[k]
          /\ \E o \in observed : e.status = "VALID" => o.status \in {"PASS", "PARTIAL"}
          /\ e.type = "BLOCKED_CAPABILITY_EVIDENCE" => e.status = "BLOCKED"
    /\ \A e, f \in admitted : e = f
    /\ observed # {} => admitted # {}

\* A step keeps what was recorded before it.
LEMMA StepRecorded ==
    ASSUME NEW row \in RunRecords, NEW new \in RunRecords, NEW g, NEW h, NEW k \in StepIndex,
           NEW status, NEW calls, NEW observed, NEW admitted,
           Recorded(row, g, k - 1), StepRecord(new, k, calls, observed, admitted),
           new.steps = [row.steps EXCEPT ![k] = status],
           \A u \in Tools \ {Plan[k]} : new.budget.perTool[u] = row.budget.perTool[u],
           h.invocations = g.invocations \cup calls,
           h.observations = g.observations \cup observed,
           new.evidence = row.evidence \cup admitted
    PROVE  Recorded(new, h, k)
<1>1. /\ \A key : Reached(key, k) <=> Reached(key, k - 1) \/ key = Plan[k]
      /\ ~Reached(Plan[k], k - 1)
    BY ReachedStep
<1>2. CallsSound(row, g, k - 1) /\ ObservationsSound(row, g, k - 1) /\ EvidenceSound(row, g)
    BY DEF Recorded
<1>3. \A i \in g.invocations : i.step # Plan[k]
    BY <1>1, <1>2 DEF CallsSound
<1>4. \A o \in g.observations : o.step # Plan[k]
    BY <1>1, <1>2 DEF ObservationsSound
<1>5. \A e \in row.evidence : e.key # Plan[k]
    BY <1>2, <1>4 DEF EvidenceSound
<1>6. CallsSound(new, h, k)
  <2>1. ASSUME NEW i \in h.invocations
        PROVE  /\ i.step \in Tools /\ Reached(i.step, k)
               /\ i.attempt_number = new.budget.perTool[i.step]
               /\ i.status \in {"PASS", "BLOCKED", "FAIL"}
    <3>1. CASE i \in g.invocations
        BY <1>1, <1>2, <1>3, <3>1 DEF CallsSound
    <3>2. CASE i \in calls
        BY <1>1, <3>2 DEF StepRecord
    <3> QED
        BY <3>1, <3>2
  <2>2. ASSUME NEW i \in h.invocations, NEW j \in h.invocations, i.step = j.step PROVE i = j
      BY <1>2, <1>3, <2>2 DEF CallsSound, StepRecord
  <2>3. ASSUME NEW key \in Tools, Reached(key, k) PROVE \E i \in h.invocations : i.step = key
      BY <1>1, <1>2, <2>3 DEF CallsSound, StepRecord
  <2> QED
      BY <2>1, <2>2, <2>3 DEF CallsSound
<1>7. ObservationsSound(new, h, k)
  <2>1. ASSUME NEW o \in h.observations
        PROVE  /\ Reached(o.step, k)
               /\ o.invocation = IF o.step \in Tools THEN <<o.step, new.budget.perTool[o.step]>> ELSE None
    <3>1. CASE o \in g.observations
        BY <1>1, <1>2, <1>4, <3>1 DEF ObservationsSound
    <3>2. CASE o \in observed
        BY <1>1, <3>2 DEF StepRecord
    <3> QED
        BY <3>1, <3>2
  <2>2. ASSUME NEW o \in h.observations, NEW q \in h.observations, o.step = q.step PROVE o = q
      BY <1>2, <1>4, <2>2 DEF ObservationsSound, StepRecord
  <2>3. ASSUME NEW i \in StepIndex, i <= k, Plan[i] \in Tools
        PROVE  (\E o \in h.observations : o.step = Plan[i]) \/ new.steps[i] \in {"BLOCKED", "FAIL"}
    <3>1. CASE i = k
        BY <2>3, <3>1 DEF StepRecord
    <3>2. CASE i # k
      <4>1. i <= k - 1 /\ new.steps[i] = row.steps[i]
          BY <2>3, <3>2 DEF StepIndex, RunRecords
      <4> QED
          BY <1>2, <2>3, <4>1 DEF ObservationsSound
    <3> QED
        BY <3>1, <3>2
  <2> QED
      BY <2>1, <2>2, <2>3 DEF ObservationsSound
<1>8. EvidenceSound(new, h)
  <2>1. ASSUME NEW e \in new.evidence
        PROVE  /\ \E o \in h.observations : /\ o.step = e.key
                                            /\ e.status = "VALID" => o.status \in {"PASS", "PARTIAL"}
               /\ e.type = "BLOCKED_CAPABILITY_EVIDENCE" => e.status = "BLOCKED"
    <3>1. CASE e \in row.evidence
        BY <1>2, <3>1 DEF EvidenceSound
    <3>2. CASE e \in admitted
        BY <3>2 DEF StepRecord
    <3> QED
        BY <3>1, <3>2
  <2>2. ASSUME NEW e \in new.evidence, NEW f \in new.evidence, e.key = f.key PROVE e = f
      BY <1>2, <1>5, <2>2 DEF EvidenceSound, StepRecord
  <2>3. ASSUME NEW o \in h.observations PROVE \E e \in new.evidence : e.key = o.step
      BY <1>2, <2>3 DEF EvidenceSound, StepRecord
  <2> QED
      BY <2>1, <2>2, <2>3 DEF EvidenceSound
<1> QED
    BY <1>6, <1>7, <1>8 DEF Recorded

\* Execution starts with nothing recorded.
LEMMA StartedGraph ==
    ASSUME NEW g \in Graphs, Planned(g)
    PROVE  LET h == Transition(g, "PLANNED", "RUNNING", "RUN_STARTED")
           IN  h \in Graphs /\ Executing(RunningRun, h, 0) /\ h.request = g.request
<1> DEFINE h == Transition(g, "PLANNED", "RUNNING", "RUN_STARTED")
<1>1. /\ Made("PLANNED", "RUNNING") /\ "RUN_STARTED" \in Reasons /\ "RUNNING" \notin TerminalStatuses
      /\ EventsSound(g.events, "PLANNED")
    BY DEF Made, Reasons, TerminalStatuses, Planned
<1>2. /\ h \in Graphs /\ EventsSound(h.events, "RUNNING") /\ Len(h.events) = Len(g.events) + 1
      /\ h.terminal_reason = None /\ h.request = g.request /\ h.plan = g.plan
      /\ h.invocations = g.invocations /\ h.observations = g.observations
      /\ h.claims = g.claims /\ h.links = g.links /\ h.package = g.package
    BY <1>1, TransitionFacts
<1> HIDE DEF h
<1>3. Len(g.events) >= 2 /\ Len(g.events) \in Nat
    BY DEF Planned, Graphs
<1>4. Recorded(RunningRun, h, 0)
    BY <1>2, RowFacts, NothingRecorded DEF Planned
<1>5. Executing(RunningRun, h, 0)
    BY <1>2, <1>3, <1>4, RowFacts DEF Planned, Executing
<1> QED
    BY <1>2, <1>5 DEF h

\* One more observation.
LEMMA ObservationFacts ==
    ASSUME NEW g \in Graphs, NEW step, NEW invocation, NEW status,
           [step |-> step, invocation |-> invocation, status |-> status] \in ResearchObservation
    PROVE  LET h == AddObservation(g, step, invocation, status)
           IN  /\ h \in Graphs
               /\ h.observations = g.observations \cup {[step |-> step, invocation |-> invocation,
                                                         status |-> status]}
               /\ h.request = g.request /\ h.terminal_reason = g.terminal_reason
               /\ h.events = g.events /\ h.plan = g.plan /\ h.invocations = g.invocations
               /\ h.claims = g.claims /\ h.links = g.links /\ h.package = g.package
<1> DEFINE o == [step |-> step, invocation |-> invocation, status |-> status]
<1> HIDE DEF o
<1>1. o \in ResearchObservation
    BY DEF o
<1>2. AddObservation(g, step, invocation, status) = [g EXCEPT !.observations = g.observations \cup {o}]
    BY DEF AddObservation, o, Graphs
<1> DEFINE h == AddObservation(g, step, invocation, status)
<1> HIDE DEF h
<1>3. h = [g EXCEPT !.observations = g.observations \cup {o}]
    BY <1>2 DEF h
<1>4. /\ h \in Graphs /\ h.observations = g.observations \cup {o}
      /\ h.request = g.request /\ h.terminal_reason = g.terminal_reason
      /\ h.events = g.events /\ h.plan = g.plan /\ h.invocations = g.invocations
      /\ h.claims = g.claims /\ h.links = g.links /\ h.package = g.package
    BY <1>1, <1>3 DEF Graphs
<1> QED
    BY <1>4 DEF h, o

\* The invocations after are those before and one more.
Opens(before, after, step, attempt, status) ==
    \E c : /\ after = before \cup {c} /\ c.step = step
          /\ c.attempt_number = attempt /\ c.status = status

\* The invocation of a tool that was not called before, opened and completed.
LEMMA InvocationFacts ==
    ASSUME NEW g \in Graphs, NEW step \in Tools, NEW attempt \in 1..2,
           NEW status \in {"PASS", "BLOCKED", "FAIL"},
           NEW code \in {"none", "TOOL_ERROR", "BUDGET_EXCEEDED"},
           \A i \in g.invocations : i.step # step
    PROVE  LET h == CompleteInvocation(AddInvocation(g, step, attempt), step, attempt, status, code)
           IN  /\ h \in Graphs
               /\ Opens(g.invocations, h.invocations, step, attempt, status)
               /\ h.request = g.request /\ h.terminal_reason = g.terminal_reason
               /\ h.events = g.events /\ h.plan = g.plan /\ h.observations = g.observations
               /\ h.claims = g.claims /\ h.links = g.links /\ h.package = g.package
<1> DEFINE opened == [step |-> step, attempt_number |-> attempt, status |-> "RUNNING",
                      error_code |-> "none"]
           c == [opened EXCEPT !.status = status, !.error_code = code]
           a == AddInvocation(g, step, attempt)
           done(i) == IF i.step = step /\ i.attempt_number = attempt
                      THEN [i EXCEPT !.status = status, !.error_code = code] ELSE i
           h == CompleteInvocation(a, step, attempt, status, code)
<1>1. a = [g EXCEPT !.invocations = g.invocations \cup {opened}]
    BY DEF AddInvocation, Graphs
<1>2. opened.step = step /\ opened.attempt_number = attempt /\ opened \in ResearchToolInvocation
    BY DEF ResearchToolInvocation
<1> HIDE DEF opened
<1>3. h = [a EXCEPT !.invocations = {done(i) : i \in a.invocations}]
  <2>1. a \in Graphs
      BY <1>1, <1>2 DEF Graphs
  <2> HIDE DEF a
  <2> QED
      BY <2>1 DEF CompleteInvocation, Graphs
<1>4. c \in ResearchToolInvocation /\ c.step = step /\ c.attempt_number = attempt /\ c.status = status
    BY <1>2 DEF ResearchToolInvocation
<1>5. done(opened) = c
    BY <1>2
<1>6. \A i \in g.invocations : done(i) = i
    OBVIOUS
<1> HIDE DEF done, c, a
<1>7. a \in Graphs /\ a.invocations = g.invocations \cup {opened}
      /\ a.request = g.request /\ a.terminal_reason = g.terminal_reason
      /\ a.events = g.events /\ a.plan = g.plan /\ a.observations = g.observations
      /\ a.claims = g.claims /\ a.links = g.links /\ a.package = g.package
    BY <1>1, <1>2 DEF Graphs
<1>8. {done(i) : i \in a.invocations} = g.invocations \cup {c}
    BY <1>5, <1>6, <1>7
<1>9. g.invocations \cup {c} \in SUBSET ResearchToolInvocation
    BY <1>4 DEF Graphs
<1> DEFINE after == g.invocations \cup {c}
<1> HIDE DEF after, h
<1>10. h = [a EXCEPT !.invocations = after]
    BY <1>3, <1>8 DEF after
<1>11. /\ h \in Graphs /\ h.invocations = after
       /\ h.request = a.request /\ h.terminal_reason = a.terminal_reason
       /\ h.events = a.events /\ h.plan = a.plan /\ h.observations = a.observations
       /\ h.claims = a.claims /\ h.links = a.links /\ h.package = a.package
    BY <1>7, <1>9, <1>10 DEF Graphs, after
<1>12. h.invocations = g.invocations \cup {c}
    BY <1>11 DEF after
<1> QED
    BY <1>4, <1>7, <1>11, <1>12 DEF h, a, Opens

\* What is stored of a call of tool t with outcome o.
OutcomeRecorded(o, t) ==
    /\ o.attempt \in 1..2 /\ o.attempt = o.budget.perTool[t]
    /\ o.result.observed \in BOOLEAN
    /\ o.result.status \in {"PASS", "PARTIAL", "BLOCKED", "FAIL"}
    /\ o.result.observed = FALSE => o.result.status \in {"BLOCKED", "FAIL"}
    /\ InvocationStatus(o.result) \in {"PASS", "BLOCKED", "FAIL"}
    /\ o.result.code \in {"none", "TOOL_ERROR", "BUDGET_EXCEEDED"}

\* The attempt that is stored is what the budget was charged, and a call without an
\* observation blocked or failed its step.
LEMMA OutcomeRecord ==
    ASSUME NEW b \in Budgets, NEW t \in Tools, b.perTool[t] = 0, NEW o \in Outcomes(b, t)
    PROVE  OutcomeRecorded(o, t)
<1> DEFINE once == Consume(b, t)
           twice == Consume(once, t)
<1>1. once \in Budgets /\ once.perTool[t] = 1
    BY DEF Consume, Budgets
<1> HIDE DEF once
<1>2. twice.perTool[t] = 2
    BY <1>1 DEF Consume, Budgets
<1> HIDE DEF twice
<1>3. /\ (o.budget = once /\ o.attempt = 1) \/ (o.budget = twice /\ o.attempt = 2)
      /\ o.result \in Results \cup {Failure}
    BY DEF Outcomes, once, twice
<1>4. \A r \in Results \cup {Failure} :
        /\ r.observed \in BOOLEAN /\ r.status \in {"PASS", "PARTIAL", "BLOCKED", "FAIL"}
        /\ r.observed = FALSE => r.status \in {"BLOCKED", "FAIL"}
  <2>1. \A r \in Results : /\ r.observed \in BOOLEAN /\ r.status \in {"PASS", "PARTIAL", "BLOCKED", "FAIL"}
                           /\ r.observed = FALSE => r.status \in {"BLOCKED", "FAIL"}
      BY DEF Results
  <2>2. Failure.status = "FAIL" /\ Failure.observed = FALSE
      BY DEF Failure
  <2> QED
      BY <2>1, <2>2
<1>5. /\ o.result.observed \in BOOLEAN
      /\ o.result.status \in {"PASS", "PARTIAL", "BLOCKED", "FAIL"}
      /\ o.result.observed = FALSE => o.result.status \in {"BLOCKED", "FAIL"}
    BY <1>3, <1>4
<1>6. InvocationStatus(o.result) \in {"PASS", "BLOCKED", "FAIL"}
    BY <1>5 DEF InvocationStatus
<1>7. o.result.code \in {"none", "TOOL_ERROR", "BUDGET_EXCEEDED"}
  <2>1. \A r \in Results : r.code \in {"none", "TOOL_ERROR"}
      BY DEF Results
  <2>2. Failure.code = "BUDGET_EXCEEDED"
      BY DEF Failure
  <2> QED
      BY <1>3, <2>1, <2>2
<1> QED
    BY <1>1, <1>2, <1>3, <1>5, <1>6, <1>7 DEF OutcomeRecorded

\* An observation becomes one evidence, VALID only if the result was usable.
LEMMA AdmittedOne ==
    ASSUME NEW key, NEW status \in {"PASS", "PARTIAL", "BLOCKED", "FAIL"}
    PROVE  \E e : /\ Admitted(key, status) = {e} /\ e.key = key
                  /\ e.status = "VALID" => status \in {"PASS", "PARTIAL"}
                  /\ e.type = "BLOCKED_CAPABILITY_EVIDENCE" => e.status = "BLOCKED"
<1>1. \A type, found : LET e == Evidence(key, type, found)
                       IN  e.key = key /\ e.type = type /\ e.status = found
    BY DEF Evidence
<1> DEFINE found == IF status = "FAIL" THEN "SOURCE_MISSING" ELSE "VALID"
<1>2. \/ Admitted(key, status) = {Evidence(key, "BLOCKED_CAPABILITY_EVIDENCE", "BLOCKED")}
      \/ Admitted(key, status) = {Evidence(key, "SNAPSHOT_EVIDENCE", found)} /\ status # "BLOCKED"
      \/ Admitted(key, status) = {Evidence(key, "DATA_QUALITY_EVIDENCE", "VALID")} /\ status = "PARTIAL"
      \/ Admitted(key, status) = {Evidence(key, "TOOL_EVIDENCE", "SOURCE_MISSING")}
    BY DEF Admitted
<1> QED
    BY <1>1, <1>2

\* Steps and evidence aside, a step that is recorded leaves the Run executing.
LEMMA ExecutingStep ==
    ASSUME NEW row \in RunRecords, NEW new, NEW g, NEW h, NEW k, NEW n, Executing(row, g, n),
           new.status = row.status, Recorded(new, h, k),
           h.events = g.events, h.plan = g.plan, h.terminal_reason = g.terminal_reason,
           h.claims = g.claims, h.links = g.links, h.package = g.package
    PROVE  Executing(new, h, k)
    BY DEF Executing

\* A component step: nothing is recorded, or the identity of the security.
LEMMA ComponentGraph ==
    ASSUME NEW row \in RunRecords, NEW new \in RunRecords, NEW g \in Graphs, NEW k \in StepIndex,
           NEW status, Plan[k] \notin Tools, Executing(row, g, k - 1),
           new.status = row.status, new.budget = row.budget,
           new.steps = [row.steps EXCEPT ![k] = status]
    PROVE  /\ new.evidence = row.evidence => Executing(new, g, k)
           /\ \A e : new.evidence = row.evidence \cup {e} /\ e.key = Plan[k]
                       /\ e.type = "SECURITY_MASTER_EVIDENCE" =>
                LET h == AddObservation(g, Plan[k], None, "PASS")
                IN  h \in Graphs /\ Executing(new, h, k) /\ h.request = g.request
<1>0. Recorded(row, g, k - 1) /\ \A u \in Tools \ {Plan[k]} : new.budget.perTool[u] = row.budget.perTool[u]
    BY DEF Executing
<1>1. ASSUME new.evidence = row.evidence PROVE Executing(new, g, k)
  <2>1. StepRecord(new, k, {}, {}, {})
      BY DEF StepRecord
  <2>2. /\ g.invocations = g.invocations \cup {} /\ g.observations = g.observations \cup {}
        /\ new.evidence = row.evidence \cup {}
      BY <1>1
  <2>3. Recorded(new, g, k)
      BY <1>0, <2>1, <2>2, StepRecorded
  <2> QED
      BY <2>3, ExecutingStep
<1>2. ASSUME NEW e, new.evidence = row.evidence \cup {e}, e.key = Plan[k],
             e.type = "SECURITY_MASTER_EVIDENCE"
      PROVE  LET h == AddObservation(g, Plan[k], None, "PASS")
             IN  h \in Graphs /\ Executing(new, h, k) /\ h.request = g.request
  <2> DEFINE o == [step |-> Plan[k], invocation |-> None, status |-> "PASS"]
             h == AddObservation(g, Plan[k], None, "PASS")
  <2>1. o \in ResearchObservation
      BY DEF ResearchObservation
  <2>2. /\ h \in Graphs /\ h.observations = g.observations \cup {o}
        /\ h.request = g.request /\ h.terminal_reason = g.terminal_reason
        /\ h.events = g.events /\ h.plan = g.plan /\ h.invocations = g.invocations
        /\ h.claims = g.claims /\ h.links = g.links /\ h.package = g.package
      BY <2>1, ObservationFacts
  <2>3. o.step = Plan[k] /\ o.invocation = None /\ o.status = "PASS"
      OBVIOUS
  <2> HIDE DEF o, h
  <2>4. StepRecord(new, k, {}, {o}, {e})
      BY <1>2, <2>3 DEF StepRecord
  <2>5. h.invocations = g.invocations \cup {}
      BY <2>2
  <2>6. Recorded(new, h, k)
      BY <1>0, <1>2, <2>2, <2>4, <2>5, StepRecorded
  <2>7. Executing(new, h, k)
      BY <2>2, <2>6, ExecutingStep
  <2> QED
      BY <2>2, <2>7 DEF h
<1> QED
    BY <1>1, <1>2

\* A tool step: its call, and the observation that the call made.
LEMMA ToolGraph ==
    ASSUME NEW row \in RunRecords, NEW new \in RunRecords, NEW g \in Graphs, NEW k \in StepIndex,
           Plan[k] \in Tools, Executing(row, g, k - 1), row.budget.perTool[Plan[k]] = 0,
           NEW o \in Outcomes(row.budget, Plan[k]), new.status = row.status, new.budget = o.budget,
           new.steps = [row.steps EXCEPT ![k] = o.result.status],
           new.evidence = row.evidence \cup
              (IF o.result.observed THEN Admitted(Plan[k], o.result.status) ELSE {}),
           \A u \in Tools \ {Plan[k]} : o.budget.perTool[u] = row.budget.perTool[u]
    PROVE  LET h == PersistExecution(g, Plan[k], o)
           IN  h \in Graphs /\ Executing(new, h, k) /\ h.request = g.request
<1> DEFINE key == Plan[k]
           status == o.result.status
           called == CompleteInvocation(AddInvocation(g, key, o.attempt), key, o.attempt,
                                        InvocationStatus(o.result), o.result.code)
           h == PersistExecution(g, key, o)
<1>1. /\ o.attempt \in 1..2 /\ o.attempt = o.budget.perTool[key] /\ o.result.observed \in BOOLEAN
      /\ status \in {"PASS", "PARTIAL", "BLOCKED", "FAIL"}
      /\ o.result.observed = FALSE => status \in {"BLOCKED", "FAIL"}
      /\ InvocationStatus(o.result) \in {"PASS", "BLOCKED", "FAIL"}
      /\ o.result.code \in {"none", "TOOL_ERROR", "BUDGET_EXCEEDED"}
  <2> DEFINE b == row.budget
  <2>1. b \in Budgets /\ key \in Tools /\ b.perTool[key] = 0 /\ o \in Outcomes(b, key)
      BY DEF RunRecords
  <2> HIDE DEF b, key
  <2>2. OutcomeRecorded(o, key)
      BY <2>1, OutcomeRecord
  <2> QED
      BY <2>2 DEF OutcomeRecorded
<1>2. Recorded(row, g, k - 1)
    BY DEF Executing
<1>3. \A i \in g.invocations : i.step # key
    BY <1>2, ReachedStep DEF Recorded, CallsSound
<1>4. PICK c : /\ called.invocations = g.invocations \cup {c} /\ c.step = key
               /\ c.attempt_number = o.attempt /\ c.status = InvocationStatus(o.result)
  <2> DEFINE ended == InvocationStatus(o.result)
             code == o.result.code
             n == o.attempt
             after == CompleteInvocation(AddInvocation(g, key, n), key, n, ended, code)
  <2>1. /\ key \in Tools /\ n \in 1..2 /\ ended \in {"PASS", "BLOCKED", "FAIL"}
        /\ code \in {"none", "TOOL_ERROR", "BUDGET_EXCEEDED"}
      BY <1>1
  <2>2. called = after
      OBVIOUS
  <2> HIDE DEF ended, code, n, key, called
  <2>3. Opens(g.invocations, after.invocations, key, n, ended)
      BY <1>3, <2>1, InvocationFacts
  <2> HIDE DEF after
  <2> QED
      BY <2>2, <2>3 DEF Opens, ended, n
<1>5. /\ called \in Graphs
      /\ called.request = g.request /\ called.terminal_reason = g.terminal_reason
      /\ called.events = g.events /\ called.plan = g.plan /\ called.observations = g.observations
      /\ called.claims = g.claims /\ called.links = g.links /\ called.package = g.package
    BY <1>1, <1>3, InvocationFacts
<1>6. new.steps[k] = status
    BY DEF RunRecords
<1>7. h = IF o.result.observed THEN AddObservation(called, key, <<key, o.attempt>>, status) ELSE called
    BY DEF PersistExecution
<1> HIDE DEF called, h
<1>8. CASE o.result.observed = TRUE
  <2> DEFINE seen == [step |-> key, invocation |-> <<key, o.attempt>>, status |-> status]
  <2>1. seen \in ResearchObservation
      BY <1>1 DEF ResearchObservation
  <2>2. /\ h \in Graphs /\ h.observations = called.observations \cup {seen}
        /\ h.request = called.request /\ h.terminal_reason = called.terminal_reason
        /\ h.events = called.events /\ h.plan = called.plan /\ h.invocations = called.invocations
        /\ h.claims = called.claims /\ h.links = called.links /\ h.package = called.package
      BY <1>5, <1>7, <1>8, <2>1, ObservationFacts
  <2>3. seen.step = key /\ seen.invocation = <<key, o.attempt>> /\ seen.status = status
      OBVIOUS
  <2> HIDE DEF seen
  <2>4. PICK e : /\ Admitted(key, status) = {e} /\ e.key = key
                 /\ e.status = "VALID" => status \in {"PASS", "PARTIAL"}
                 /\ e.type = "BLOCKED_CAPABILITY_EVIDENCE" => e.status = "BLOCKED"
      BY <1>1, AdmittedOne
  <2>5. StepRecord(new, k, {c}, {seen}, {e})
      BY <1>1, <1>4, <2>3, <2>4 DEF StepRecord
  <2>6. /\ h.invocations = g.invocations \cup {c} /\ h.observations = g.observations \cup {seen}
        /\ new.evidence = row.evidence \cup {e}
      BY <1>4, <1>5, <1>8, <2>2, <2>4
  <2>7. Recorded(new, h, k)
      BY <1>2, <2>5, <2>6, StepRecorded
  <2>8. Executing(new, h, k)
      BY <1>5, <2>2, <2>7, ExecutingStep
  <2> QED
      BY <1>5, <2>2, <2>8 DEF h
<1>9. CASE o.result.observed = FALSE
  <2>1. h = called
      BY <1>7, <1>9
  <2>2. StepRecord(new, k, {c}, {}, {})
      BY <1>1, <1>4, <1>6, <1>9 DEF StepRecord
  <2>3. /\ h.invocations = g.invocations \cup {c} /\ h.observations = g.observations \cup {}
        /\ new.evidence = row.evidence \cup {}
      BY <1>4, <1>5, <1>9, <2>1
  <2>4. Recorded(new, h, k)
      BY <1>2, <2>2, <2>3, StepRecorded
  <2>5. Executing(new, h, k)
      BY <1>5, <2>1, <2>4, ExecutingStep
  <2> QED
      BY <1>5, <2>1, <2>5 DEF h
<1> QED
    BY <1>1, <1>8, <1>9

\* A claim, and its link, from one evidence.
ClaimOf(e) == [id |-> e.key, claim_type |-> ClaimType(e), statement_code |-> StatementCode(e),
               lifecycle_status |-> "VALIDATED", support_status |-> Support(e).support]
LinkOf(e) == [claim |-> e.key, evidence |-> e.key, role |-> Support(e).role]

\* What a proposed evidence becomes.
LEMMA ProposedFacts ==
    ASSUME NEW evidence \in SUBSET EvidenceRecords, NEW e \in Proposed(evidence),
           e.type = "BLOCKED_CAPABILITY_EVIDENCE" => e.status = "BLOCKED"
    PROVE  /\ e \in evidence /\ ClaimOf(e) \in ResearchClaim /\ LinkOf(e) \in ClaimEvidenceLink
           /\ ClaimOf(e).id = e.key /\ ClaimOf(e).statement_code[2] = e.key
           /\ LinkOf(e).claim = e.key /\ LinkOf(e).evidence = e.key
           /\ ClaimOf(e).support_status = "SUPPORTED" => e.status = "VALID"
           /\ Linkable(e)
<1>1. e \in evidence /\ e \in EvidenceRecords
    BY DEF Proposed
<1>2. /\ e.type \in {"SECURITY_MASTER_EVIDENCE", "DATA_QUALITY_EVIDENCE", "BLOCKED_CAPABILITY_EVIDENCE"}
      /\ e.status \in {"VALID", "BLOCKED"}
    BY DEF Proposed
<1>3. e.key \in {Plan[i] : i \in StepIndex} /\ e.key \in STRING
    BY <1>1, PlanAssumption DEF EvidenceRecords, StepIndex
<1>4. ClaimType(e) \in {"IDENTITY", "DATA_QUALITY", "LIMITATION"}
    BY <1>2 DEF ClaimType
<1>5. /\ Support(e).support = IF e.status = "BLOCKED" THEN "BLOCKED" ELSE "SUPPORTED"
      /\ Support(e).role = IF e.status = "BLOCKED" THEN "LIMITATION" ELSE "PRIMARY"
    BY DEF Support
<1>6. StatementCode(e) \in {"IDENTITY", "DATA_QUALITY", "LIMITATION"} \X STRING
      /\ StatementCode(e)[2] = e.key
    BY <1>3, <1>4 DEF StatementCode
<1>7. /\ ClaimOf(e).id = e.key /\ ClaimOf(e).statement_code = StatementCode(e)
      /\ ClaimOf(e).support_status = Support(e).support
      /\ LinkOf(e).claim = e.key /\ LinkOf(e).evidence = e.key
    BY DEF ClaimOf, LinkOf
<1>8. ClaimOf(e) \in ResearchClaim
    BY <1>3, <1>4, <1>5, <1>6 DEF ClaimOf, ResearchClaim
<1>9. LinkOf(e) \in ClaimEvidenceLink
    BY <1>3, <1>5 DEF LinkOf, ClaimEvidenceLink
<1>10. Linkable(e) /\ (Support(e).support = "SUPPORTED" => e.status = "VALID")
    BY <1>2, <1>5 DEF Linkable
<1> QED
    BY <1>1, <1>6, <1>7, <1>8, <1>9, <1>10

\* The end of a Run: its claims and links, the package, and the last event.
LEMMA ConcludedGraph ==
    ASSUME NEW row \in RunRecords, NEW new \in RunRecords, NEW g \in Graphs,
           Executing(row, g, Len(Plan)), g.request \in Processes,
           new.status \in Ends, new.steps = row.steps,
           new.budget = row.budget, new.evidence = row.evidence, NEW pkg \in ResearchPackage,
           pkg.request = g.request, pkg.evidence_ids = {e.key : e \in new.evidence},
           pkg.blocked_capabilities = BlockedTools(new), NEW reason \in Reasons
    PROVE  LET claimed == BuildAndValidate(g, new.evidence)
               h == Transition([claimed EXCEPT !.package = pkg], row.status, new.status, reason)
           IN  h \in Graphs /\ Concluded(new, h) /\ h.request = g.request
<1> DEFINE evidence == new.evidence
           proposed == Proposed(evidence)
           claimed == BuildAndValidate(g, evidence)
           packed == [claimed EXCEPT !.package = pkg]
           claims == {ClaimOf(e) : e \in proposed}
           links == {LinkOf(e) : e \in {x \in proposed : Linkable(x)}}
           h == Transition(packed, row.status, new.status, reason)
<1>1. /\ row.status = "RUNNING" /\ EventsSound(g.events, "RUNNING") /\ Len(g.events) >= 2
      /\ Len(g.events) \in Nat /\ g.plan = TRUE
      /\ CallsSound(row, g, Len(Plan)) /\ ObservationsSound(row, g, Len(Plan)) /\ EvidenceSound(row, g)
    BY DEF Executing, Recorded, Graphs
<1>2. evidence \in SUBSET EvidenceRecords
    BY DEF RunRecords
<1>3. ASSUME NEW e \in proposed
      PROVE  /\ e \in evidence /\ ClaimOf(e) \in ResearchClaim /\ LinkOf(e) \in ClaimEvidenceLink
             /\ ClaimOf(e).id = e.key /\ ClaimOf(e).statement_code[2] = e.key
             /\ LinkOf(e).claim = e.key /\ LinkOf(e).evidence = e.key
             /\ ClaimOf(e).support_status = "SUPPORTED" => e.status = "VALID"
             /\ Linkable(e)
  <2>1. e.type = "BLOCKED_CAPABILITY_EVIDENCE" => e.status = "BLOCKED"
      BY <1>1 DEF EvidenceSound, Proposed
  <2> QED
      BY <1>2, <2>1, ProposedFacts
<1>4. claimed = [g EXCEPT !.claims = claims, !.links = links]
    BY DEF BuildAndValidate, ClaimOf, LinkOf
<1>5. claims \in SUBSET ResearchClaim /\ links \in SUBSET ClaimEvidenceLink
    BY <1>3
<1>6. \A e, f \in evidence : e.key = f.key => e = f
    BY <1>1 DEF EvidenceSound
<1>7. \A c \in claims : \E e \in proposed : c = ClaimOf(e)
    OBVIOUS
<1>8. \A l \in links : \E e \in proposed : l = LinkOf(e)
    OBVIOUS
<1>9. \A e \in proposed : ClaimOf(e) \in claims /\ LinkOf(e) \in links
    BY <1>3
<1> HIDE DEF claims, links, proposed, claimed
<1>10. /\ claimed \in Graphs /\ claimed.claims = claims /\ claimed.links = links
       /\ claimed.request = g.request /\ claimed.terminal_reason = g.terminal_reason
       /\ claimed.events = g.events /\ claimed.plan = g.plan
       /\ claimed.invocations = g.invocations /\ claimed.observations = g.observations
    BY <1>4, <1>5 DEF Graphs
<1>11. /\ packed \in Graphs /\ packed.claims = claimed.claims /\ packed.links = claimed.links
       /\ packed.request = claimed.request /\ packed.terminal_reason = claimed.terminal_reason
       /\ packed.events = claimed.events /\ packed.plan = claimed.plan
       /\ packed.invocations = claimed.invocations /\ packed.observations = claimed.observations
       /\ packed.package = pkg
    BY <1>10 DEF Graphs
<1> HIDE DEF packed
<1>12. Made(row.status, new.status) /\ new.status \in TerminalStatuses
    BY <1>1 DEF Made, Ends, TerminalStatuses
<1>13. /\ h \in Graphs /\ EventsSound(h.events, new.status) /\ Len(h.events) = Len(packed.events) + 1
       /\ h.terminal_reason = reason
       /\ h.request = packed.request /\ h.plan = packed.plan /\ h.invocations = packed.invocations
       /\ h.observations = packed.observations /\ h.claims = packed.claims /\ h.links = packed.links
       /\ h.package = packed.package
  <2>1. EventsSound(packed.events, row.status)
      BY <1>1, <1>10, <1>11
  <2> QED
      BY <1>11, <1>12, <2>1, TransitionFacts
<1> HIDE DEF h
<1>14. /\ h.claims = claims /\ h.links = links /\ h.package = pkg /\ h.request = g.request
       /\ h.invocations = g.invocations /\ h.observations = g.observations /\ h.plan = TRUE
       /\ Len(h.events) >= 2 /\ h.terminal_reason # None
    BY <1>1, <1>10, <1>11, <1>13, NullAssumption
<1>15. Recorded(new, h, Len(Plan))
    BY <1>1, <1>14 DEF Recorded, CallsSound, ObservationsSound, EvidenceSound
<1>16. ClaimsLawful(h)
  <2>1. ASSUME NEW c \in claims, NEW d \in claims, c.statement_code = d.statement_code PROVE c = d
    <3>1. PICK e \in proposed : c = ClaimOf(e)
        BY <1>7
    <3>2. PICK f \in proposed : d = ClaimOf(f)
        BY <1>7
    <3>3. e = f
        BY <1>3, <1>6, <2>1, <3>1, <3>2
    <3> QED
        BY <3>1, <3>2, <3>3
  <2> QED
      BY <1>5, <1>14, <2>1 DEF ClaimsLawful
<1>17. LinksLawful(new, h)
  <2>1. ASSUME NEW l \in links
        PROVE  /\ \E c \in claims : c.id = l.claim
               /\ \E e \in evidence : e.key = l.evidence
    <3>1. PICK e \in proposed : l = LinkOf(e)
        BY <1>8
    <3> QED
        BY <1>3, <1>9, <3>1
  <2>2. ASSUME NEW l \in links, NEW m \in links, l.claim = m.claim PROVE l = m
    <3>1. PICK e \in proposed : l = LinkOf(e)
        BY <1>8
    <3>2. PICK f \in proposed : m = LinkOf(f)
        BY <1>8
    <3>3. e = f
        BY <1>3, <1>6, <2>2, <3>1, <3>2
    <3> QED
        BY <3>1, <3>2, <3>3
  <2> QED
      BY <1>5, <1>14, <2>1, <2>2 DEF LinksLawful
<1>18. PackageLawful(h)
    BY <1>14 DEF PackageLawful
<1>19. ClaimsGrounded(new, h)
  <2>1. ASSUME NEW c \in claims, c.support_status = "SUPPORTED"
        PROVE  \E l \in links, e \in evidence, o \in g.observations :
                  /\ l.claim = c.id /\ l.evidence = e.key /\ e.status = "VALID"
                  /\ o.step = e.key /\ o.status \in {"PASS", "PARTIAL"}
    <3>1. PICK e \in proposed : c = ClaimOf(e)
        BY <1>7
    <3>2. /\ e \in evidence /\ e.status = "VALID" /\ LinkOf(e) \in links
          /\ LinkOf(e).claim = c.id /\ LinkOf(e).evidence = e.key
        BY <1>3, <1>9, <2>1, <3>1
    <3>3. PICK o \in g.observations : o.step = e.key /\ o.status \in {"PASS", "PARTIAL"}
        BY <1>1, <3>2 DEF EvidenceSound
    <3> QED
        BY <3>2, <3>3
  <2>2. ASSUME NEW k \in Tools
        PROVE  (\E o \in g.observations : o.step = k) \/ k \in BlockedTools(new)
    <3>1. PICK i \in StepIndex : Plan[i] = k
        BY PlanFacts
    <3>2. StepOf(k) = i /\ i <= Len(Plan)
        BY <3>1, StepOfPlan DEF StepIndex
    <3> QED
        BY <1>1, <3>1, <3>2 DEF ObservationsSound, BlockedTools
  <2>3. {e.key : e \in evidence} = {o.step : o \in g.observations}
      BY <1>1 DEF EvidenceSound
  <2> QED
      BY <1>14, <2>1, <2>2, <2>3 DEF ClaimsGrounded
<1>20. Concluded(new, h)
    BY <1>13, <1>14, <1>15, <1>16, <1>17, <1>18, <1>19 DEF Concluded
<1> QED
    BY <1>13, <1>14, <1>20 DEF h, packed, claimed

-----------------------------------------------------------------------------
(* The commands keep the invariant *)

\* A command that moves, before it commits.
LEMMA AuditMove ==
    ASSUME IInv, AuditInv, NEW p \in Processes, NEW t, NEW w \in Works,
           tx' = [tx EXCEPT ![p] = t], work' = [work EXCEPT ![p] = w],
           UNCHANGED <<runs, ledger, question>>, tx[p].pc # "done",
           GraphAt(t, w), RequestAt(p, t, w)
    PROVE  AuditInv'
<1>1. work' \in [Processes -> Works]
    BY DEF AuditInv
<1>2. ASSUME NEW q \in Processes PROVE GraphAt(tx'[q], work'[q]) /\ RequestAt(q, tx'[q], work'[q])
  <2>1. (q = p /\ tx'[q] = t /\ work'[q] = w) \/ (tx'[q] = tx[q] /\ work'[q] = work[q])
      BY DEF AuditInv, IInv, TypeOK
  <2> QED
      BY <2>1 DEF AuditInv
<1>3. ASSUME NEW q \in Processes PROVE RequestAt(q, tx[q], work[q])'
    BY <1>2 DEF RequestAt
<1>4. Requests \subseteq Requests'
  <2> SUFFICES ASSUME NEW q \in Processes, tx[q].pc = "done" PROVE tx'[q].pc = "done"
      BY DEF Requests
  <2> QED
      BY DEF IInv, TypeOK
<1> QED
    BY <1>1, <1>2, <1>3, <1>4 DEF AuditInv

\* The work of a command.
LEMMA WorkType ==
    ASSUME AuditInv, NEW p \in Processes
    PROVE  /\ work \in [Processes -> Works] /\ work[p] \in Works
           /\ work[p].request \in Processes \cup {None} /\ work[p].graph \in Graphs
    BY DEF AuditInv, Works

\* The work of a command with another graph, and for another request.
LEMMA WorkGraph ==
    ASSUME AuditInv, NEW p \in Processes, NEW graph \in Graphs,
           work' = [work EXCEPT ![p].graph = graph]
    PROVE  \E w \in Works : /\ work' = [work EXCEPT ![p] = w]
                            /\ w.graph = graph /\ w.request = work[p].request
<1> DEFINE w == [work[p] EXCEPT !.graph = graph]
<1>1. w \in Works /\ w.graph = graph /\ w.request = work[p].request
    BY WorkType DEF Works
<1>2. work' = [work EXCEPT ![p] = w]
    BY WorkType
<1> QED
    BY <1>1, <1>2

LEMMA WorkRequest ==
    ASSUME AuditInv, NEW p \in Processes, NEW request \in Processes \cup {None},
           work' = [work EXCEPT ![p].request = request]
    PROVE  \E w \in Works : /\ work' = [work EXCEPT ![p] = w]
                            /\ w.graph = work[p].graph /\ w.request = request
<1> DEFINE w == [work[p] EXCEPT !.request = request]
<1>1. w \in Works /\ w.graph = work[p].graph /\ w.request = request
    BY WorkType DEF Works
<1>2. work' = [work EXCEPT ![p] = w]
    BY WorkType
<1> QED
    BY <1>1, <1>2

\* A command that has ended has nothing at hand.
LEMMA NoWorkFacts ==
    ASSUME NEW label \in {"done", "failed"}, NEW p
    PROVE  LET t == [Idle EXCEPT !.pc = label]
           IN  NoWork \in Works /\ GraphAt(t, NoWork) /\ RequestAt(p, t, NoWork)
               /\ NoWork.request = None /\ t.pc = label /\ t.id = 0
<1> DEFINE t == [Idle EXCEPT !.pc = label]
<1>1. Idle \in Transactions /\ Idle.writes = FALSE /\ Idle.id = 0
    BY NewRunFacts DEF Idle, Transactions, Labels
<1>2. t.pc = label /\ t.writes = FALSE /\ t.id = 0
    BY <1>1 DEF Transactions
<1> HIDE DEF t
<1>3. NoWork \in Works /\ NoWork.request = None
    BY PlannedGraph DEF NoWork, Works
<1>4. GraphAt(t, NoWork) /\ RequestAt(p, t, NoWork)
    BY <1>2, <1>3 DEF GraphAt, RequestAt
<1> QED
    BY <1>2, <1>3, <1>4 DEF t

LEMMA AbortAudit ==
    ASSUME IInv, AuditInv, NEW p \in Processes, Rollback(p), tx[p].pc # "done",
           work' = [work EXCEPT ![p] = NoWork], UNCHANGED <<ledger, question>>
    PROVE  AuditInv'
<1> DEFINE t == [Idle EXCEPT !.pc = "failed"]
<1>1. NoWork \in Works /\ GraphAt(t, NoWork) /\ RequestAt(p, t, NoWork)
    BY NoWorkFacts
<1>2. tx' = [tx EXCEPT ![p] = t] /\ UNCHANGED runs
    BY DEF Rollback
<1> HIDE DEF t
<1> QED
    BY <1>1, <1>2, AuditMove

\* What is known of a command, and of the Run it reuses.
LEMMA CommandFacts ==
    ASSUME IInv, AuditInv, NEW p \in Processes
    PROVE  /\ tx \in [Processes -> Transactions] /\ tx[p] \in Transactions /\ Local(tx[p])
           /\ tx[p].id \in Nat /\ tx[p].id <= Len(runs)
           /\ GraphAt(tx[p], work[p]) /\ RequestAt(p, tx[p], work[p])
           /\ DOMAIN ledger = DOMAIN runs
           /\ \A i \in DOMAIN ledger : ledger[i] \in Graphs /\ ledger[i].request \in Processes
           /\ tx[p].id # 0 => tx[p].id \in DOMAIN ledger
<1>1. tx \in [Processes -> Transactions] /\ tx[p] \in Transactions /\ Local(tx[p])
      /\ tx[p].id <= Len(runs)
    BY TransactionType DEF IInv, TypeOK
<1>2. tx[p].id \in Nat
    BY <1>1 DEF Transactions
<1>3. DOMAIN ledger = DOMAIN runs /\ Len(runs) \in Nat /\ DOMAIN ledger = 1..Len(runs)
    BY DEF AuditInv, IInv, TypeOK
<1>4. \A i \in DOMAIN ledger : ledger[i] \in Graphs /\ ledger[i].request \in Processes
    BY DEF AuditInv, Requests
<1>5. GraphAt(tx[p], work[p]) /\ RequestAt(p, tx[p], work[p])
    BY DEF AuditInv
<1> QED
    BY <1>1, <1>2, <1>3, <1>4, <1>5

\* A command begins with a request of its own if it is admissible.
LEMMA BeginAudit ==
    ASSUME IInv, AuditInv, NEW p \in Processes, BeginCommand(p)
    PROVE  AuditInv'
<1>1. /\ tx \in [Processes -> Transactions] /\ tx[p] \in Transactions /\ Local(tx[p])
      /\ tx[p].pc = "begin"
    BY CommandFacts DEF BeginCommand, Begin
<1>2. PICK command \in {"plan", "run"} : tx' = [tx EXCEPT ![p].pc = "find", ![p].command = command]
    BY DEF BeginCommand, Begin
<1> DEFINE t == [tx[p] EXCEPT !.pc = "find", !.command = command]
           request == IF Admissible THEN p ELSE None
<1>3. tx' = [tx EXCEPT ![p] = t] /\ UNCHANGED <<runs, ledger, question>>
    BY <1>1, <1>2 DEF BeginCommand, Begin
<1>4. t.pc = "find" /\ t.writes = tx[p].writes /\ t.id = tx[p].id
    BY <1>1 DEF Transactions
<1> HIDE DEF t
<1>5. ~t.writes /\ t.id = 0
    BY <1>1, <1>4 DEF Local
<1>6. request \in {p, None} /\ (request # None => RequestLawful(question))
    BY DEF Admissible, RequestLawful
<1>7. work' = [work EXCEPT ![p].request = request]
    BY DEF BeginCommand
<1> HIDE DEF request
<1>8. request \in Processes \cup {None}
    BY <1>6
<1>9. PICK w \in Works : /\ work' = [work EXCEPT ![p] = w]
                         /\ w.graph = work[p].graph /\ w.request = request
    BY <1>7, <1>8, WorkRequest
<1>10. GraphAt(t, w) /\ RequestAt(p, t, w)
    BY <1>4, <1>5, <1>6, <1>9 DEF GraphAt, RequestAt
<1> QED
    BY <1>1, <1>3, <1>9, <1>10, AuditMove

\* A command takes over the request of the Run that it reuses.
LEMMA ReuseAudit ==
    ASSUME IInv, AuditInv, NEW p \in Processes, tx[p].pc \in {"find", "winner"},
           NEW i \in ReusableRuns, Reuse(p, i), work[p].request # None,
           work' = [work EXCEPT ![p].request = RequestAtHand(p)],
           UNCHANGED <<runs, ledger, question>>
    PROVE  AuditInv'
<1> DEFINE label == IF tx[p].command = "run" /\ runs[i].status = "PLANNED" THEN "start" ELSE "commit"
           t == [tx[p] EXCEPT !.id = i, !.pc = label]
<1>1. /\ tx \in [Processes -> Transactions] /\ tx[p] \in Transactions /\ Local(tx[p])
      /\ RequestAt(p, tx[p], work[p]) /\ DOMAIN ledger = DOMAIN runs
      /\ \A j \in DOMAIN ledger : ledger[j] \in Graphs /\ ledger[j].request \in Processes
    BY CommandFacts
<1>2. tx' = [tx EXCEPT ![p] = t] /\ label \in {"start", "commit"}
    BY <1>1 DEF Reuse
<1>3. i \in DOMAIN ledger /\ i # 0
    BY <1>1 DEF ReusableRuns, IInv, TypeOK
<1> HIDE DEF label
<1>4. t.pc = label /\ t.writes = tx[p].writes /\ t.id = i
    BY <1>1 DEF Transactions
<1> HIDE DEF t
<1>5. ~t.writes
    BY <1>1, <1>4 DEF Local
<1>6. RequestAtHand(p) = ledger[i].request
    BY <1>1, <1>2, <1>3, <1>4 DEF RequestAtHand
<1>7. PICK request : request = ledger[i].request
    OBVIOUS
<1>8. request \in Processes \cup {None} /\ work' = [work EXCEPT ![p].request = request]
    BY <1>1, <1>3, <1>6, <1>7
<1>9. PICK w \in Works : /\ work' = [work EXCEPT ![p] = w]
                         /\ w.graph = work[p].graph /\ w.request = request
    BY <1>8, WorkRequest
<1>10. GraphAt(t, w)
    BY <1>2, <1>3, <1>4, <1>5 DEF GraphAt
<1>11. RequestAt(p, t, w)
    BY <1>1, <1>2, <1>3, <1>4, <1>7, <1>9 DEF RequestAt
<1> QED
    BY <1>2, <1>9, <1>10, <1>11, AuditMove

\* Find and Winner.
LEMMA FindAudit ==
    ASSUME IInv, AuditInv, NEW p \in Processes, Find(p) \/ Winner(p)
    PROVE  AuditInv'
<1>1. /\ tx \in [Processes -> Transactions] /\ tx[p] \in Transactions /\ Local(tx[p])
      /\ RequestAt(p, tx[p], work[p])
    BY CommandFacts
<1>2. CASE Find(p)
  <2>1. /\ tx[p].pc = "find" /\ work[p].request # None /\ work[p].request = p
        /\ work' = [work EXCEPT ![p].request = RequestAtHand(p)] /\ UNCHANGED <<runs, ledger, question>>
      BY <1>1, <1>2 DEF Find, FindReusable, RequestAt
  <2>2. ASSUME NEW i \in ReusableRuns, Reuse(p, i) PROVE AuditInv'
      BY <2>1, <2>2, ReuseAudit
  <2>3. CASE tx' = [tx EXCEPT ![p].pc = "insert"]
    <3> DEFINE t == [tx[p] EXCEPT !.pc = "insert"]
    <3>1. tx' = [tx EXCEPT ![p] = t]
        BY <1>1, <2>3
    <3>2. t.pc = "insert" /\ t.writes = tx[p].writes /\ t.id = tx[p].id
        BY <1>1 DEF Transactions
    <3> HIDE DEF t
    <3>3. ~t.writes /\ t.id = 0
        BY <1>1, <2>1, <3>2 DEF Local
    <3>4. RequestAtHand(p) = p
        BY <1>1, <2>1, <3>1, <3>3 DEF RequestAtHand
    <3>5. PICK w \in Works : /\ work' = [work EXCEPT ![p] = w]
                             /\ w.graph = work[p].graph /\ w.request = p
      <4>1. p \in Processes \cup {None} /\ work' = [work EXCEPT ![p].request = p]
          BY <2>1, <3>4
      <4> QED
          BY <4>1, WorkRequest
    <3>6. GraphAt(t, w) /\ RequestAt(p, t, w)
        BY <1>1, <2>1, <3>2, <3>3, <3>5 DEF GraphAt, RequestAt
    <3> QED
        BY <2>1, <3>1, <3>5, <3>6, AuditMove
  <2> QED
      BY <1>2, <2>2, <2>3 DEF Find, FindReusable
<1>3. CASE Winner(p)
  <2>1. tx[p].pc = "winner" /\ work[p].request = p /\ work[p].request # None /\ UNCHANGED <<ledger, question>>
      BY <1>1, <1>3, NullAssumption DEF Winner, FindWinner, RequestAt, Local
  <2>2. ASSUME NEW i \in ReusableRuns, Reuse(p, i), UNCHANGED runs PROVE AuditInv'
    <3>1. tx'[p].pc # "failed"
        BY <1>1, <2>2 DEF Reuse, Transactions
    <3>2. work' = [work EXCEPT ![p].request = RequestAtHand(p)]
        BY <1>3, <3>1 DEF Winner
    <3> QED
        BY <2>1, <2>2, <3>2, ReuseAudit
  <2>3. CASE Rollback(p)
    <3>1. tx'[p].pc = "failed"
        BY <1>1, <2>3, NoWorkFacts DEF Rollback
    <3>2. work' = [work EXCEPT ![p] = NoWork]
        BY <1>3, <3>1 DEF Winner
    <3> QED
        BY <2>1, <2>3, <3>2, AbortAudit
  <2> QED
      BY <1>3, <2>2, <2>3 DEF Winner, FindWinner
<1> QED
    BY <1>2, <1>3

\* The insert of a Run for the command's own request, or none.
LEMMA InsertAudit ==
    ASSUME IInv, AuditInv, NEW p \in Processes, InsertRun(p)
    PROVE  AuditInv'
<1>1. /\ tx \in [Processes -> Transactions] /\ tx[p] \in Transactions /\ Local(tx[p])
      /\ RequestAt(p, tx[p], work[p]) /\ tx[p].pc = "insert" /\ UNCHANGED <<runs, ledger, question>>
      /\ work' = [work EXCEPT ![p].graph = IF tx'[p].writes THEN NewGraph(work[p].request) ELSE work[p].graph]
    BY CommandFacts DEF InsertRun, Insert, Write
<1>2. work[p].request = p /\ ~tx[p].writes /\ tx[p].id = 0 /\ RequestLawful(question)
    BY <1>1, NullAssumption DEF RequestAt, Local
<1>3. CASE tx' = [tx EXCEPT ![p].pc = "plan", ![p].writes = TRUE]
  <2> DEFINE t == [tx[p] EXCEPT !.pc = "plan", !.writes = TRUE]
             graph == NewGraph(p)
  <2>1. tx' = [tx EXCEPT ![p] = t]
      BY <1>1, <1>3
  <2>2. t.pc = "plan" /\ t.writes = TRUE /\ t.id = tx[p].id
      BY <1>1 DEF Transactions
  <2> HIDE DEF t
  <2>3. graph \in Graphs /\ graph.request = p
      BY PlannedGraph
  <2>4. work' = [work EXCEPT ![p].graph = graph]
      BY <1>1, <1>2, <2>1, <2>2
  <2>5. PICK w \in Works : /\ work' = [work EXCEPT ![p] = w]
                           /\ w.graph = graph /\ w.request = work[p].request
      BY <2>3, <2>4, WorkGraph
  <2>6. GraphAt(t, w) /\ RequestAt(p, t, w)
      BY <1>2, <2>2, <2>3, <2>5 DEF GraphAt, RequestAt
  <2> QED
      BY <1>1, <2>1, <2>5, <2>6, AuditMove
<1>4. CASE tx' = [tx EXCEPT ![p].pc = "winner"]
  <2> DEFINE t == [tx[p] EXCEPT !.pc = "winner"]
  <2>1. tx' = [tx EXCEPT ![p] = t]
      BY <1>1, <1>4
  <2>2. t.pc = "winner" /\ t.writes = tx[p].writes /\ t.id = tx[p].id
      BY <1>1 DEF Transactions
  <2> HIDE DEF t
  <2>3. work' = [work EXCEPT ![p].graph = work[p].graph] /\ work[p].graph \in Graphs
      BY <1>1, <1>2, <2>1, <2>2, WorkType
  <2>4. PICK w \in Works : /\ work' = [work EXCEPT ![p] = w]
                           /\ w.graph = work[p].graph /\ w.request = work[p].request
    <3>1. PICK graph : graph = work[p].graph
        OBVIOUS
    <3>2. graph \in Graphs /\ work' = [work EXCEPT ![p].graph = graph]
        BY <2>3, <3>1
    <3> QED
        BY <3>1, <3>2, WorkGraph
  <2>5. GraphAt(t, w) /\ RequestAt(p, t, w)
      BY <1>2, <2>2, <2>4 DEF GraphAt, RequestAt
  <2> QED
      BY <1>1, <2>1, <2>4, <2>5, AuditMove
<1> QED
    BY <1>3, <1>4 DEF InsertRun, Insert

\* Planning writes the first two events.
LEMMA PlanAudit ==
    ASSUME IInv, AuditInv, NEW p \in Processes, PlanRun(p)
    PROVE  AuditInv'
<1> DEFINE label == IF tx[p].command = "run" THEN "start" ELSE "commit"
           t == [tx[p] EXCEPT !.row = PlannedRun, !.pc = label]
           graph == Transition(AddPlan(Transition(NewGraph(work[p].request), "CREATED", "PLANNING",
                                                  "PLAN_STARTED")),
                               "PLANNING", "PLANNED", "PLAN_VALIDATED")
<1>1. /\ tx \in [Processes -> Transactions] /\ tx[p] \in Transactions /\ Local(tx[p])
      /\ GraphAt(tx[p], work[p]) /\ RequestAt(p, tx[p], work[p]) /\ tx[p].pc = "plan"
      /\ UNCHANGED <<runs, ledger, question>>
    BY CommandFacts DEF PlanRun, CreatePlan, Write
<1>2. /\ tx[p].row = NewRun /\ tx[p].id = 0 /\ work[p].graph = NewGraph(work[p].request)
      /\ tx[p].row.status = "CREATED"
    BY <1>1, RowFacts DEF Local, GraphAt
<1>3. tx' = [tx EXCEPT ![p] = t]
    BY <1>1, <1>2 DEF PlanRun, CreatePlan, PlannedRun, Transactions
<1>4. label \in {"start", "commit"}
    OBVIOUS
<1> HIDE DEF label
<1>5. t.pc = label /\ t.writes = tx[p].writes /\ t.id = tx[p].id /\ t.row = PlannedRun
    BY <1>1 DEF Transactions
<1> HIDE DEF t
<1>6. tx'[p].row.status = "PLANNED"
    BY <1>1, <1>3, <1>5, RowFacts
<1>7. graph \in Graphs /\ Planned(graph) /\ graph.request = work[p].request
    BY WorkType, PlannedGraph
<1>8. work' = [work EXCEPT ![p].graph = graph]
    BY <1>2, <1>6 DEF PlanRun, Write
<1> HIDE DEF graph
<1>9. PICK h : h = graph
    OBVIOUS
<1>10. PICK w \in Works : /\ work' = [work EXCEPT ![p] = w]
                          /\ w.graph = h /\ w.request = work[p].request
  <2>1. h \in Graphs /\ work' = [work EXCEPT ![p].graph = h]
      BY <1>7, <1>8, <1>9
  <2> QED
      BY <2>1, WorkGraph
<1>11. Visible(PlannedRun, h)
    BY <1>7, <1>9, RowFacts DEF Visible, TerminalStatuses
<1>12. GraphAt(t, w)
    BY <1>2, <1>4, <1>5, <1>7, <1>9, <1>10, <1>11 DEF GraphAt
<1>13. RequestAt(p, t, w)
    BY <1>1, <1>2, <1>4, <1>5, <1>10 DEF RequestAt
<1> QED
    BY <1>1, <1>3, <1>10, <1>12, <1>13, AuditMove

\* Execution starts from the rows of the planned Run.
LEMMA StartAudit ==
    ASSUME IInv, AuditInv, NEW p \in Processes, StartRun(p)
    PROVE  AuditInv'
<1> DEFINE row == IF tx[p].id = 0 THEN tx[p].row ELSE runs[tx[p].id]
           t == [tx[p] EXCEPT !.pc = "step", !.writes = TRUE, !.row = [row EXCEPT !.status = "RUNNING"]]
<1>1. /\ tx \in [Processes -> Transactions] /\ tx[p] \in Transactions /\ Local(tx[p])
      /\ GraphAt(tx[p], work[p]) /\ RequestAt(p, tx[p], work[p]) /\ tx[p].pc = "start"
      /\ tx[p].id \in Nat /\ DOMAIN ledger = DOMAIN runs
      /\ tx[p].id # 0 => tx[p].id \in DOMAIN ledger
      /\ UNCHANGED <<ledger, question>>
    BY CommandFacts DEF StartRun, StartExecution
<1>2. CASE Rollback(p)
  <2>1. tx'[p].pc = "failed"
      BY <1>1, <1>2, NoWorkFacts DEF Rollback
  <2>2. work' = [work EXCEPT ![p] = NoWork]
      BY <2>1 DEF StartRun
  <2> QED
      BY <1>1, <1>2, <2>2, AbortAudit
<1>3. CASE row.status = "PLANNED" /\ tx' = [tx EXCEPT ![p] = t] /\ UNCHANGED runs
  <2>1. row = PlannedRun
    <3>1. CASE tx[p].id = 0
        BY <1>1, <3>1 DEF Local
    <3>2. CASE tx[p].id # 0
        BY <1>1, <1>3, <3>2 DEF IInv, Whole, PlannedRun, TerminalStatuses
    <3> QED
        BY <3>1, <3>2
  <2>2. t = [tx[p] EXCEPT !.pc = "step", !.writes = TRUE, !.row = RunningRun]
      BY <2>1 DEF RunningRun
  <2>3. PICK g : g = Loaded(p)
      OBVIOUS
  <2>4. g \in Graphs /\ Planned(g) /\ g.request = work[p].request
    <3>1. CASE tx[p].id = 0
        BY <1>1, <2>3, <3>1, WorkType DEF Loaded, GraphAt, Local
    <3>2. CASE tx[p].id # 0
      <4>1. g = ledger[tx[p].id] /\ runs[tx[p].id].status = "PLANNED"
          BY <1>3, <2>3, <3>2 DEF Loaded
      <4> QED
          BY <1>1, <3>2, <4>1, CommandFacts DEF AuditInv, Visible, RequestAt
    <3> QED
        BY <3>1, <3>2
  <2> HIDE DEF t, row
  <2>5. t.pc = "step" /\ t.row = RunningRun /\ t.id = tx[p].id /\ t.step = 1
      BY <1>1, <2>2 DEF Transactions, Local
  <2> DEFINE graph == Transition(g, "PLANNED", "RUNNING", "RUN_STARTED")
  <2>6. graph \in Graphs /\ Executing(RunningRun, graph, 0) /\ graph.request = g.request
      BY <2>4, StartedGraph
  <2>7. work' = [work EXCEPT ![p].graph = graph]
    <3>1. tx'[p].pc # "failed" /\ tx'[p].row.status = "RUNNING"
        BY <1>1, <1>3, <2>5, RowFacts
    <3> QED
        BY <2>3, <3>1 DEF StartRun
  <2> HIDE DEF graph
  <2>8. PICK w \in Works : /\ work' = [work EXCEPT ![p] = w]
                           /\ w.graph = graph /\ w.request = work[p].request
      BY <2>6, <2>7, WorkGraph
  <2>9. GraphAt(t, w)
      BY <2>4, <2>5, <2>6, <2>8 DEF GraphAt
  <2>10. RequestAt(p, t, w)
      BY <1>1, <2>5, <2>8 DEF RequestAt
  <2> QED
      BY <1>1, <1>3, <2>8, <2>9, <2>10, AuditMove
<1>4. Rollback(p) \/ (row.status = "PLANNED" /\ tx' = [tx EXCEPT ![p] = t] /\ UNCHANGED runs)
    BY <1>1 DEF StartRun, StartExecution
<1> QED
    BY <1>2, <1>3, <1>4

\* A step with its records: what remains to be shown is about the new row and graph.
LEMMA StepAudit ==
    ASSUME IInv, AuditInv, NEW p \in Processes, tx[p].pc = "step", NEW new,
           NEW blocked \in BOOLEAN, NEW failed \in BOOLEAN, NextStep(p, new, blocked, failed),
           NEW graph \in Graphs, Executing(new, graph, tx[p].step),
           graph.request = work[p].graph.request, Write(p, graph)
    PROVE  AuditInv'
<1>1. /\ Local(tx[p]) /\ GraphAt(tx[p], work[p]) /\ RequestAt(p, tx[p], work[p])
      /\ UNCHANGED <<ledger, question>> /\ work' = [work EXCEPT ![p].graph = graph]
    BY CommandFacts DEF Write
<1>2. PICK t : /\ tx' = [tx EXCEPT ![p] = t] /\ UNCHANGED runs
               /\ t.row = new /\ t.step = tx[p].step + 1
               /\ t.writes = tx[p].writes /\ t.id = tx[p].id
               /\ t.pc = IF tx[p].step = Len(Plan) THEN "assemble" ELSE "step"
    BY NextStepFields
<1>3. tx[p].writes /\ tx[p].step \in StepIndex /\ graph.request = work[p].request
    BY <1>1 DEF Local, GraphAt
<1>4. t.step - 1 = tx[p].step
    BY <1>2, <1>3 DEF StepIndex
<1>5. PICK w \in Works : /\ work' = [work EXCEPT ![p] = w]
                         /\ w.graph = graph /\ w.request = work[p].request
    BY <1>1, WorkGraph
<1>6. GraphAt(t, w)
    BY <1>2, <1>3, <1>4, <1>5 DEF GraphAt
<1>7. RequestAt(p, t, w)
    BY <1>1, <1>2, <1>5 DEF RequestAt
<1> QED
    BY <1>1, <1>2, <1>5, <1>6, <1>7, AuditMove

LEMMA ComponentAudit ==
    ASSUME IInv, AuditInv, NEW p \in Processes, RunComponent(p)
    PROVE  AuditInv'
<1> DEFINE k == tx[p].step
           row == tx[p].row
           g == work[p].graph
           done == [row EXCEPT !.steps[k] = ComponentStatus(p)]
           e(status) == Evidence(Step(p), "SECURITY_MASTER_EVIDENCE", status)
           with(status) == [done EXCEPT !.evidence = @ \cup {e(status)}]
<1>1. /\ tx[p] \in Transactions /\ Local(tx[p]) /\ GraphAt(tx[p], work[p]) /\ g \in Graphs
      /\ tx[p].pc = "step" /\ Step(p) = Plan[k] /\ Plan[k] \in Components
    BY CommandFacts, WorkType DEF RunComponent, ExecuteComponent, Step
<1>2. k \in StepIndex /\ Plan[k] \notin Tools /\ Executing(row, g, k - 1)
    BY <1>1, PlanFacts DEF Local, GraphAt
<1>3. row \in RunRecords /\ row.steps \in [StepIndex -> StepStatuses]
      /\ ComponentStatus(p) \in StepStatuses
    BY <1>1 DEF Transactions, RunRecords, ComponentStatus, StepStatuses
<1>4. /\ done \in RunRecords /\ done.steps = [row.steps EXCEPT ![k] = ComponentStatus(p)]
      /\ done.budget = row.budget /\ done.status = row.status /\ done.evidence = row.evidence
    BY <1>2, <1>3 DEF RunRecords
<1> HIDE DEF done
<1>5. CASE Step(p) # "resolve_security"
  <2>1. NextStep(p, done, FALSE, FALSE) /\ Write(p, g)
      BY <1>5 DEF RunComponent, ExecuteComponent, done
  <2>2. Executing(done, g, k)
      BY <1>1, <1>2, <1>3, <1>4, ComponentGraph
  <2>3. PICK h : h = g
      OBVIOUS
  <2>4. h \in Graphs /\ Executing(done, h, k) /\ h.request = g.request /\ Write(p, h)
      BY <1>1, <2>1, <2>2, <2>3
  <2> QED
      BY <1>1, <2>1, <2>4, StepAudit
<1>6. CASE Step(p) = "resolve_security"
  <2>1. PICK status \in {"VALID", "INVALID"} : NextStep(p, with(status), FALSE, FALSE)
      BY <1>6 DEF RunComponent, ExecuteComponent, done
  <2> DEFINE new == with(status)
             seen == e(status)
  <2>2. seen \in EvidenceRecords /\ seen.key = Plan[k] /\ seen.type = "SECURITY_MASTER_EVIDENCE"
      BY <1>1, <1>2 DEF Evidence, EvidenceRecords
  <2>3. /\ new \in RunRecords /\ new.steps = done.steps
        /\ new.budget = done.budget /\ new.status = done.status
        /\ new.evidence = done.evidence \cup {seen}
      BY <1>4, <2>2 DEF RunRecords
  <2>4. NextStep(p, new, FALSE, FALSE)
      BY <2>1
  <2> HIDE DEF new, seen
  <2> DEFINE graph == AddObservation(g, Plan[k], None, "PASS")
  <2>5. graph \in Graphs /\ Executing(new, graph, k) /\ graph.request = g.request
    <3>1. new.budget = row.budget /\ new.status = row.status /\ new.evidence = row.evidence \cup {seen}
          /\ new.steps = [row.steps EXCEPT ![k] = ComponentStatus(p)]
        BY <1>4, <2>3
    <3> HIDE DEF k, g, row
    <3> QED
        BY <1>1, <1>2, <1>3, <2>2, <2>3, <3>1, ComponentGraph
  <2>6. Write(p, graph)
      BY <1>1, <1>6 DEF RunComponent
  <2> HIDE DEF graph
  <2>7. PICK h : h = graph
      OBVIOUS
  <2>8. h \in Graphs /\ Executing(new, h, k) /\ h.request = g.request /\ Write(p, h)
      BY <2>5, <2>6, <2>7
  <2>9. PICK after : after = new
      OBVIOUS
  <2>10. NextStep(p, after, FALSE, FALSE) /\ Executing(after, h, k)
      BY <2>4, <2>8, <2>9
  <2> QED
      BY <1>1, <2>8, <2>10, StepAudit
<1> QED
    BY <1>5, <1>6

LEMMA ToolAudit ==
    ASSUME IInv, AuditInv, NEW p \in Processes, RunTool(p)
    PROVE  AuditInv'
<1> DEFINE k == tx[p].step
           row == tx[p].row
           g == work[p].graph
<1>1. /\ tx[p] \in Transactions /\ Local(tx[p]) /\ GraphAt(tx[p], work[p]) /\ g \in Graphs
      /\ tx[p].pc = "step" /\ Step(p) = Plan[k] /\ Plan[k] \in Tools /\ Affordable(row.budget, Plan[k])
    BY CommandFacts, WorkType DEF RunTool, CanCallTool, Step
<1>2. k \in StepIndex /\ Executing(row, g, k - 1) /\ Progress(row, k - 1)
    BY <1>1 DEF Local, GraphAt
<1>3. row \in RunRecords /\ row.budget \in Budgets /\ row.steps \in [StepIndex -> StepStatuses]
    BY <1>1 DEF Transactions, RunRecords
<1>4. row.budget.perTool[Plan[k]] = 0
    BY <1>1, <1>2 DEF Progress, StepIndex
<1>5. PICK o \in Outcomes(row.budget, Plan[k]) : EndTool(p, o) /\ Write(p, PersistExecution(g, Plan[k], o))
    BY <1>1 DEF RunTool
<1> DEFINE status == o.result.status
           admitted == IF o.result.observed THEN Admitted(Plan[k], status) ELSE {}
           new == [row EXCEPT !.steps[k] = status, !.budget = o.budget, !.evidence = @ \cup admitted]
           unusable == status \in {"BLOCKED", "FAIL"}
           failed == status = "FAIL"
           graph == PersistExecution(g, Plan[k], o)
<1>6. /\ o.budget \in Budgets /\ status \in {"PASS", "PARTIAL", "BLOCKED", "FAIL"}
      /\ \A u \in Tools \ {Plan[k]} : o.budget.perTool[u] = row.budget.perTool[u]
    BY <1>1, <1>3, <1>4, OutcomeFacts
<1>7. NextStep(p, new, unusable, failed)
    BY <1>1, <1>5 DEF EndTool
<1> HIDE DEF status
<1>8. admitted \subseteq EvidenceRecords
  <2>1. Plan[k] \in {Plan[i] : i \in StepIndex}
      BY <1>2
  <2> QED
      BY <2>1, <1>6 DEF Admitted, Evidence, EvidenceRecords
<1> HIDE DEF admitted
<1>9. /\ new \in RunRecords /\ new.steps = [row.steps EXCEPT ![k] = status]
      /\ new.budget = o.budget /\ new.status = row.status
      /\ new.evidence = row.evidence \cup admitted
    BY <1>2, <1>3, <1>6, <1>8 DEF RunRecords, StepStatuses
<1> HIDE DEF new
<1>10. graph \in Graphs /\ Executing(new, graph, k) /\ graph.request = g.request
  <2> HIDE DEF k, row, g
  <2> QED
      BY <1>1, <1>2, <1>3, <1>4, <1>6, <1>9, ToolGraph DEF status, admitted
<1>11. unusable \in BOOLEAN /\ failed \in BOOLEAN
    OBVIOUS
<1>12. PICK h, after, b1, b2 : h = graph /\ after = new /\ b1 = unusable /\ b2 = failed
    OBVIOUS
<1> HIDE DEF graph, unusable, failed
<1>13. /\ h \in Graphs /\ Executing(after, h, k) /\ h.request = g.request /\ Write(p, h)
       /\ b1 \in BOOLEAN /\ b2 \in BOOLEAN /\ NextStep(p, after, b1, b2)
    BY <1>5, <1>7, <1>10, <1>11, <1>12 DEF graph
<1> QED
    BY <1>1, <1>13, StepAudit

\* The package is for the request of the Run, and lists what the Run has.
LEMMA PackageFacts ==
    ASSUME NEW p, work[p].request \in Processes, NEW row \in RunRecords, row.package \in Ends
    PROVE  /\ Package(p, row) \in ResearchPackage /\ Package(p, row).request = work[p].request
           /\ Package(p, row).evidence_ids = {e.key : e \in row.evidence}
           /\ Package(p, row).blocked_capabilities = BlockedTools(row)
           /\ PackageReason[row.package] \in Reasons
<1> DEFINE ids == {e.key : e \in row.evidence}
<1>1. ids \in SUBSET {Plan[i] : i \in StepIndex}
    BY DEF RunRecords, EvidenceRecords
<1>2. BlockedTools(row) \in SUBSET Tools
    BY DEF BlockedTools
<1>3. PackageStatusOf[row.package] \in {"COMPLETE", "PARTIAL", "BLOCKED", "FAILED"}
      /\ PackageReason[row.package] \in Reasons
    BY DEF PackageStatusOf, PackageReason, Ends, Reasons
<1> HIDE DEF ids
<1>4. Package(p, row) = [request |-> work[p].request, status |-> PackageStatusOf[row.package],
                         evidence_ids |-> ids, blocked_capabilities |-> BlockedTools(row)]
    BY DEF Package, ids
<1> QED
    BY <1>1, <1>2, <1>3, <1>4 DEF ResearchPackage, ids

LEMMA AssembleAudit ==
    ASSUME IInv, AuditInv, NEW p \in Processes, AssembleRun(p)
    PROVE  AuditInv'
<1> DEFINE row == tx[p].row
           g == work[p].graph
           status == PackageStatus(row.evidence, tx[p].failed)
           new == [row EXCEPT !.package = status, !.status = status]
           t == [tx[p] EXCEPT !.row = new, !.pc = "commit"]
<1>1. /\ tx \in [Processes -> Transactions] /\ tx[p] \in Transactions /\ Local(tx[p])
      /\ GraphAt(tx[p], work[p]) /\ RequestAt(p, tx[p], work[p]) /\ g \in Graphs
      /\ tx[p].pc = "assemble" /\ UNCHANGED <<runs, ledger, question>>
    BY CommandFacts, WorkType DEF AssembleRun, Assemble, Write
<1>2. row \in RunRecords /\ tx[p].writes /\ Executing(row, g, Len(Plan)) /\ g.request = work[p].request
    BY <1>1 DEF Transactions, Local, GraphAt
<1>3. work[p].request \in Processes
    BY <1>1, CommandFacts DEF RequestAt
<1>4. tx' = [tx EXCEPT ![p] = t]
    BY <1>1 DEF AssembleRun, Assemble, Transactions, RunRecords
<1>5. status \in Ends
    BY DEF PackageStatus, Ends
<1> HIDE DEF status
<1>6. /\ new \in RunRecords /\ new.status = status /\ new.package = status
      /\ new.steps = row.steps /\ new.budget = row.budget /\ new.evidence = row.evidence
    BY <1>2, <1>5 DEF RunRecords, TerminalStatuses, Ends
<1> HIDE DEF new
<1>7. t.pc = "commit" /\ t.writes = tx[p].writes /\ t.id = tx[p].id /\ t.row = new
    BY <1>1 DEF Transactions
<1> HIDE DEF t
<1>8. tx'[p].row = new
    BY <1>1, <1>4, <1>7
<1>9. PICK pkg : pkg = Package(p, new)
    OBVIOUS
<1>10. /\ pkg \in ResearchPackage /\ pkg.request = g.request
       /\ pkg.evidence_ids = {e.key : e \in new.evidence}
       /\ pkg.blocked_capabilities = BlockedTools(new) /\ PackageReason[new.status] \in Reasons
    BY <1>2, <1>3, <1>5, <1>6, <1>9, PackageFacts
<1> DEFINE graph == Transition([BuildAndValidate(g, new.evidence) EXCEPT !.package = pkg],
                               row.status, new.status, PackageReason[new.status])
<1>11. graph \in Graphs /\ Concluded(new, graph) /\ graph.request = g.request
  <2>1. g.request \in Processes /\ new.status \in Ends
      BY <1>2, <1>3, <1>5, <1>6
  <2> HIDE DEF row, g
  <2> QED
      BY <1>1, <1>2, <1>6, <1>10, <2>1, ConcludedGraph
<1>12. work' = [work EXCEPT ![p].graph = graph]
    BY <1>8, <1>9 DEF AssembleRun, Write
<1> HIDE DEF graph
<1>13. PICK h : h = graph
    OBVIOUS
<1>14. PICK w \in Works : /\ work' = [work EXCEPT ![p] = w]
                          /\ w.graph = h /\ w.request = work[p].request
  <2>1. h \in Graphs /\ work' = [work EXCEPT ![p].graph = h]
      BY <1>11, <1>12, <1>13
  <2> QED
      BY <2>1, WorkGraph
<1>15. Visible(new, h)
  <2>1. new.status # "PLANNED"
      BY <1>5, <1>6 DEF Ends
  <2> QED
      BY <1>11, <1>13, <2>1 DEF Visible
<1>16. GraphAt(t, w)
    BY <1>2, <1>7, <1>11, <1>13, <1>14, <1>15 DEF GraphAt
<1>17. RequestAt(p, t, w)
    BY <1>1, <1>7, <1>14 DEF RequestAt
<1> QED
    BY <1>1, <1>4, <1>14, <1>16, <1>17, AuditMove

\* A commit makes the rows of the command visible: for a Run of its own, or in place
\* of those of the Run that it locked, with the same request.
LEMMA CommitAudit ==
    ASSUME IInv, AuditInv, NEW p \in Processes, CommitCommand(p)
    PROVE  AuditInv'
<1> DEFINE row == tx[p].row
           g == work[p].graph
           id == tx[p].id
           t == [Idle EXCEPT !.pc = "done"]
<1>1. /\ tx \in [Processes -> Transactions] /\ tx[p] \in Transactions /\ Local(tx[p])
      /\ GraphAt(tx[p], work[p]) /\ RequestAt(p, tx[p], work[p]) /\ g \in Graphs
      /\ tx[p].pc = "commit" /\ DOMAIN ledger = DOMAIN runs /\ id \in Nat /\ UNCHANGED question
    BY CommandFacts, WorkType DEF CommitCommand, Commit, Forget
<1>2. /\ runs \in Seq(RunRecords) /\ ledger \in Seq(Graphs) /\ Len(ledger) = Len(runs)
      /\ row \in RunRecords /\ LockHeld(tx[p])
    BY <1>1, TransactionType DEF IInv, TypeOK, AuditInv, Transactions
<1>3. /\ tx' = [tx EXCEPT ![p] = t] /\ work' = [work EXCEPT ![p] = NoWork]
      /\ NoWork \in Works /\ GraphAt(t, NoWork) /\ NoWork.request = None /\ t.pc = "done" /\ t.id = 0
    BY NoWorkFacts DEF CommitCommand, Commit, Forget
<1> HIDE DEF t
<1>4. Requests \subseteq Requests' /\ p \in Requests'
    BY <1>1, <1>3 DEF Requests
<1>5. tx[p].writes => Visible(row, g) /\ g.request = work[p].request
    BY <1>1 DEF GraphAt
<1>6. /\ ledger' \in Seq(Graphs) /\ Len(ledger') = Len(runs')
      /\ \A i \in DOMAIN ledger' : Visible(runs'[i], ledger'[i]) /\ ledger'[i].request \in Requests'
      /\ \A i \in DOMAIN ledger : ledger'[i].request = ledger[i].request
  <2>1. CASE ~tx[p].writes
      BY <1>2, <1>4, <2>1 DEF CommitCommand, Commit, AuditInv
  <2>2. CASE tx[p].writes /\ id = 0
    <3>1. runs' = Append(runs, row) /\ ledger' = Append(ledger, g)
        BY <2>2 DEF CommitCommand, Commit
    <3>2. g.request = p
        BY <1>1, <1>5, <2>2 DEF RequestAt
    <3> HIDE DEF row, g
    <3>3. /\ ledger' \in Seq(Graphs) /\ Len(ledger') = Len(ledger) + 1 /\ Len(runs') = Len(runs) + 1
          /\ \A i \in DOMAIN ledger : ledger'[i] = ledger[i] /\ runs'[i] = runs[i]
          /\ ledger'[Len(ledger) + 1] = g /\ runs'[Len(ledger) + 1] = row
          /\ \A i \in DOMAIN ledger' : i \in DOMAIN ledger \/ i = Len(ledger) + 1
        BY <1>1, <1>2, <3>1
    <3> QED
        BY <1>2, <1>4, <1>5, <2>2, <3>2, <3>3 DEF AuditInv
  <2>3. CASE tx[p].writes /\ id # 0
    <3>1. runs' = [runs EXCEPT ![id] = row] /\ ledger' = [ledger EXCEPT ![id] = g]
          /\ id \in DOMAIN runs
        BY <1>2, <2>3 DEF CommitCommand, Commit, LockHeld
    <3>2. g.request = ledger[id].request
        BY <1>1, <1>5, <2>3 DEF RequestAt
    <3> HIDE DEF row, g, id
    <3>3. /\ ledger' \in Seq(Graphs) /\ Len(ledger') = Len(ledger) /\ Len(runs') = Len(runs)
          /\ DOMAIN ledger' = DOMAIN ledger
          /\ \A i \in DOMAIN ledger : i # id => ledger'[i] = ledger[i] /\ runs'[i] = runs[i]
          /\ ledger'[id] = g /\ runs'[id] = row
        BY <1>1, <1>2, <3>1
    <3> QED
        BY <1>1, <1>2, <1>4, <1>5, <2>3, <3>1, <3>2, <3>3 DEF AuditInv
  <2> QED
      BY <2>1, <2>2, <2>3
<1>7. work' \in [Processes -> Works]
    BY <1>3 DEF AuditInv
<1>8. ASSUME NEW q \in Processes PROVE GraphAt(tx'[q], work'[q]) /\ RequestAt(q, tx[q], work[q])'
  <2>1. CASE q = p
    <3>1. tx'[q] = t /\ work'[q] = NoWork
        BY <1>1, <1>3, <2>1 DEF AuditInv
    <3> QED
        BY <1>3, <3>1 DEF RequestAt
  <2>2. CASE q # p
    <3>1. tx'[q] = tx[q] /\ work'[q] = work[q]
        BY <1>1, <1>3, <2>2 DEF AuditInv
    <3>2. GraphAt(tx[q], work[q]) /\ RequestAt(q, tx[q], work[q]) /\ (tx[q].id # 0 => tx[q].id \in DOMAIN ledger)
        BY CommandFacts
    <3> QED
        BY <1>1, <1>6, <3>1, <3>2 DEF RequestAt
  <2> QED
      BY <2>1, <2>2
<1> QED
    BY <1>6, <1>7, <1>8 DEF AuditInv

-----------------------------------------------------------------------------
(* Theorems *)

\* Together with the invariant of the Runs, that of the audit rows is inductive.
LEMMA AuditNextInv == IInv /\ AuditInv /\ [AuditNext]_<<vars, auditVars>> => AuditInv'
<1> SUFFICES ASSUME IInv, AuditInv, [AuditNext]_<<vars, auditVars>> PROVE AuditInv'
    OBVIOUS
<1>1. CASE UNCHANGED <<tx, runs, ledger, work, question>>
    BY <1>1 DEF AuditInv, RequestAt, Requests
<1>2. CASE SeedPolicy
    BY <1>1, <1>2 DEF SeedPolicy, vars
<1>3. ASSUME NEW p \in Processes, AbortCommand(p) PROVE AuditInv'
  <2>1. /\ Rollback(p) /\ tx[p].pc # "done" /\ work' = [work EXCEPT ![p] = NoWork]
        /\ UNCHANGED <<ledger, question>>
      BY <1>3 DEF AbortCommand, Abort, Forget
  <2> QED
      BY <2>1, AbortAudit
<1>4. CASE UNCHANGED <<vars, auditVars>>
    BY <1>1, <1>4 DEF vars, auditVars
<1>5. CASE AuditNext
    BY <1>2, <1>3, <1>5, BeginAudit, FindAudit, InsertAudit, PlanAudit, StartAudit, ComponentAudit,
       ToolAudit, AssembleAudit, CommitAudit DEF AuditNext
<1> QED
    BY <1>4, <1>5

LEMMA AuditInitInv == AuditInit => AuditInv
<1> SUFFICES ASSUME AuditInit PROVE AuditInv
    OBVIOUS
<1>1. /\ runs = <<>> /\ ledger = <<>> /\ work = [p \in Processes |-> NoWork]
      /\ \A p \in Processes : tx[p] = Idle
    BY DEF AuditInit, Init
<1>2. NoWork \in Works /\ NoWork.request = None
    BY PlannedGraph DEF NoWork, Works
<1>3. Idle.pc = "begin" /\ Idle.writes = FALSE /\ Idle.id = 0
    BY DEF Idle
<1>4. \A p \in Processes : GraphAt(Idle, NoWork) /\ RequestAt(p, Idle, NoWork)
    BY <1>2, <1>3 DEF GraphAt, RequestAt
<1>5. work \in [Processes -> Works] /\ \A p \in Processes : work[p] = NoWork
    BY <1>1, <1>2
<1>6. ledger \in Seq(Graphs) /\ Len(ledger) = Len(runs) /\ DOMAIN ledger = {}
    BY <1>1
<1> QED
    BY <1>1, <1>4, <1>5, <1>6 DEF AuditInv

LEMMA AuditInvariance == AuditSpec => [](IInv /\ AuditInv)
    BY AuditImplementsRun, Invariance, AuditInitInv, AuditNextInv, PTL DEF AuditSpec

\* No constraint or trigger of the tables ever refuses a row that a command writes,
\* for any number of commands, any plan and any outcome of its steps.
THEOREM AuditRowsLawful == AuditSpec => []LedgerLawful
    BY AuditInvariance, AuditInvLawful, PTL

\* The audit rows of every committed Run tell how it got there: its events lead to
\* its status, its invocations add up to its budget, and its supported claims can be
\* followed to the call that they come from.
THEOREM AuditTrailTold == AuditSpec => []AuditTrail
    BY AuditInvariance, AuditInvTrail, PTL
=============================================================================
