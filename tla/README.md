# TLA+ models of the stock research agent

The repository is a Python application that collects securities data from
regulated sources under explicit authorization, stores it with its lineage, and
answers research questions from what is stored. Nearly all of its state is in
PostgreSQL and in one directory of content files; several processes may work on
it at once, any of them may die, and the design documents
(`src/docs/specs/stage-*.md`) make strong promises about budgets, single use,
point-in-time evidence and append-only history. This directory holds models of
the parts where such promises meet concurrency, crashes and time, TLC
configurations for small instances, and TLAPS proofs for all instances.

Paths below are relative to `src/src/stock_research_agent/` unless they start
with `src/`.

## 1. Inventory

| Component | State | Operations | What is hard | What makes it correct |
|---|---|---|---|---|
| Gate B live pilot (`domain/live_evidence/gate_b_*.py`, `db/repositories/live_evidence.py`) | authorization events, approvals, request attempts, consumptions, artifacts, blobs, audit events | authorize, start, reserve, send, settle, store, evaluate, block | two processes race for one grant; death between send and settle; one plan-wide retry; bytes known only afterwards | one grant gives one execution, in plan order, within budget, with ledgers that agree |
| Deadline worker (`providers/http_client.py`) | one thread, a one-slot queue, a lock, per call flags | submit, run, time out, late clean-up, close | a result that arrives while its caller times out; blocking put under a lock; uninterruptible operations | one owner of each response, no leak, every call ends, closing stops the thread |
| Circuit breaker, rate limiter, controlled executor (`providers/circuit_breaker.py`, `rate_limit.py`, `http_executor.py`) | circuit row, reservation events, the gate a call is at | before_call, record_outcome, reserve, execute | late outcomes, stale clocks, lost probes, a row that does not exist and cannot be locked | coherent row, one probe per opening, spaced slots, no request without a slot |
| Provider control plane (`providers/control_plane.py`, `domain/providers/*`, `cli_providers.py`) | definitions, capabilities, policies, licences, health snapshots | bootstrap, register, gate, record health | rows read before the transaction that relies on them | nothing is planned that the licence and the policy of the plan do not admit |
| Provider sync (`db/repositories/providers.py`) | requests, plans, runs, attempts, artifacts, manifests, cache, checkpoint, audit events | plan, run, pause, resume, cancel, reserve budget, append, settle, advance | two executors of one run; control commands while one is writing; compare-and-swap on an optional row | exact budget ledger, no advance lost to a writer that knows the row |
| Security master (`domain/securities`, `db/repositories/security_master.py`) | markets, exchanges, issuers, securities, identifiers, aliases | seed, resolve | two seeds at once, a seed over edited rows, a seed between two lookups of one query | a seed is refused only by an edit; ambiguity is reported, not guessed |
| Data ingestion and snapshots (`domain/data_access`, `cli_data.py`) | providers, mappings, ingestion runs, request logs, raw payloads, records, snapshots | ingest, snapshot create | failure after the payload is written; two builders of one version; replay of a version that records have outgrown | stored payloads stay readable; a version is what was selected at its cutoff |
| Blob storage (`infrastructure/blob_storage.py`) | directory entries and inodes, temporaries, quarantine | put, read, exists, delete | death between any two file operations, two writers or a writer and a deleter of one key | a published pair is whole and never replaced |
| Financials (`domain/financials`, `cli_financials.py`) | concepts, formulas, normalized facts, calculation runs | seed, normalize, calculate | facts read before the lock; ties broken by random ids; restatements | metrics use only what was known in time; a trailing year is a year |
| Documents and retrieval (`domain/documents`, `domain/retrieval`, `cli_documents.py`, `cli_rag.py`) | logical documents, versions, parse runs, chunks, citations, indexes, searches | register-version, parse, build-lexical-index, search | versions withdrawn or superseded after they were indexed | only citable passages are evidence |
| Research Run (`cli_agent.py`, `domain/research_agent/*`, `db/repositories/research_agent.py`) | request, Run, plan, steps, budget, events, invocations, observations, evidence, claims, package | plan, run, pause, resume, cancel | several commands for one question; failure half-way; retries against a budget; constraints that bite at the end of a transaction | one reusable Run, committed Runs whose rows belong together, the verdict the steps justify, a lawful and complete trail |
| Reports (`domain/reports`, `report_cli_application.py`, `db/repositories/reports.py`) | reports, bindings, reflections, revisions, gates | generate, reflect, revise, gate and seal | rounds out of order, commands racing on one chain, renumbering | what is published was examined, resolves and rests on verified evidence |
| Orchestration with models, tool policy, catalog | invocations, conflicts, context | tool selection, permission | not wired to a command | |
| Live evidence import, adapters, bridges, credentials, HTTP API, command line, configuration | none of their own, or only what the services above write | parse, translate, route, render | malformed payloads | |

How they interact: the command line composes services for one database
transaction and commits at its end; the Gate B pilot and the provider executor
commit several times in the course of one execution, because their ledgers have
to survive the death of the process. Services never send messages to each other;
what they share is rows and files, and PostgreSQL's row locks, unique indexes and
advisory locks order them. A row goes through the system in one direction:
provider payload, records, snapshot, normalized facts and document chunks,
metrics and searches, observations and claims of a Run, package, report. The only
threads the program starts itself are the deadline workers of the HTTP client.

`PROJECT.json` lists the same components with their sources and status, and all
hazards with the line at which each bites.

## 2. Modules

| Module | Models | Composes |
|---|---|---|
| `SingleUseGrant` | what a live authorization grant promises, with no tables or processes | |
| `GateB` | the pilot: authorization, start transaction, reservation, network, settlement, storage, quality verdict | implements `SingleUseGrant` |
| `DeadlineWorker` | `_BoundedDeadlineWorker` and `_call_with_deadline` | |
| `ProviderCall` | executor, circuit breaker and rate limiter | the three services |
| `ProviderGovernance` | rows and decisions of the control plane (no variables) | |
| `ProviderSync` | sync commands, executors, budget, lineage, cache, checkpoint | `ProviderGovernance` |
| `ResearchRun` | `agent plan` and `agent run` as concurrent transactions | planner, state machine, tool execution, evidence, claims, package |
| `ResearchLedger` | the audit rows of those commands and the constraints they meet | extends, and is proved to implement, `ResearchRun` |
| `Reports` | generation, reflection, revision, release gate and sealing | |
| `BlobStorage` | the local store on POSIX, file operation by file operation | |
| `SecurityMaster` | rows, seed and resolution (no variables) | |
| `DataAccess` | ingestion and snapshots | `BlobStorage`, `SecurityMaster` |
| `FinancialFormulas` | the formulas, as operators over integers | |
| `Financials` | reference seed, normalization, calculation | `DataAccess`, `FinancialFormulas` |
| `Knowledge` | versions, parsing, index, search | `Financials` |
| `EvidencePipeline` | seed and resolve, and the specification of the whole pipeline over one database and one directory | `Knowledge` and all it extends |
| `MC*` | small instances for TLC | |
| `GateBProofs`, `DeadlineWorkerProofs`, `ProviderCallProofs`, `ProviderSyncProofs`, `ResearchRunProofs`, `ResearchLedgerProofs`, `ReportsProofs`, `EvidencePipelineProofs` | theorems about the module they extend | |

Checks that the code makes one after the other, the first of which decides, are
IF chains in the code's order; `CASE` is kept for tables whose cases exclude each
other.

### GateB

An attempt and its consumption are rows `attempts[n]` and `consumptions[n]`;
`authState` is the state replayed from the event log; `wire[n]` is what really
happened on the network, which no table stores. Each database transaction of the
code is one action, since it holds the row locks that make it atomic:
`StartExecution` (lock the authorization, check state, expiry and approval,
consume both and reserve the first attempt), the reservation of a later attempt,
each settlement, the lineage transaction and the terminal event. Everything
between two transactions (sending, classifying, validating, the blob write) is a
step of its own, and a process may die at each and be started again, with the
empty memory a new process has. Bodies are numbers of bytes; a status code is
one of the classes the retry policy distinguishes. Validation of a payload is
nondeterministic: it accepts or rejects.

### DeadlineWorker

The control state of every caller, closer and of the daemon thread is explicit.
A critical section that can block while it holds `_lock` (`put` with a timeout)
is two steps; one that cannot is one. The clock is one bit per call: its
deadline has passed or not. It passes only where the code looks at the clock or
waits on it. An operation may succeed, fail or never end.

### ProviderCall

A call walks through the executor's gates in the code's order. `before_call` and
`record_outcome` hold the row lock, `reserve` the advisory lock, so each is one
action, with one exception: the row of a circuit that was never used cannot be
locked, so `before_call` is then a read and a later write (`CreateCircuit`). A
call brings the clock reading it took before it got the lock. The gates that
only read policy (governance, endpoint, cache) pass or block
nondeterministically. Nothing in the repository wires these three services
together in production: the executor takes them through its ports, and the
PostgreSQL tests of the circuit breaker and of the rate limiter give each call a
transaction of its own. The model composes them that way.

### ProviderGovernance and ProviderSync

A governance row is a record without ids: its identity is what its unique
constraint names. A decision is the set of its reasons to refuse. A session of
`ProviderSync` is one process with one command; `Begin` is the moment of its
unlocked look-ups and `Commit` the moment its writes and row locks take effect,
so that others commit in between. A session that runs the sync service goes on
as the executor of its run, one transaction per step: reserve the budget, append
and settle an attempt, store artifact, manifest, issues and dead letters, use the
cache, advance the checkpoint. The executor is a port without an implementation
in the repository; its steps are the repository's operations in the order in
which the Gate B pilot and the integration tests call them. `granted` and
`advances` are history variables: the running totals of the requests and bytes
that were really handed out for each plan, and what each write of the checkpoint
had read and really replaced.

### ResearchRun and ResearchLedger

A command is one transaction: its writes are visible to nobody until `Commit`,
and death or an exception is `Rollback`. `runs` are the committed rows, `tx[p]`
the transaction of command `p` with its own version of the row. PostgreSQL at
READ COMMITTED is modelled by what the code relies on: the partial unique index
makes an insert wait for the writer of the same key and then fail if that one
committed a reusable Run; `SELECT ... FOR UPDATE` waits for the writer of the
row and returns its latest version. Steps are executed in plan order: components
(resolve, validate, ...) and tools, the latter through the budget with one retry
of a transient failure. The data a tool finds is nondeterministic within what
the adapters can return.

`ResearchLedger` conjoins to every action the audit rows that it writes: request,
events, plan, invocations, observations, claims with their links, package. The
constraints and triggers of migrations 0006 and 0010 to 0012 are predicates
on these rows (`RowsLawful`), evaluated at every step and not used as guards: a
row that broke one would end the command in the code and break `LedgerLawful`
here.

`pause`, `resume` and `cancel` accept only RUNNING or PAUSED Runs. The commands
commit once, at the end, so no such Run is ever committed (`Whole`, a part of the
invariant of `ResearchRunProofs`); as the program stands all three are refused
for every Run. They are not modelled. The design has it otherwise, see section 6.

### Reports

A command is one transaction that reads committed rows, computes what it adds
(`tx[p]`) and commits it while others do the same; `Accepts` is what the unique
keys and triggers say at commit. A block is a kind, a claim, a label and the
references it shows; wording is left out, numbering is not. The rules of
reflection, the actions of revision and the conditions of the gate are operators
of the names they have in the code. The package a report is made of, with the
faults an input verification may meet, is chosen at the start.

### BlobStorage to EvidencePipeline

These modules share one state and are layered by EXTENDS. `db` holds the
committed rows of every table and `sess[s]` the command of a session with the
rows its transaction has inserted; an insert waits for a transaction that holds
the same key and fails when that one committed. A blob is a pair of directory
entries, for content and sidecar. An entry is a name and the file behind it,
which is one that a put wrote (`LocalEntry`, `TemporaryEntry`), so that two puts
under one key are told apart; a delete holds the entries it has looked up
(`HeldEntry`) and removes those. Every link, rename, unlink and quarantine step
is an action, a fault makes any of them fail and `Crash` ends a session between
any two. A command of the pipeline goes through its statements in the code's
order, one action between two points where another session can interfere. The
checksum of bytes is the bytes; a fact has an integer value; a document is a
sequence of sections with tokens and a length.

Each table is a pair of operators: the columns (`DailyPriceBar(r)`,
`DocumentVersion(r)`, ...) and the constraints of the migration (`Accepts...`).

A resolution is six lookups; the ones before some `k` see the rows from before
another session's commit and the rest the rows from after it. The commands on
a security (`ingest`, `snapshot create`, `normalize`, `calculate`) start only
when their query resolves.

## 3. What TLC checks

| Run | Instance | Result |
|---|---|---|
| `gateb` | 2 processes, 2 approvals, 4 requests, 3 bytes, clock 0..1 | pass |
| `gateb_expiry`, `gateb_bytes` | same | violation, see section 6 |
| `provider_call` | 2 calls repeated for ever, threshold 2, reset after 1, interval 1, clock 0..4 | pass, about 1.1 million states |
| `deadline_worker` | 2 calls, one of which opens a response, 2 closers | pass, with liveness |
| `provider_sync` | 3 sessions, one policy, two licences, a budget of 2 requests and 3 bytes, clock 0..1 | pass, about 530,000 states |
| `provider_sync_cas` | same | violation, see section 6 |
| `research_run` | 3 commands, a plan of 4 steps, 2 Runs, 3 tool calls, 2 per tool, 5 questions | pass, about 380,000 states |
| `research_attempts` | same | violation, see section 6 |
| `reports` | 2 commands at a time, 23 packages, 11 kinds of claim, chains of 3 versions | pass |
| `evidence` | 2 sessions, 6 initial databases, 2 or 3 commands, 1 fault | pass, about 125,000 states |
| `evidence_versions` | 2 sessions over a restated fact, 1 command | violation, see section 6 |

**gateb.** `SingleExecution`: racing processes and restarts give one execution
of the grant. `RetryLawful`, `ResourceOrder`: attempts follow the plan, with one
retry in all and none after a refusal. `LedgersBalanced`: the ledgers agree at
every moment at which a process may die, and what is charged stays within the
limit though it is known only after the bytes arrived. `LineageDurable`,
`TerminalSound`: what the tables say of bodies and of the end is true.
`NothingAfterTerminal`, `LedgerAppendOnly`: history is closed and kept.
`ImplementsGrant`: all of this is an implementation of `SingleUseGrant`.

**provider_call.** `CircuitCoherent` and `OneProbePerOpening` under outcomes that
arrive late and out of order; `SlotsSpaced` although clock readings are old;
`SlotPerSend` when gates block or callers die after reserving.

**deadline_worker.** `OneOwner` (a response is claimed or released, never both or
twice), `CancelledNeverRuns`, and the liveness properties `NoLeak`,
`EveryCallEnds`, `WorkerStops`.

**provider_sync.** `BudgetLedgerExact`: the columns of a run count exactly what
was granted to its executors, whoever paused, resumed, cancelled or crashed.
`NoLostAdvance`: a writer that found a checkpoint replaces only what it has read,
however many write at once. A writer that found none is the subject of
`provider_sync_cas`. `RequestsGoverned`: every stored plan is
covered by its licence and, if it is the offline one, by a policy without
network.

**research_run.** `OneReusableRun`, `BudgetKept`, `TerminalImmutable`.
`CommittedConsistent`: the steps, the budget and the evidence of a committed Run
are those of one prefix of its plan, and its package says what its status says.
It asserts nothing of when a command commits. `VerdictSound`: how a Run ends
follows from its steps and evidence, for Runs whose budget sufficed; what an
exhausted budget leads to is contested (section 6). `LedgerLawful`: no constraint
or trigger ever ends a command. `AuditTrail`: events lead to the status, every
called tool has the Invocation of its last attempt, which carries the number of
calls charged, and claims lead to calls. That each earlier attempt has a row of
its own is the subject of `research_attempts`. With the sections the command line
requests a Run never ends COMPLETED, because the LIMITATIONS section never passes.

**reports.** `SealedIsExamined`: what is published is what a second round examined
without a finding. `PublishedEvidenceSound`, `PublishedReferencesResolve`: its
evidence was valid for its cutoff and its labels lead to the right rows.
`RevisionConverges`: an applied finding does not come back.
`LineageNeverGrows`: a successor cites no more than its predecessor.

**evidence.** `CommittedPayloadReadable`: bytes behind a committed row can be read,
whatever other commands write, roll back or delete. `SnapshotVersionsAgree`: a
snapshot reported is the snapshot selected, replays included, and a later version
for the same cutoff, categories and preference has lost no item, unless a limit
cut it off or a provider that is preferred came up in between.
`MetricsPointInTime`, `TtmCoversOneYear`: inputs of a metric come from its own
snapshot and were published by its cutoff, and a trailing year counts each day of
a year once. `EvidenceCitable`: stored hits verify at any later time unless a
newer version retired them. `SeedRefusedOnlyByEdit` and `ResolvedIsNamed` for the
security master.

The type invariant of each module (`TypeOK`) is not among the properties of the
runs: for `GateB`, `DeadlineWorker`, `ProviderCall` and `ResearchRun` it is
proved, and for the others `INVARIANT TypeOK` can be added to the configuration.
The proofs of the others carry the part of it that they need in their invariants.

### Bounds

* Two processes and two approvals are what a race for one grant needs; a third
  process adds no new conflict, since all of them meet at one row lock. Four
  requests is the code's limit. Three bytes with bodies of 0 or 1 and a
  reservation of 2 make the reservation check refuse in some runs and not in
  others. One tick separates "before expiry" from "after".
* Two callers with a threshold of two let one call's failure be recorded between
  the other's admission and its outcome. A clock of 0..4 lets the circuit open,
  be probed and open again.
* One call of `deadline_worker` opens a response and the other does not: one
  occupies the worker while the other waits for the slot. Two closers meet in
  `close`.
* Three sessions of `provider_sync` are two executors of one run and a control
  command, or three writers of one checkpoint. Two requests and three bytes with
  answers of one and two bytes exhaust either budget first.
* Three commands of `research_run` let one win the insert, one lose it and one
  reuse the Run after it ended. The plan has one step of each kind that the code
  treats differently. Three tool calls for two tools let one retry pass and a
  second be refused. `SecondRunAfterPlainFirst` explores a second Run only after
  a first one without retries: the two meet only in the status of the first.
* Three versions of a report are a first one, its revision and the sealed one.
  The packages have one fault each, and among the claims is each kind that
  composition or reflection treats differently. The second process meets the
  first at every step, since each works on the same chain.
* One fault is enough for each recovery path to be taken once at each place;
  crashes count as faults. Two sessions race at every key and lock. The initial
  databases are what earlier commands leave (no security master, an edited one,
  an empty installation, a provider, reported facts with snapshots at two
  cutoffs, a snapshot whose preferred provider had nothing yet, filed documents),
  so that two or three commands reach metrics and searches.
  `SecuritiesBeforeEvidence` explores `seed-v0` and `resolve` over databases
  without evidence: master and evidence meet only in the resolution at the start
  of a command.

Symmetry is used for interchangeable processes in runs without liveness
properties. Deadlock is checked in `gateb` and `provider_call`, which go on for
ever; elsewhere the system really ends, when all commands (calls, closers) have.

### Fairness

Only `DeadlineWorker` states fairness: a runnable thread runs, and time passes
for a call in progress. Nothing is assumed of the operations: `WorkerFinish` has
no fairness, because a system call may hang. `WorkerStops` has the end of begun
operations as its hypothesis for the same reason. The other components are
commands that a person starts; nothing in the code promises that one is.

## 4. What is proved

All theorems hold for every value of the constants that satisfies the `ASSUME`s
of the module: any number of processes, any plan, any budget.

**GateBProofs.** `Invariance` proves the inductive invariant: the types, the
properties, how each process's label relates to the rows it holds, and that a
grant that is not consumed has no rows. The last part is why there is only one
execution: starting requires ACTIVE and leaves CONSUMED, which is terminal.
`TypeCorrect`, `OneExecution`, `RetriesBounded`, `PlanFollowed`, `RecordsSound`,
`ArtifactsStored`, `EndDescribed`, `HistoryKept` and `RunClosed` follow from it,
and `GrantImplemented` is the refinement: every step of the pilot is a step of
`SingleUseGrant` or leaves its variables alone.

**DeadlineWorkerProofs.** `WorkerTypes`, `ResponseHasOneOwner` and
`CancelledStaysIdle`. The invariant ties the flags to each other: `expired` and
`result_claimed` are set at different labels of the caller and never both,
`cleanup_started` is set only once `expired` is, and `late_cleanup` ran only for
calls with `cleanup_started`. A cancelled future stays so because there is one
thread: the future of what it runs is RUNNING, which `cancel` does not touch.

**ProviderCallProofs.** `CallTypes`, `CircuitSound`, `ProbesBounded`, `RateSound`,
`RequestsPaced`. The properties together are inductive; the number of calls past
the RATE_LIMIT gate is handled with the cardinality facts of
`FiniteSetTheorems`.

**ProviderSyncProofs.** `SessionStep` says once what a step of one session can do
to its memory, and each theorem adds what its tables need. `BudgetLedgerSafe`
(`LedgerInv`): there is one run per plan, nothing is granted without a run or to
an offline plan, and every grant is written in the transaction that locks the
run. `CheckpointSafe` (`CheckpointInv`): what an executor read is older than the
stored row or is the stored row, so the comparison of revisions, which a writer
that found a row passes, tells the two apart. `RequestsGovernedSafe`
(`GovernanceInv`): what a command checked before its transaction still holds in
it, since governance rows are inserted and never changed, and a version that has
rows gets no others.

**ResearchRunProofs.** `RunTypes`, `RunIdempotent`, `RunConsistent`,
`RunAffordable`, `RunClosed`. The invariant adds what the transactions know: one
writer, a writer that inserted only while there was no reusable Run, a locked row
that is the committed one, and a private row whose earlier steps have ended and
are accounted for. `RunConsistent` follows because a committed row is PLANNED and
untouched or has gone through the whole plan (`WholeIsConsistent`). The lemma
`RunVerdict` adds `JudgedSoFar`: at every label the steps that have ended, the
evidence admitted and the sections judged so far are those that the verdict will
be read from.

**ResearchLedgerProofs.** `AuditImplementsRun`: commands with their audit rows
implement `ResearchRun`, since the rows record what a command does and never
decide it. `AuditedRunsSafe` and `AuditedVerdict` carry the theorems over.
`AuditRowsLawful` and `AuditTrailTold` rest on `AuditInv`, which says for every
label of a command which rows it has written: the events are a path of the state
machine to the present status, every executed tool step has an invocation whose
attempt number is what the budget was charged, every observation its call and
every piece of evidence its observation. That the constraints hold then follows
for the rows of one command; across commands they meet only in the request of the
Run they reuse.

**ReportsProofs.** Three invariants, each stated of the committed rows and of the
rows in every open transaction, which stay lawful because committed rows are
never changed. `ReleaseInv` (requests seal the one package, a published report
has its examination on record, bindings rest on accepted evidence) gives
`PublicationExamined` and `PublicationSound`. `LineageInv` (ids are unique, a
report's claims are those of its body, a successor's are its predecessor's) gives
`LineageKept`. `BodyInv` gives `RevisionSettles` and `ReferencesResolve`: every
body is made of blocks of claims in the sections of those claims, the sections
that must be there hold a block that no finding deletes, so the findings of a
report can only delete, qualify and renumber; what was deleted or qualified stays
so in any order of the findings. A body has the factual blocks of the first
version or fewer, and labels that depend on nothing else. So a body that uses
every row of the first version's appendix, as the second reflection demands, is
the first version's, where label and row were made together.

**EvidencePipelineProofs.** `Step` says of every action which tables its command
writes and which states it passes through, so that a step of one session leaves
alone what the others are about. `SeedRefusal` (`SeedInv`): the advisory lock is
exclusive from the moment the stored rows are compared to the commit, so what a
seed inserts is what was missing, and it is refused only when a stored row
collides with the manifest without being of it. `PayloadsReadable`
(`PayloadInv`): every entry in the directory is a file of a put under the name
that the put chose; the file operations under way belong to different puts; the
put of a payload that a transaction has stored, committed or not, has ended whole
and no operation is about it. A failed put or a delete touches its own entries
only, hence never those of a stored payload. `SnapshotsAgree` (`VersionsInv`): a
build holds the lock of its snapshot key from the allocation of its version to
the commit, so every earlier version is committed by then; the rows of evidence
only grow, so what was eligible for an earlier version is eligible for a later
one, and what the newest rows leave out they leave out with a warning. The items
chosen so far are related to the rows that were visible when they were chosen,
since another session may commit between two categories. `HitsStayCitable`
(`CitableInv`): versions, parse runs and chunks are unique by their ids over the
tables and all transactions, a parse run is inserted with the chunks of all of
its sections, and the bytes of a version are a blob that no file operation is
about (the steps of `PayloadInv` keep every such blob, not only those of
payloads). A search names an index that was committed before it and keeps only
the chunks whose citation verified; versions and chunks are never changed, so at
any later time each of its hits still leads to the same passage, and only a newer
version can retire it. `MetricsArePointInTime` (`FactsInv`): the facts of a
snapshot are those of one whole normalization of it, because the first normalize
command to commit stores them all and every other then finds them or is refused;
there is one snapshot under a key, and its items do not change. The id of a fact
names one row, and the inputs of a derived fact are rows of the same
normalization. A calculation reads the facts of its snapshot before it takes its
lock, and what it read is empty or whole, so whatever the formulas bind is a
stored fact when the run is stored and ever after, and each fact comes from an
item that was published by the cutoff. The rows of a normalization and the
binding of each kind of formula have lemmas of their own (`RowSourced`,
`RowInputs`, `TtmBound`, `GrowthBound`, `RolesBound`). `ResolvedAreNamed`
(`MasterInv`): the master is the one the process found or that one with the whole
manifest, an answer was read from one of the two by an exact lookup, and lookups
are monotone in the rows, so the answer is what the query names in the master of
any later moment.

The proofs about sequences (`At`, `FlattenSeq`, the order in which findings are
applied) and about the recursive functions behind them need induction over the
length. It is done over sets of numbers (`NatSetInduction`, `BoundedInduction`,
`Iteration`), since the provers cannot instantiate an induction rule whose
parameter is a predicate. That a finite set of rows has an oldest and a newest
one (`OldestExists`, `NewestExists`) follows in the same way from the
well-foundedness of strict inclusion between finite sets (`SmallestMember`).

### Assumptions on the constants

Beyond ranges of numbers and the shape of the inputs:

* `ResearchRun`: a plan has at most twenty steps, each key once, resolves the
  security, and validates evidence after the last tool (`ResearchPlanValidator`).
* `ResearchLedger`, `ProviderSync`, `Reports`: NULL is no value of a column.
* `ProviderSync`: no adapter's plan is the slice that offline commands name.
* `Reports`: a claim that `ClaimService` calls BLOCKED is linked to the evidence
  that blocks it.
* `SecurityMaster`: the rows of the manifest have ids and keys of their own and
  refer to rows that come before them.
* `DataAccess`, `EvidencePipeline`: payload sizes, dates and cutoffs are numbers;
  what earlier commands left is a directory that only puts wrote, in which every
  stored payload is whole, and finite tables of evidence in which the items of a
  snapshot are stored rows and no version lost an item of an earlier one. Filed
  bodies and document versions are whole blobs that the parsers have an answer
  for, parse runs come with their chunks, the hits of stored searches lead to
  passages, and no version is bound to a snapshot (no command calls
  `bind_version_to_snapshot`). The records of an adapter's filings hold metadata
  only (`providers/fixtures/provider.py`).
  Stored facts are whole normalizations of stored snapshots (`ValidFinancials`),
  and no two rows of provider facts, stored or to come, have one id
  (`FactRowsAssumption`; the ids are random UUIDs).
* `EvidencePipeline`: no two securities share a name (`NamesAssumption`), as in
  the manifest of the code: the exact lookups of a query that find anything find
  the same securities, before and after the seed. Without it the property is
  false, since a seed may give a name that was just resolved to a second
  security. The limit on candidates is more than 1 (`CandidatesAssumption`, see
  section 5).
* `Knowledge`: a search names a snapshot or a cutoff, and not both.

TLC evaluates all of them on the instances of the runs.

### Only model-checked

* Liveness (`NoLeak`, `EveryCallEnds`, `WorkerStops`): beyond the prover.
* `TtmCoversOneYear`: depends on the periods that providers report. The code
  compares fiscal years and quarters of the facts it adds up, and the dates of
  two year-to-date facts to within seven days; that four successive fiscal
  quarters cover a year without a gap is a fact about the data, which the run
  checks for the reported and derived quarters of its instance.

## 5. Observations

Behaviour that the models have because the code has it, and that a reader of the
properties should know. Where a document of the repository says otherwise, the
behaviour is in section 6 instead.

*Provider calls.* A HALF_OPEN circuit whose probe is lost stays HALF_OPEN:
nothing times a probe out, and `PERMANENT_FAILURE` keeps the state. A caller that
found no row and is slow to create it overwrites a circuit that opened meanwhile
with a closed one.

*Provider sync.* `sync-resume` of a QUEUED run makes it RUNNING without a start
time. A second identical `sync-run` is refused with PROVIDER_RUN_TERMINAL. The
contract lets a run settle PARTIAL, the CHECK of the table does not.

*Security master.* A candidate limit of 1, which the constructor admits and no
caller uses, would report RESOLVED for one of several matches. Validity of an
alias is judged by today's date and not by the cutoff of the research. The alias
`601138.SH` cannot match as an alias, since normalization of names turns the
period into a space.

*Blobs and data access.* An ingestion that fails on quality or dies after its put
leaves a blob that no row names. Of two first ingestions from one provider the
second fails on the provider's unique key. A snapshot that conflicts again at the
version after the latest fails. The categories of a snapshot are read by separate
statements. If removing the temporary fails, an already published pair is rolled
back.

*Financials.* The roles price, pretax income, income tax and market
capitalization are bound to no concept, so ROIC, market cap, PE, PB, PS, EV, EV/EBITDA
and free cash flow yield are always NULL and no calculation is all PASS. Instant
share counts never normalize, since their nature asks for a period start. The tie
between a cumulative annual fact and the fourth quarter derived from it is broken
by a random id; the model takes both orders.

*Documents and retrieval.* A section whose chunk is longer than an excerpt may be
(1001 to 1600 characters) makes the whole parse command fail. An index is
identified by its version and checksum, so chunks of a later parser configuration
are never indexed. A repeated search over an unchanged index returns stored hits
without verifying them again; the read side does. Withdrawn versions are indexed
and only dropped by verification.

*Research.* Every command inserts a request row, also when it reuses a Run, and a
reused Run is executed for its original request. `execute` does not look at the
dependency keys of steps. A Run that cannot pay for the first attempt of a tool
is rolled back with everything it wrote; one that cannot pay for the retry goes on.

*Reports.* Citation bindings of a first version do not survive a revision or
sealing. A claim whose first link is not its smallest evidence can never be
revised or sealed when another claim is bound to the same evidence. Conflicting
claims make composition fail.

## 6. Where documents and code disagree

Five claims have a run that ends in a counterexample:

* `NoRetryCrossesExpiry` (`gateb_expiry`): the stage-10 design says "No retry can
  cross expiry". Expiry is checked when the execution starts; a retry is
  reserved and sent after it.
* `ReceivedBytesCharged` (`gateb_bytes`): the authorization matrix says "all
  received bytes count". A response cut off by a timeout or by the size limit is
  settled with zero bytes.
* `VersionsCoexist` (`evidence_versions`): the stage-5 report says "Raw/restated
  versions coexist". The unique key of `financial_periods` leaves out the
  publication date by which the code looks a period up, so a snapshot with a fact
  and its restatement cannot be normalized.
* `EveryAttemptStored` (`research_attempts`): the stage-7 design says "Each retry is
  a new immutable Invocation attempt" (408-409) and "Every attempt stores a
  redacted input payload and checksum" (546). The loop of
  `ResearchToolExecutor.execute` keeps one Invocation, the last, so the first
  attempt of a retried call leaves no row. No production adapter raises the error
  that is retried.
* `NoLostUpdate` (`provider_sync_cas`): the stage-9 design says "compare-and-swap
  version prevents lost updates" (568) and its plan "one winner under concurrent
  CAS" (479). `expected_revision` 0 means both "no row" and "revision 0", so a
  writer that found no row replaces the watermark that another one has stored
  first.

Four more have a configuration of their own. They state the claims of a module
that has a run already, on the same instance or a part of it, and each of them
ends in the counterexample described here:

* `OpenBlocksBeforeCredential` (`MCProviderCallOpen.cfg`, module
  `MCProviderCall`): the stage-9 design says "`OPEN` blocks before credential
  resolution/network" (476-477). The executor resolves the credential before it
  asks the circuit (`http_executor.py:141`).
* `RoundTwoHasPredecessor` (`MCReportsRounds.cfg`, module `MCReports`): the stage-8
  design says "each explicit CLI step validates its predecessor" (1127). A second
  round of reflection can be run and stored without a first one
  (`report_cli_application.py:282`).
* `ExecutionIsVisible` (`MCResearchVisible.cfg`, module `MCResearchRun`): the
  stage-7 design lists "one state transition plus Event" and "one Tool attempt
  plus terminal Invocation and Observation" as transactions of their own (section
  17, 942-950), and has pause "only `RUNNING -> PAUSED`" and cancel "from
  `RUNNING` or `PAUSED`" (section 15, 778-795), which need a Run that others see
  RUNNING. The command holds one transaction from the request to the package
  (`cli_agent.py:402-442`): nobody sees a RUNNING Run, a command that dies leaves
  nothing of it, and pause, resume and cancel are always refused.
* `ExhaustionEndsPartial` (`MCResearchBudget.cfg`, module `MCResearchRun`): the
  stage-7 design says "Budget exhaustion stops execution and produces `PARTIAL` if
  validated useful evidence exists and Policy allows partial completion; otherwise
  it produces `BLOCKED`" (580-582). A retry that the budget refuses makes its step
  FAILED with BUDGET_EXCEEDED, the execution goes on, and the Run ends FAILED
  (`tool_execution.py:154`, `packages.py:173-188`).

Two are behaviour that the models have and no configuration is about:

* Leases: the stage-9 design says "A concurrent worker must acquire one database
  lease/lock; it cannot execute the same slice twice" (541-542). The lease columns
  are written and never checked; two executors can share a run, and `pause` clears
  the lease while the executor continues. What still holds then is
  `BudgetLedgerExact`.
* Parsing again: the stage-6 design says "Rebuilding identical inputs yields
  identical ordered descriptors and checksums" with idempotency "established by
  the versioned natural key" (375-377), and its plan has tests for "same-version/
  config idempotency" (275) and "parse/reuse/status" (715). A second `parse` of a
  version under the same configuration inserts the same key and fails.

## 7. What is not modelled

* Research orchestration with models, and `pause`, `resume` and `cancel` of a
  Run: no command reaches them, see section 2. The tool registry's adapters are
  read-only queries whose answers are inputs of `ResearchRun`.
* The HTTP client besides its worker (URL policy, redirects, streaming),
  credentials, adapters, bridges and parsers: functions of their input that keep
  no state; what they return is an input of the models.
* Manual import and the offline evidence pipeline: sequences of modelled services
  (`BlobStorage`, `DataAccess`).
* The Windows anchor and the in-memory store of blobs, power loss (the model's
  crash ends a process, not the file system), BM25 scores, the vector channel,
  decimal rounding, wording and layout of reports.
* How `_ranges` cuts a section that is too long for one chunk. The sections of a
  body in `Knowledge` are the passages as the chunker cuts them, each of at most
  `MaxChunk` characters (`KnowledgeAssumption`).
* Which of two facts comes first by its random id, beyond the one place where it
  matters: `FactId` numbers rows in the order of their sources, and the tie that
  the code breaks by id is taken both ways by `Financials`.
* Freshness and `LiveAuthorizationGate` of the control plane, the monotonic rate
  limiter, and `bind_version_to_snapshot`, which no command calls.
* Some cases are kept as a superset: `register-version` may name a superseded
  version, which the service accepts and the command line does not pass.
* `RequestsGoverned` rests on governance rows that are inserted and never changed.
  Both licences of the run permit what is asked of them, so its clause about
  permitted uses is exercised by the theorem, which is for any licences, and not by
  the run. `ResolvedIsNamed` is about masters in which no two securities share a
  name: that two lookups of one query could find two different securities is
  outside of it.
* HTTP API, rendering, configuration, logging: they change nothing. The
  constraints of the migrations are modelled with the tables they belong to.

## 8. Plan

Done: the modules of section 2 and the proofs of section 4. Left: the parts of
section 7, of which the research orchestration becomes worth a module once a
command reaches it.

## 9. Running

    tlc -config MCGateB.cfg MCGateB
    tlc -config MCEvidencePipeline.cfg MCEvidencePipeline
    tlapm GateBProofs.tla

`PROJECT.json` names the module and the configuration of every run. The longest
runs take one to two minutes with two workers.
