----------------------------- MODULE ProviderSync -----------------------------
(***************************************************************************)
(* Provider synchronization: the control commands, the sync service with   *)
(* its executor, the budget ledger, request attempts, the lineage of what  *)
(* was fetched, the cache and the checkpoint.                              *)
(*                                                                         *)
(* A session is one process with one command.  A command is one database   *)
(* transaction: Begin is the moment of its unlocked lookups, Commit the    *)
(* moment its writes and row locks take effect, so that other sessions     *)
(* commit in between.  A session that runs the sync service goes on as     *)
(* the executor of its run, one transaction per step.  The executor is a   *)
(* port without an implementation in the repository: its steps are the     *)
(* repository operations, in the order in which the Gate B pilot and the   *)
(* integration tests call them.                                            *)
(***************************************************************************)
EXTENDS ProviderGovernance, Sequences

CONSTANTS
  Sessions,       \* processes, each with one command
  Requests,       \* the sync requests that can be made (records)
  Drafts,         \* the plans the adapter can build: sequences of slices
  Manifest,       \* the rows of the bootstrap manifest
  Registrations,  \* policy rows an operator registers
  LicenseRows,    \* licence rows an operator registers
  Responses,      \* what the source can answer (records)
  HealthContexts, \* what an operator knows when it records health (records)
  MaxTime         \* bound on the clock

ASSUME TimesAssumption == MaxTime \in Nat /\ Times = 0 .. MaxTime

(* The columns and the contracts of a request: its budget is four numbers, *)
(* and what it asks of a licence are licensed uses.                        *)
ASSUME RequestsAssumption ==
  \A r \in Requests :
    /\ r.budget \in [max_requests : Nat, max_bytes : Nat, max_attempts : Nat,
                     max_duration_seconds : Nat]
    /\ r.use.uses \subseteq LicensedUses

ASSUME ResponsesAssumption == \A r \in Responses : r.bytes \in Nat

(* No value is the absence of a value. *)
ASSUME NoRowAssumption ==
  /\ NoRow \notin Times
  /\ NoRow \notin [watermark : Sessions, revision : Nat]

VARIABLES
  definitions, capabilities, policies, licenses, health,   \* governance tables
  requests, plans, runs, attempts,                         \* sync tables
  artifacts, manifests, issues, deadLetters, cache,        \* lineage tables
  checkpoint,     \* the row of the one checkpoint scope, or NoRow
  audits,         \* provider_audit_events
  now,            \* the clock
  sess,           \* what each session is doing
  granted,        \* history: the requests and bytes granted, per plan
  advances        \* history: the successful checkpoint writes

governance == <<definitions, capabilities, policies, licenses, health>>
lineage == <<artifacts, manifests, issues, deadLetters, cache>>
vars == <<governance, requests, plans, runs, attempts, lineage, checkpoint, audits,
          now, sess, granted, advances>>

---------------------------------------------------------------------------
(* Statuses and the run state machine. *)

TerminalRun == {"COMPLETED", "PARTIAL", "BLOCKED", "FAILED", "CANCELLED"}

RunStatus == {"PLANNED", "QUEUED", "RUNNING", "PAUSED"} \cup TerminalRun

SliceStatus == {"PENDING", "RUNNING", "COMPLETED", "PARTIAL", "BLOCKED", "FAILED",
                "CANCELLED"}

AllowedTransitions ==
  [status \in {"PLANNED", "QUEUED", "RUNNING", "PAUSED"} |->
     CASE status = "PLANNED" -> {"QUEUED", "BLOCKED", "CANCELLED"}
       [] status = "QUEUED" -> {"RUNNING", "BLOCKED", "CANCELLED"}
       [] status = "RUNNING" -> {"PAUSED"} \cup TerminalRun
       [] status = "PAUSED" -> {"QUEUED", "RUNNING", "BLOCKED", "CANCELLED"}]

RunTransition(current, target) ==
  /\ current \notin TerminalRun
  /\ target = current \/ target \in AllowedTransitions[current]

(* stage9_guard_sync_run: the trigger on UPDATE of provider_sync_runs. *)
GuardSyncRun(old, new) ==
  /\ old.status \notin TerminalRun
  /\ \/ old.status = new.status
     \/ old.status = "PLANNED" /\ new.status \in {"QUEUED", "BLOCKED", "CANCELLED"}
     \/ old.status = "QUEUED" /\ new.status \in {"RUNNING", "BLOCKED", "CANCELLED"}
     \/ old.status = "RUNNING" /\ new.status \in {"PAUSED"} \cup TerminalRun
     \/ /\ old.status = "PAUSED"
        /\ new.status \in {"QUEUED", "RUNNING", "BLOCKED", "CANCELLED"}

(* stage9_guard_checkpoint_revision: the trigger on UPDATE of checkpoints. *)
GuardCheckpoint(old, new) == new.revision = old.revision + 1

---------------------------------------------------------------------------
(* Contracts and table constraints of requests, plans, runs and attempts.  *)
(* A request is its own identity: request_checksum and idempotency_key are *)
(* checksums of everything it says.                                        *)

ValidBudget(budget) ==
  /\ budget.max_requests \in 1 .. 10000
  /\ budget.max_bytes >= 1
  /\ budget.max_attempts \in 1 .. 3
  /\ budget.max_duration_seconds \in 1 .. 86400

ValidRequest(r) ==
  /\ r.range_start <= r.range_end
  /\ r.range_end <= r.research_as_of_time
  /\ (r.security = NoRow) # (r.universe = NoRow)
  /\ ValidBudget(r.budget)

(* ProviderControlCommand for sync-plan and sync-run. *)
ValidSyncCommand(r) ==
  /\ (r.security = NoRow) # (r.universe = NoRow)
  /\ r.range_start <= r.range_end
  /\ r.range_end <= r.research_as_of_time

(* A slice is [id, depends_on]; its ordinal is its place in the sequence. *)
ValidDag(slices) ==
  /\ Len(slices) >= 1
  /\ \A i, j \in DOMAIN slices : slices[i].id = slices[j].id => i = j
  /\ \A i \in DOMAIN slices :
       \A d \in slices[i].depends_on :
         \E j \in DOMAIN slices : slices[j].id = d /\ j < i

OfflinePlan == <<[id |-> "OFFLINE_EXACT_SCOPE", depends_on |-> {}]>>

(* Only the offline commands name that slice; no adapter does. *)
ASSUME DraftsAssumption ==
  /\ Drafts \subseteq Seq([id : STRING, depends_on : SUBSET STRING])
  /\ OfflinePlan \notin Drafts

SliceIds == {"OFFLINE_EXACT_SCOPE"}
              \cup UNION {{d[i].id : i \in DOMAIN d} : d \in Drafts}

ProviderSyncRequest == Requests

ProviderSyncPlan ==
  [request : Requests, slices : Drafts \cup {OfflinePlan}, checkpoint_revision : {NoRow}]

ProviderSyncRun ==
  [request : Requests, plan : ProviderSyncPlan, status : RunStatus,
   consumed_requests : Nat, consumed_bytes : Nat, consumed_attempts : Nat,
   started_at : Optional(Times), paused_at : Optional(Times),
   completed_at : Optional(Times), lease_owner : Optional(Sessions)]

ProviderRequestAttempt ==
  [id : Sessions \X Nat, run : ProviderSyncPlan, slice : SliceIds, attempt_number : 1 .. 4,
   status : SliceStatus, response_bytes : Nat]

ProviderRawArtifact ==
  [run : ProviderSyncPlan, attempt : Sessions \X Nat, slice : SliceIds,
   source_checksum : {r.checksum : r \in Responses},
   byte_count : Nat, source_published_at : Optional(Nat)]

ProviderIngestionManifest ==
  [artifact : ProviderRawArtifact, record_count : Nat, warning : BOOLEAN]

ProviderDataQualityIssue ==
  [manifest : ProviderIngestionManifest, rule : STRING, status : {"OPEN"}]

ProviderDeadLetter == [manifest : ProviderIngestionManifest, status : {"OPEN"}]

ProviderCacheEntry == [artifact : ProviderRawArtifact, expires_at : Nat]

ProviderSyncCheckpoint == [watermark : Sessions, revision : Nat]

ProviderAuditEvent ==
  [run : Optional(ProviderSyncPlan),
   action_code : {"CREDENTIAL_METADATA_CHECK", "LIVE_CHECK_REFUSED", "SYNC_PLAN",
                  "SYNC_RUN", "SYNC_PAUSE", "SYNC_RESUME", "SYNC_CANCEL",
                  "DEAD_LETTER_REPAIR"},
   decision_code : {"BLOCKED", "NOT_ATTEMPTED", "PLANNED"} \cup RunStatus]

AcceptsRequest(r) == r.range_end >= r.range_start

AcceptsPlan(p) == Len(p.slices) \in 1 .. 10000

AcceptsRun(run) == (run.status \in TerminalRun) = (run.completed_at # NoRow)

(* PARTIAL is a slice status that the check constraint does not list. *)
AcceptsAttempt(a) ==
  /\ a.status \in {"PENDING", "RUNNING", "COMPLETED", "BLOCKED", "FAILED", "CANCELLED"}
  /\ a.attempt_number \in 1 .. 4

AcceptsArtifact(a) == a.byte_count > 0

AcceptsCacheEntry(e, createdAt) == e.expires_at > createdAt

---------------------------------------------------------------------------
(* Lookups and writes of the sync repository.  A run is identified by its  *)
(* plan, a plan by its request and its slices.                             *)

RunOf(plan) == {r \in runs : r.plan = plan}

GetRun(plan) == TheRow(RunOf(plan))

PlanOf(request, slices) ==
  [request |-> request, slices |-> slices, checkpoint_revision |-> NoRow]

NewRun(plan) ==
  [request |-> plan.request, plan |-> plan, status |-> "PLANNED",
   consumed_requests |-> 0, consumed_bytes |-> 0, consumed_attempts |-> 0,
   started_at |-> NoRow, paused_at |-> NoRow, completed_at |-> NoRow,
   lease_owner |-> NoRow]

(* transition: under the row lock, every column but the identity is the    *)
(* one of the new value.                                                   *)
CanTransition(old, new) ==
  RunTransition(old.status, new.status) /\ GuardSyncRun(old, new) /\ AcceptsRun(new)

Transition(old, new) == runs' = (runs \ {old}) \cup {new}

(* What a session's lookups found: TRUE for the rows it does not insert. *)
Lookups(request, plan) ==
  [request |-> request \in requests, plan |-> plan \in plans, run |-> RunOf(plan) # {}]

(* The unique constraints: a row that was not found must not have been     *)
(* inserted by another session since.                                      *)
Inserts(seen, request, plan, withRun) ==
  /\ ~seen.request => request \notin requests
  /\ ~seen.plan => plan \notin plans
  /\ withRun /\ ~seen.run => RunOf(plan) = {}

Audit(run, action, decision) ==
  audits' = audits \cup {[run |-> run, action_code |-> action, decision_code |-> decision]}

---------------------------------------------------------------------------
(* Sessions.  A session's record is [phase, op, arg, seen, base, resp,     *)
(* slice, number]: arg is what its command names, seen its lookups, base   *)
(* the checkpoint it read, resp the response it is storing, number the     *)
(* number of its attempt.                                                  *)

Idle == [phase |-> "idle", op |-> "none", arg |-> NoRow, seen |-> NoRow,
         base |-> NoRow, resp |-> NoRow, slice |-> 0, number |-> 0]

NothingGranted == [requests |-> 0, bytes |-> 0]

(* The database is new, or an operator has registered the rows of the      *)
(* Provider before.                                                        *)
Init ==
  /\ \/ definitions = {} /\ capabilities = {} /\ policies = {} /\ licenses = {}
     \/ /\ definitions = {Manifest.definition} /\ capabilities = {Manifest.capability}
        /\ policies \in {{p} : p \in Registrations}
        /\ licenses \in {{l} : l \in LicenseRows}
  /\ health = {}
  /\ requests = {} /\ plans = {} /\ runs = {} /\ attempts = {}
  /\ artifacts = {} /\ manifests = {} /\ issues = {} /\ deadLetters = {}
  /\ cache = {} /\ checkpoint = NoRow /\ audits = {}
  /\ now = 0
  /\ sess = [s \in Sessions |-> Idle]
  /\ granted = [plan \in ProviderSyncPlan |-> NothingGranted] /\ advances = <<>>

Ends(s) == sess' = [sess EXCEPT ![s] = [Idle EXCEPT !.phase = "done"]]

Tick ==
  /\ now < MaxTime
  /\ now' = now + 1
  /\ UNCHANGED <<governance, requests, plans, runs, attempts, lineage, checkpoint, audits,
                 sess, granted, advances>>

---------------------------------------------------------------------------
(* Registration of governance rows.  bootstrap holds an advisory lock for  *)
(* its whole transaction, so it is one step; the operator's registrations  *)
(* go through the same repository.                                         *)

Bootstrap(s) ==
  LET definition == AddDefinition(definitions, Manifest.definition)
      capability == AddCapability(capabilities, Manifest.capability)
      policy == AddPolicy(policies, Manifest.policy)
  IN  /\ sess[s].phase = "idle"
      /\ IF Stored(definition) /\ Stored(capability) /\ Stored(policy)
         THEN definitions' = definition /\ capabilities' = capability /\ policies' = policy
         ELSE UNCHANGED <<definitions, capabilities, policies>>
      /\ Ends(s)
      /\ UNCHANGED <<licenses, health, requests, plans, runs, attempts, lineage, checkpoint,
                     audits, now, granted, advances>>

Register(s) ==
  /\ sess[s].phase = "idle"
  /\ definitions # {}
  /\ \/ \E row \in Registrations :
          LET policy == AddPolicy(policies, row)
          IN  /\ policies' = IF Stored(policy) THEN policy ELSE policies
              /\ UNCHANGED licenses
     \/ \E row \in LicenseRows :
          LET license == AddLicensePolicy(licenses, row)
          IN  /\ licenses' = IF Stored(license) THEN license ELSE licenses
              /\ UNCHANGED policies
  /\ Ends(s)
  /\ UNCHANGED <<definitions, capabilities, health, requests, plans, runs, attempts,
                 lineage, checkpoint, audits, now, granted, advances>>

AddHealthSnapshot(s) ==
  LET definition == GetDefinition(definitions)
      capability == GetCapability(capabilities, Manifest.capability.capability_version)
  IN  /\ sess[s].phase = "idle"
      /\ definition # NoRow /\ capability # NoRow
      /\ \E policy \in policies, license \in licenses,
            context \in HealthContexts :
           LET use == [uses |-> {"acquisition"}, network |-> FALSE, retention_days |-> NoRow]
               configuration == ConfigurationDecision(
                   ConfigurationGate(definition, capability, policy, license, use))
           IN  health' = health \cup
                 {HealthSnapshot(definition, capability, license, configuration,
                                 context, now)}
      /\ Ends(s)
      /\ UNCHANGED <<definitions, capabilities, policies, licenses, requests, plans, runs,
                     attempts, lineage, checkpoint, audits, now, granted, advances>>

---------------------------------------------------------------------------
(* Commands that leave only an audit event. *)

ControlAudit(s) ==
  /\ sess[s].phase = "idle"
  /\ definitions # {}
  /\ \/ \E status \in {"PASS", "BLOCKED"} : Audit(NoRow, "CREDENTIAL_METADATA_CHECK", status)
     \/ capabilities # {} /\ Audit(NoRow, "LIVE_CHECK_REFUSED", "NOT_ATTEMPTED")
     \/ Audit(NoRow, "DEAD_LETTER_REPAIR", "BLOCKED")
  /\ Ends(s)
  /\ UNCHANGED <<governance, requests, plans, runs, attempts, lineage, checkpoint, now,
                 granted, advances>>

(* sync-plan and sync-run up to their lookups.  Without the definition or  *)
(* the capability the command writes nothing; with a gate failure it       *)
(* writes its audit event and no request.                                  *)
BeginOffline(s, op, r) ==
  LET definition == GetDefinition(definitions)
      capability == GetCapability(capabilities, Manifest.capability.capability_version)
      policy == GetPolicy(policies, r.policy)
      license == GetLicensePolicy(licenses, r.license)
      plan == PlanOf(r, OfflinePlan)
  IN  /\ sess[s].phase = "idle"
      /\ ValidSyncCommand(r)
      /\ IF definition = NoRow \/ capability = NoRow
         THEN Ends(s) /\ UNCHANGED audits
         ELSE IF OfflineGateFailures(definition, capability, policy, license) # {}
         THEN Ends(s) /\ Audit(NoRow, op, "BLOCKED")
         ELSE /\ sess' = [sess EXCEPT ![s] = [Idle EXCEPT
                   !.phase = "open", !.op = op, !.arg = plan, !.seen = Lookups(r, plan)]]
              /\ UNCHANGED audits
      /\ UNCHANGED <<governance, requests, plans, runs, attempts, lineage, checkpoint, now,
                     granted, advances>>

(* ProviderSyncService: the configured gates, then the lookups.  The       *)
(* adapter's draft is checked when it is made.                             *)
ServiceGates(r) ==
  LET definition == GetDefinition(definitions)
      capability == GetCapability(capabilities, Manifest.capability.capability_version)
      policy == GetPolicy(policies, r.policy)
      license == GetLicensePolicy(licenses, r.license)
  IN  /\ definition # NoRow /\ policy # NoRow /\ license # NoRow
      /\ CapabilityGate(definition, capability) = {}
      /\ SourceLicenseGate(license, r.use, now) = {}
      /\ PolicyGate(policy, r.budget, r.use) = {}
      /\ ConfigurationGate(definition, capability, policy, license, r.use) = {}

BeginService(s, op, r) ==
  /\ sess[s].phase = "idle"
  /\ IF ValidRequest(r) /\ ServiceGates(r)
     THEN \E draft \in Drafts :
            IF ValidDag(draft)
            THEN sess' = [sess EXCEPT ![s] = [Idle EXCEPT
                   !.phase = "open", !.op = op, !.arg = PlanOf(r, draft),
                   !.seen = Lookups(r, PlanOf(r, draft))]]
            ELSE Ends(s)
     ELSE Ends(s)
  /\ UNCHANGED <<governance, requests, plans, runs, attempts, lineage, checkpoint, audits,
                 now, granted, advances>>

---------------------------------------------------------------------------
(* The writes of a command, in one transaction. *)

(* create_request, add_plan and create_run: what was found is reused. *)
Persisted(plan) ==
  /\ AcceptsRequest(plan.request) /\ requests' = requests \cup {plan.request}
  /\ AcceptsPlan(plan) /\ plans' = plans \cup {plan}

CommitPlan(s) ==
  LET plan == sess[s].arg
  IN  /\ sess[s].phase = "open"
      /\ sess[s].op \in {"SYNC_PLAN", "SERVICE_PLAN"}
      /\ Inserts(sess[s].seen, plan.request, plan, FALSE)
      /\ Persisted(plan)
      /\ IF sess[s].op = "SYNC_PLAN" THEN Audit(NoRow, "SYNC_PLAN", "PLANNED")
         ELSE UNCHANGED audits
      /\ Ends(s)
      /\ UNCHANGED <<governance, runs, attempts, lineage, checkpoint, now, granted, advances>>

(* sync-run blocks the run it has created or found; a run that has ended   *)
(* makes it raise, and nothing is written.                                 *)
CommitOfflineRun(s) ==
  LET plan == sess[s].arg
      run == IF RunOf(plan) = {} THEN NewRun(plan) ELSE GetRun(plan)
      blocked == [NewRun(plan) EXCEPT !.status = "BLOCKED", !.completed_at = now]
  IN  /\ sess[s].phase = "open"
      /\ sess[s].op = "SYNC_RUN"
      /\ Inserts(sess[s].seen, plan.request, plan, TRUE)
      /\ CanTransition(run, blocked)
      /\ Persisted(plan)
      /\ Transition(run, blocked)
      /\ Audit(plan, "SYNC_RUN", "BLOCKED")
      /\ Ends(s)
      /\ UNCHANGED <<governance, attempts, lineage, checkpoint, now, granted, advances>>

CommitServiceRun(s) ==
  LET plan == sess[s].arg
  IN  /\ sess[s].phase = "open"
      /\ sess[s].op = "SERVICE_RUN"
      /\ Inserts(sess[s].seen, plan.request, plan, TRUE)
      /\ Persisted(plan)
      /\ runs' = IF RunOf(plan) = {} THEN runs \cup {NewRun(plan)} ELSE runs
      /\ sess' = [sess EXCEPT ![s] = [Idle EXCEPT !.phase = "queue", !.arg = plan]]
      /\ UNCHANGED <<governance, attempts, lineage, checkpoint, audits, now, granted, advances>>

(* A unique constraint, or the end of the run, refuses the transaction; or *)
(* the process dies with its transaction open, or between two steps of its *)
(* execution.                                                              *)
Abort(s) ==
  /\ sess[s].phase \notin {"idle", "done"}
  /\ Ends(s)
  /\ UNCHANGED <<governance, requests, plans, runs, attempts, lineage, checkpoint, audits,
                 now, granted, advances>>

(* sync-pause, sync-resume and sync-cancel: get_run with the row lock, the *)
(* context the operator names against the row's, the state machine, and    *)
(* the new values, which keep what has been consumed.                      *)
ControlTarget ==
  [SYNC_PAUSE |-> "PAUSED", SYNC_RESUME |-> "RUNNING", SYNC_CANCEL |-> "CANCELLED"]

\* Mutant: a control command writes the run as if it were new.
ChangedRunFromNew(run, target) ==
  [NewRun(run.plan) EXCEPT !.status = target, !.started_at = run.started_at,
     !.completed_at = IF target = "CANCELLED" THEN now ELSE NoRow]

ChangedRun(run, target) ==
  [run EXCEPT !.status = target,
              !.paused_at = IF target = "PAUSED" THEN now ELSE NoRow,
              !.completed_at = IF target = "CANCELLED" THEN now ELSE run.completed_at,
              !.lease_owner = IF target = "PAUSED" THEN NoRow ELSE run.lease_owner]

ChangeRunState(s, op, run, request) ==
  LET changed == ChangedRun(run, ControlTarget[op])
  IN  /\ sess[s].phase = "idle"
      /\ IF run.request = request /\ CanTransition(run, changed)
         THEN Transition(run, changed) /\ Audit(run.plan, op, changed.status)
         ELSE UNCHANGED <<runs, audits>>
      /\ Ends(s)
      /\ UNCHANGED <<governance, requests, plans, attempts, lineage, checkpoint, now,
                     granted, advances>>

---------------------------------------------------------------------------
(* The executor of a run. *)

Goes(s, phase) == sess' = [sess EXCEPT ![s].phase = phase]

CurrentSlice(s) == sess[s].arg.slices[sess[s].slice].id

QueueRun(s) ==
  LET run == GetRun(sess[s].arg)
      queued == [run EXCEPT !.status = "QUEUED"]
  IN  /\ sess[s].phase = "queue"
      /\ IF CanTransition(run, queued) THEN Transition(run, queued) /\ Goes(s, "start")
         ELSE UNCHANGED runs /\ Ends(s)
      /\ UNCHANGED <<governance, requests, plans, attempts, lineage, checkpoint, audits,
                     now, granted, advances>>

AttemptsOf(plan, i) == {a \in attempts : a.run = plan /\ a.slice = plan.slices[i].id}

(* The executor takes a slice and numbers its attempt after the attempts   *)
(* it finds: an executor that starts again after a crash makes the second. *)
StartRun(s) ==
  LET run == GetRun(sess[s].arg)
      started == [run EXCEPT !.status = "RUNNING", !.lease_owner = s,
                    !.started_at = IF @ = NoRow THEN now ELSE @, !.paused_at = NoRow]
  IN  /\ sess[s].phase = "start"
      /\ IF CanTransition(run, started)
         THEN /\ Transition(run, started)
              /\ \E i \in DOMAIN run.plan.slices :
                   sess' = [sess EXCEPT ![s].phase = "budget", ![s].slice = i,
                              ![s].number = 1 + Cardinality(AttemptsOf(run.plan, i))]
         ELSE UNCHANGED runs /\ Ends(s)
      /\ UNCHANGED <<governance, requests, plans, attempts, lineage, checkpoint, audits,
                     now, granted, advances>>

(* ProviderCacheService.get: an entry that has not expired answers the     *)
(* slice without a request.                                                *)
CacheHits(plan, slice) ==
  {e \in cache : /\ e.artifact.slice = slice
                 /\ e.artifact.run.request.license = plan.request.license
                 /\ e.expires_at > now}

ReadCache(s) ==
  /\ sess[s].phase = "budget"
  /\ CacheHits(sess[s].arg, CurrentSlice(s)) # {}
  /\ Goes(s, "read")
  /\ UNCHANGED <<governance, requests, plans, runs, attempts, lineage, checkpoint, audits,
                 now, granted, advances>>

(* PostgresProviderBudgetStore.reserve, under the lock of the run's row. *)
BudgetAllows(run, bytes) ==
  LET budget == run.request.budget
  IN  /\ run.status = "RUNNING"
      /\ now - run.started_at < budget.max_duration_seconds
      /\ run.consumed_requests + 1 <= budget.max_requests
      /\ run.consumed_bytes + bytes <= budget.max_bytes
      /\ run.consumed_attempts + 1 <= budget.max_attempts

Consume(run, bytes) ==
  [run EXCEPT !.consumed_requests = @ + 1, !.consumed_bytes = @ + bytes,
              !.consumed_attempts = @ + 1]

ReserveBudget(s) ==
  LET run == GetRun(sess[s].arg)
  IN  /\ sess[s].phase = "budget"
      /\ CacheHits(sess[s].arg, CurrentSlice(s)) = {}
      /\ run.status = "RUNNING" => run.started_at # NoRow
      /\ \E response \in Responses :
           IF BudgetAllows(run, response.bytes)
           THEN /\ Transition(run, Consume(run, response.bytes))
                /\ granted' = [granted EXCEPT ![run.plan] =
                     [requests |-> @.requests + 1, bytes |-> @.bytes + response.bytes]]
                /\ sess' = [sess EXCEPT ![s].phase = "attempt", ![s].resp = response]
           ELSE UNCHANGED <<runs, granted>> /\ Ends(s)
      /\ UNCHANGED <<governance, requests, plans, attempts, lineage, checkpoint, audits,
                     now, advances>>

AttemptReserved(s) ==
  \E a \in AttemptsOf(sess[s].arg, sess[s].slice) : a.attempt_number = sess[s].number

(* reserve_attempt: another attempt of this number is a conflict. *)
ReserveAttempt(s) ==
  LET plan == sess[s].arg
  IN  /\ sess[s].phase = "attempt"
      /\ LET attempt == [id |-> <<s, sess[s].slice>>, run |-> plan, slice |-> CurrentSlice(s),
                         attempt_number |-> sess[s].number, status |-> "PENDING",
                         response_bytes |-> 0]
         IN  IF AttemptReserved(s)
             THEN UNCHANGED attempts /\ Ends(s)
             ELSE attempts' = attempts \cup {attempt} /\ Goes(s, "settle")
      /\ UNCHANGED <<governance, requests, plans, runs, lineage, checkpoint, audits, now,
                     granted, advances>>

(* settle_attempt, of an attempt nobody else can settle: its identifier is *)
(* the session's own.  A status the table refuses leaves it PENDING.       *)
SettleAttempt(s) ==
  LET attempt == CHOOSE a \in attempts : a.id = <<s, sess[s].slice>>
  IN  /\ sess[s].phase = "settle"
      /\ \E status \in {"COMPLETED", "PARTIAL", "FAILED"} :
           LET settled == [attempt EXCEPT !.status = status,
                                          !.response_bytes = sess[s].resp.bytes]
           IN  IF AcceptsAttempt(settled)
               THEN /\ attempts' = (attempts \ {attempt}) \cup {settled}
                    /\ sess' = [sess EXCEPT ![s].op = status, ![s].phase =
                                  IF status = "COMPLETED" THEN "store" ELSE "finish"]
               ELSE UNCHANGED attempts /\ Ends(s)
      /\ UNCHANGED <<governance, requests, plans, runs, lineage, checkpoint, audits, now,
                     granted, advances>>

(* build_ingestion_manifest refuses an artifact of another lineage and one *)
(* published after the time of the research.                               *)
ManifestAllowed(artifact, plan, attempt) ==
  /\ artifact.run = plan /\ artifact.attempt = attempt
  /\ artifact.source_published_at # NoRow =>
       artifact.source_published_at <= plan.request.research_as_of_time

IngestionManifest(artifact, response) ==
  [artifact |-> artifact, record_count |-> response.records,
   warning |-> artifact.source_published_at = NoRow]

(* add_artifact and add_manifest in one transaction.  The same source with *)
(* the same checksum is a conflict when anything else about it differs,    *)
(* and the attempt always does.                                            *)
StoreArtifact(s) ==
  LET resp == sess[s].resp
      artifact == [run |-> sess[s].arg, attempt |-> <<s, sess[s].slice>>,
                   slice |-> CurrentSlice(s), source_checksum |-> resp.checksum,
                   byte_count |-> resp.bytes, source_published_at |-> resp.published]
      known == {a \in artifacts : /\ a.slice = artifact.slice
                                  /\ a.source_checksum = artifact.source_checksum}
  IN  /\ sess[s].phase = "store"
      /\ IF /\ known \subseteq {artifact}
            /\ AcceptsArtifact(artifact)
            /\ ManifestAllowed(artifact, sess[s].arg, <<s, sess[s].slice>>)
         THEN /\ artifacts' = artifacts \cup {artifact}
              /\ manifests' = manifests \cup {IngestionManifest(artifact, resp)}
              /\ Goes(s, "quality")
         ELSE UNCHANGED <<artifacts, manifests>> /\ Ends(s)
      /\ UNCHANGED <<governance, requests, plans, runs, attempts, issues, deadLetters,
                     cache, checkpoint, audits, now, granted, advances>>

(* ProviderDataQualityValidator.validate: the rules the batch breaks.  A   *)
(* record that breaks one is an issue and, where the licence lets rejected *)
(* records be kept, a dead letter.                                         *)
BrokenRules(response, plan) ==
  response.defects
    \cup (IF /\ response.published # NoRow
             /\ response.published > plan.request.research_as_of_time
          THEN {"TEMPORAL"} ELSE {})

LicenseAllows(plan, use) ==
  LET license == GetLicensePolicy(licenses, plan.request.license)
  IN  license # NoRow /\ license.permissions[use] = "ALLOWED"

CheckQuality(s) ==
  LET manifest == CHOOSE m \in manifests : m.artifact.attempt = <<s, sess[s].slice>>
      rules == BrokenRules(sess[s].resp, sess[s].arg)
  IN  /\ sess[s].phase = "quality"
      /\ issues' = issues \cup
           {[manifest |-> manifest, rule |-> rule, status |-> "OPEN"] : rule \in rules}
      /\ deadLetters' = IF rules # {} /\ LicenseAllows(sess[s].arg, "raw_storage")
                        THEN deadLetters \cup {[manifest |-> manifest, status |-> "OPEN"]}
                        ELSE deadLetters
      /\ sess' = [sess EXCEPT ![s].phase = IF rules = {} THEN "cache" ELSE "read",
                              ![s].resp = NoRow]
      /\ UNCHANGED <<governance, requests, plans, runs, attempts, artifacts, manifests,
                     cache, checkpoint, audits, now, granted, advances>>

(* ProviderCacheService.put and the upsert of the PostgreSQL store: one    *)
(* entry per key, and its artifact must be of the key's licence.           *)
PutCache(s) ==
  LET plan == sess[s].arg
      policy == GetPolicy(policies, plan.request.policy)
      artifact == CHOOSE a \in artifacts : a.attempt = <<s, sess[s].slice>>
      entry == [artifact |-> artifact, expires_at |-> now + policy.cache_ttl_seconds]
  IN  /\ sess[s].phase = "cache"
      /\ IF /\ LicenseAllows(plan, "cache")
            /\ policy.cache_ttl_seconds # NoRow
            /\ AcceptsCacheEntry(entry, now)
         THEN cache' = {e \in cache : e.artifact.slice # artifact.slice} \cup {entry}
         ELSE UNCHANGED cache
      /\ Goes(s, "read")
      /\ UNCHANGED <<governance, requests, plans, runs, attempts, artifacts, manifests,
                     issues, deadLetters, checkpoint, audits, now, granted, advances>>

(* get_checkpoint, without a lock. *)
ReadCheckpoint(s) ==
  /\ sess[s].phase = "read"
  /\ sess' = [sess EXCEPT ![s].phase = "advance", ![s].base = checkpoint, ![s].op = "COMPLETED"]
  /\ UNCHANGED <<governance, requests, plans, runs, attempts, lineage, checkpoint, audits,
                 now, granted, advances>>

(* compare_and_swap_checkpoint.  A session that read no row and one that   *)
(* read revision 0 both expect revision 0.                                 *)
ExpectedRevision(base) == IF base = NoRow THEN 0 ELSE base.revision

\* Mutant: the stored revision is not compared.
CanAdvanceAnyway(expected, row) == row = NoRow => expected = 0

CanAdvance(expected, row) ==
  IF row = NoRow THEN expected = 0 ELSE row.revision = expected

AdvancedCheckpoint(s) ==
  [watermark |-> s, revision |-> IF checkpoint = NoRow THEN 0 ELSE checkpoint.revision + 1]

AllSlicesStored(plan) ==
  \A i \in DOMAIN plan.slices :
    \E a \in artifacts : a.run = plan /\ a.slice = plan.slices[i].id

AdvanceCheckpoint(s) ==
  /\ sess[s].phase = "advance"
  /\ IF CanAdvance(ExpectedRevision(sess[s].base), checkpoint)
     THEN /\ checkpoint' = AdvancedCheckpoint(s)
          /\ checkpoint # NoRow => GuardCheckpoint(checkpoint, checkpoint')
          /\ advances' = Append(advances, [read |-> sess[s].base, replaced |-> checkpoint])
          /\ IF AllSlicesStored(sess[s].arg) THEN Goes(s, "finish") ELSE Ends(s)
     ELSE UNCHANGED <<checkpoint, advances>> /\ Ends(s)
  /\ UNCHANGED <<governance, requests, plans, runs, attempts, lineage, audits, now, granted>>

FinishRun(s) ==
  LET run == GetRun(sess[s].arg)
  IN  /\ sess[s].phase = "finish"
      /\ LET finished == [run EXCEPT !.status = sess[s].op, !.completed_at = now,
                                     !.lease_owner = NoRow]
         IN  IF CanTransition(run, finished) THEN Transition(run, finished)
             ELSE UNCHANGED runs
      /\ Ends(s)
      /\ UNCHANGED <<governance, requests, plans, attempts, lineage, checkpoint, audits,
                     now, granted, advances>>

---------------------------------------------------------------------------

Command(s) ==
  \/ Bootstrap(s) \/ Register(s) \/ AddHealthSnapshot(s) \/ ControlAudit(s)
  \/ \E r \in Requests :
       \/ \E op \in {"SYNC_PLAN", "SYNC_RUN"} : BeginOffline(s, op, r)
       \/ \E op \in {"SERVICE_PLAN", "SERVICE_RUN"} : BeginService(s, op, r)
  \/ CommitPlan(s) \/ CommitOfflineRun(s) \/ CommitServiceRun(s)
  \/ \E op \in DOMAIN ControlTarget, run \in runs, r \in Requests :
       ChangeRunState(s, op, run, r)

Execute(s) ==
  \/ QueueRun(s) \/ StartRun(s) \/ ReadCache(s) \/ ReserveBudget(s) \/ ReserveAttempt(s)
  \/ SettleAttempt(s) \/ StoreArtifact(s) \/ CheckQuality(s) \/ PutCache(s)
  \/ ReadCheckpoint(s) \/ AdvanceCheckpoint(s) \/ FinishRun(s)

Next ==
  \/ Tick
  \/ \E s \in Sessions : Command(s) \/ Execute(s) \/ Abort(s)

Spec == Init /\ [][Next]_vars

---------------------------------------------------------------------------
(* Properties *)

(* Type correctness of the tables: every row is one the table declares,    *)
(* and every unique constraint holds.                                      *)
TypeOK ==
  /\ definitions \subseteq ProviderDefinition /\ capabilities \subseteq ProviderCapability
  /\ policies \subseteq ProviderPolicy /\ licenses \subseteq ProviderLicensePolicy
  /\ health \subseteq ProviderHealthSnapshot
  /\ requests \subseteq ProviderSyncRequest /\ plans \subseteq ProviderSyncPlan
  /\ runs \subseteq ProviderSyncRun /\ \A r1, r2 \in runs : r1.plan = r2.plan => r1 = r2
  /\ attempts \subseteq ProviderRequestAttempt
  /\ \A a1, a2 \in attempts :
       <<a1.run, a1.slice, a1.attempt_number>> = <<a2.run, a2.slice, a2.attempt_number>>
         => a1 = a2
  /\ artifacts \subseteq ProviderRawArtifact
  /\ manifests \subseteq ProviderIngestionManifest
  /\ issues \subseteq ProviderDataQualityIssue /\ deadLetters \subseteq ProviderDeadLetter
  /\ cache \subseteq ProviderCacheEntry
  /\ checkpoint \in Optional(ProviderSyncCheckpoint)
  /\ audits \subseteq ProviderAuditEvent
  /\ now \in Times

(* The budget ledger is exact: what a run's row says was consumed is what  *)
(* was granted to its executors, whatever pauses, resumes, cancellations,  *)
(* second executors and crashes came in between, and never more than the   *)
(* request allows.                                                         *)
BudgetLedgerExact ==
  \A run \in runs :
    /\ run.consumed_requests = granted[run.plan].requests
    /\ run.consumed_attempts = granted[run.plan].requests
    /\ run.consumed_bytes = granted[run.plan].bytes
    /\ run.consumed_requests <= run.request.budget.max_requests
    /\ run.consumed_attempts <= run.request.budget.max_attempts
    /\ run.consumed_bytes <= run.request.budget.max_bytes

(* A writer that found a checkpoint replaces only what it has read, however *)
(* many executors read and write it at once.                               *)
NoLostAdvance ==
  \A i \in DOMAIN advances :
    advances[i].read # NoRow => advances[i].read = advances[i].replaced

(* "compare-and-swap version prevents lost updates": every writer replaces *)
(* only what it has read, the first ones too.                              *)
NoLostUpdate ==
  \A i \in DOMAIN advances : advances[i].read = advances[i].replaced

(* A persisted request was admitted: its licence is approved and allows    *)
(* what the request asks of it (the offline commands ask to acquire), and  *)
(* a request planned by the offline commands has a policy without network  *)
(* access, although the rows are read before the transaction that writes   *)
(* the request.                                                            *)
UsesOf(plan) == IF plan.slices = OfflinePlan THEN {"acquisition"} ELSE plan.request.use.uses

Governed(plan) ==
  LET license == GetLicensePolicy(licenses, plan.request.license)
      policy == GetPolicy(policies, plan.request.policy)
  IN  /\ license # NoRow /\ license.status = "APPROVED"
      /\ \A use \in UsesOf(plan) : license.permissions[use] = "ALLOWED"
      /\ policy # NoRow
      /\ plan.slices = OfflinePlan => ~policy.network_enabled

RequestsGoverned == \A plan \in plans : Governed(plan)
=============================================================================
