------------------------- MODULE ProviderSyncProofs -------------------------
(***************************************************************************)
(* The safety properties of ProviderSync for any number of sessions, any   *)
(* requests, plans, responses and governance rows.  A step is the step of  *)
(* one session; SessionStep says what such a step can do to the session's  *)
(* memory, and each property adds what its tables need.                    *)
(***************************************************************************)
EXTENDS ProviderSync, FiniteSetTheorems, TLAPS

OfflineOps == {"SYNC_PLAN", "SYNC_RUN"}

ServiceOps == {"SERVICE_PLAN", "SERVICE_RUN"}

\* The phases in which a session executes a run.
Executing == {"queue", "start", "budget", "attempt", "settle", "store", "quality", "cache",
              "read", "advance", "finish"}

SessionRecord ==
    [phase : {"idle", "open", "done"} \cup Executing,
     op : {"none", "COMPLETED", "PARTIAL", "FAILED"} \cup OfflineOps \cup ServiceOps,
     arg : Optional(ProviderSyncPlan),
     seen : Optional([request : BOOLEAN, plan : BOOLEAN, run : BOOLEAN]),
     base : Optional(ProviderSyncCheckpoint), resp : Optional(Responses),
     slice : Nat, number : Nat]

\* What the memory of a session says of its command.
SessionCoherent(r) ==
    /\ r.phase \in {"open"} \cup Executing => r.arg \in ProviderSyncPlan
    /\ r.phase = "open" => /\ r.op \in OfflineOps \cup ServiceOps
                           /\ r.op \in OfflineOps => r.arg.slices = OfflinePlan
                           /\ r.op \in ServiceOps => r.arg.slices \in Drafts
                           /\ r.seen \in [request : BOOLEAN, plan : BOOLEAN, run : BOOLEAN]
    /\ r.phase \in Executing => r.arg.slices \in Drafts

SessionsOK ==
    /\ sess \in [Sessions -> SessionRecord]
    /\ \A s \in Sessions : SessionCoherent(sess[s])
    /\ checkpoint \in Optional(ProviderSyncCheckpoint)
    /\ IsFiniteSet(attempts)

\* The executor keeps its plan from the commit of its command on.
Follows(old, new) ==
    /\ new.phase = "open" => old.phase = "idle"
    /\ new.phase \in Executing => /\ new.arg = old.arg
                                  /\ \/ old.phase \in Executing
                                     \/ /\ old.phase = "open" /\ old.op = "SERVICE_RUN"
                                        /\ new.phase = "queue"

\* A session whose memory becomes r.
Becomes(s, r) ==
    /\ r \in SessionRecord /\ SessionCoherent(r) /\ Follows(sess[s], r)
    /\ sess' = [sess EXCEPT ![s] = r]

\* A session that ends remembers nothing.
LEMMA EndsStep ==
    ASSUME SessionsOK, NEW s \in Sessions, Ends(s)
    PROVE  Becomes(s, [Idle EXCEPT !.phase = "done"])
BY DEF SessionsOK, Ends, Becomes, Idle, SessionRecord, SessionCoherent, Follows, Executing, Optional

\* A step of the executor that only moves on.
LEMMA GoesStep ==
    ASSUME SessionsOK, NEW s \in Sessions, NEW phase \in Executing, Goes(s, phase),
           sess[s].phase \in Executing
    PROVE  Becomes(s, [sess[s] EXCEPT !.phase = phase])
<1>1. sess[s] \in SessionRecord /\ SessionCoherent(sess[s])
    BY DEF SessionsOK
<1>2. [sess[s] EXCEPT !.phase = phase] \in SessionRecord
    BY <1>1 DEF SessionRecord
<1>3. sess' = [sess EXCEPT ![s] = [sess[s] EXCEPT !.phase = phase]]
    BY DEF Goes, SessionsOK
<1> QED
    BY <1>1, <1>2, <1>3 DEF Becomes, SessionCoherent, Follows, SessionRecord, Executing

\* A session whose memory goes to one of the phases.
Steps(s, phases) == \E r \in SessionRecord : Becomes(s, r) /\ r.phase \in phases

\* A step of a session that ends.
LEMMA EndsSteps ==
    ASSUME SessionsOK, NEW s \in Sessions, Ends(s), NEW phases, "done" \in phases
    PROVE  Steps(s, phases)
<1>1. Becomes(s, [Idle EXCEPT !.phase = "done"])
    BY EndsStep
<1>2. [Idle EXCEPT !.phase = "done"].phase = "done"
    BY DEF Idle
<1> QED
    BY <1>1, <1>2 DEF Steps, Becomes

\* A step of the executor that moves on, or ends.
LEMMA GoesSteps ==
    ASSUME SessionsOK, NEW s \in Sessions, sess[s].phase \in Executing,
           NEW phase \in Executing, Goes(s, phase) \/ Ends(s)
    PROVE  Steps(s, {phase, "done"})
<1>1. CASE Ends(s)
    BY <1>1, EndsSteps
<1>2. CASE Goes(s, phase)
  <2>1. Becomes(s, [sess[s] EXCEPT !.phase = phase])
      BY <1>2, GoesStep
  <2>2. [sess[s] EXCEPT !.phase = phase].phase = phase
      BY DEF SessionsOK, SessionRecord
  <2> QED
      BY <2>1, <2>2 DEF Steps, Becomes
<1> QED
    BY <1>1, <1>2

\* The commands that are one transaction.
LEMMA CommandStep ==
    ASSUME SessionsOK, NEW s \in Sessions,
           \/ Bootstrap(s) \/ Register(s) \/ AddHealthSnapshot(s) \/ ControlAudit(s)
           \/ CommitPlan(s) \/ CommitOfflineRun(s) \/ FinishRun(s) \/ Abort(s)
           \/ \E op \in DOMAIN ControlTarget, run \in runs, r \in Requests :
                ChangeRunState(s, op, run, r)
    PROVE  Steps(s, {"done"})
<1>1. Ends(s)
    BY DEF Bootstrap, Register, AddHealthSnapshot, ControlAudit, CommitPlan, CommitOfflineRun,
           FinishRun, Abort, ChangeRunState
<1> QED
    BY <1>1, EndsSteps

\* The lookups of a command: it opens its transaction with the plan it names.
LEMMA BeginStep ==
    ASSUME SessionsOK, NEW s \in Sessions, NEW r \in Requests, NEW draft,
           NEW op \in OfflineOps \cup ServiceOps, sess[s].phase = "idle",
           op \in OfflineOps => draft = OfflinePlan,
           op \in ServiceOps => draft \in Drafts,
           sess' = [sess EXCEPT ![s] = [Idle EXCEPT
                     !.phase = "open", !.op = op, !.arg = PlanOf(r, draft),
                     !.seen = Lookups(r, PlanOf(r, draft))]]
    PROVE  LET new == [Idle EXCEPT !.phase = "open", !.op = op, !.arg = PlanOf(r, draft),
                                   !.seen = Lookups(r, PlanOf(r, draft))]
           IN  Becomes(s, new) /\ new.phase = "open" /\ new.arg = PlanOf(r, draft)
<1> DEFINE new == [Idle EXCEPT !.phase = "open", !.op = op, !.arg = PlanOf(r, draft),
                               !.seen = Lookups(r, PlanOf(r, draft))]
<1>1. PlanOf(r, draft) \in ProviderSyncPlan
    BY DEF PlanOf, ProviderSyncPlan, OfflineOps, ServiceOps
<1>2. Lookups(r, PlanOf(r, draft)) \in [request : BOOLEAN, plan : BOOLEAN, run : BOOLEAN]
    BY DEF Lookups
<1>3. /\ new.phase = "open" /\ new.op = op /\ new.arg = PlanOf(r, draft)
      /\ new.seen = Lookups(r, PlanOf(r, draft))
    BY DEF Idle
<1>4. new \in SessionRecord
    BY <1>1, <1>2 DEF SessionRecord, Optional, Idle, Executing
<1>5. PlanOf(r, draft).slices = draft
    BY DEF PlanOf
<1>6. SessionCoherent(new) /\ new.phase = "open" /\ new.arg = PlanOf(r, draft)
    BY <1>1, <1>2, <1>3, <1>5 DEF SessionCoherent, Executing
<1> HIDE DEF new
<1>7. Follows(sess[s], new)
    BY <1>6 DEF Follows, Executing
<1> QED
    BY <1>4, <1>6, <1>7 DEF Becomes, new

LEMMA BeginOfflineStep ==
    ASSUME SessionsOK, NEW s \in Sessions, NEW op \in OfflineOps, NEW r \in Requests,
           BeginOffline(s, op, r)
    PROVE  Steps(s, {"open", "done"})
<1>1. CASE Ends(s)
    BY <1>1, EndsSteps
<1>2. CASE ~Ends(s)
  <2>1. /\ sess[s].phase = "idle"
        /\ sess' = [sess EXCEPT ![s] = [Idle EXCEPT
                      !.phase = "open", !.op = op, !.arg = PlanOf(r, OfflinePlan),
                      !.seen = Lookups(r, PlanOf(r, OfflinePlan))]]
      BY <1>2 DEF BeginOffline
  <2>2. op \notin ServiceOps
      BY DEF OfflineOps, ServiceOps
  <2> QED
      BY <2>1, <2>2, BeginStep DEF Steps, Becomes
<1> QED
    BY <1>1, <1>2

LEMMA BeginServiceStep ==
    ASSUME SessionsOK, NEW s \in Sessions, NEW op \in ServiceOps, NEW r \in Requests,
           BeginService(s, op, r)
    PROVE  Steps(s, {"open", "done"})
<1>1. CASE Ends(s)
    BY <1>1, EndsSteps
<1>2. CASE ~Ends(s)
  <2>1. sess[s].phase = "idle"
      BY DEF BeginService
  <2>2. PICK draft \in Drafts :
          sess' = [sess EXCEPT ![s] = [Idle EXCEPT
                     !.phase = "open", !.op = op, !.arg = PlanOf(r, draft),
                     !.seen = Lookups(r, PlanOf(r, draft))]]
      BY <1>2 DEF BeginService
  <2>3. op \notin OfflineOps
      BY DEF OfflineOps, ServiceOps
  <2> QED
      BY <2>1, <2>2, <2>3, BeginStep DEF Steps, Becomes
<1> QED
    BY <1>1, <1>2

\* A step of the executor that stays with its plan.
LEMMA ExecutorBecomes ==
    ASSUME SessionsOK, NEW s \in Sessions, sess[s].phase \in Executing,
           NEW r \in SessionRecord, r.phase \in Executing, r.arg = sess[s].arg,
           sess' = [sess EXCEPT ![s] = r]
    PROVE  Becomes(s, r)
BY DEF SessionsOK, Becomes, SessionCoherent, Follows, Executing

\* The commit of a service run makes the session an executor.
LEMMA CommitServiceStep ==
    ASSUME SessionsOK, NEW s \in Sessions, CommitServiceRun(s)
    PROVE  Steps(s, {"queue"}) /\ sess'[s].arg = sess[s].arg
<1> DEFINE r == [Idle EXCEPT !.phase = "queue", !.arg = sess[s].arg]
<1>1. /\ sess[s].phase = "open" /\ sess[s].op = "SERVICE_RUN"
      /\ sess' = [sess EXCEPT ![s] = r]
    BY DEF CommitServiceRun
<1>2. sess[s].arg \in ProviderSyncPlan /\ sess[s].arg.slices \in Drafts
    BY <1>1 DEF SessionsOK, SessionCoherent, ServiceOps
<1>3. r \in SessionRecord
    BY <1>2 DEF SessionRecord, Idle, Optional, Executing
<1>4. r.phase = "queue" /\ r.arg = sess[s].arg
    BY DEF Idle
<1> HIDE DEF r
<1>5. SessionCoherent(r) /\ Follows(sess[s], r)
    BY <1>1, <1>2, <1>4 DEF SessionCoherent, Follows, Executing
<1> QED
    BY <1>1, <1>3, <1>4, <1>5 DEF Steps, Becomes, SessionsOK

LEMMA MoveStep ==
    ASSUME SessionsOK, NEW s \in Sessions
    PROVE  /\ QueueRun(s) => Steps(s, {"start", "done"})
           /\ ReadCache(s) \/ PutCache(s) => Steps(s, {"read", "done"})
           /\ ReserveAttempt(s) => Steps(s, {"settle", "done"})
           /\ StoreArtifact(s) => Steps(s, {"quality", "done"})
           /\ AdvanceCheckpoint(s) => Steps(s, {"finish", "done"})
<1>1. ASSUME QueueRun(s) PROVE Steps(s, {"start", "done"})
  <2>1. sess[s].phase \in Executing /\ "start" \in Executing /\ (Goes(s, "start") \/ Ends(s))
      BY <1>1 DEF QueueRun, Executing
  <2> QED
      BY <2>1, GoesSteps
<1>2. ASSUME ReadCache(s) \/ PutCache(s) PROVE Steps(s, {"read", "done"})
  <2>1. sess[s].phase \in Executing /\ "read" \in Executing /\ (Goes(s, "read") \/ Ends(s))
      BY <1>2 DEF ReadCache, PutCache, Executing
  <2> QED
      BY <2>1, GoesSteps
<1>3. ASSUME ReserveAttempt(s) PROVE Steps(s, {"settle", "done"})
  <2>1. sess[s].phase \in Executing /\ "settle" \in Executing /\ (Goes(s, "settle") \/ Ends(s))
      BY <1>3 DEF ReserveAttempt, Executing
  <2> QED
      BY <2>1, GoesSteps
<1>4. ASSUME StoreArtifact(s) PROVE Steps(s, {"quality", "done"})
  <2>1. sess[s].phase \in Executing /\ "quality" \in Executing /\ (Goes(s, "quality") \/ Ends(s))
      BY <1>4 DEF StoreArtifact, Executing
  <2> QED
      BY <2>1, GoesSteps
<1>5. ASSUME AdvanceCheckpoint(s) PROVE Steps(s, {"finish", "done"})
  <2>1. sess[s].phase \in Executing /\ "finish" \in Executing /\ (Goes(s, "finish") \/ Ends(s))
      BY <1>5 DEF AdvanceCheckpoint, Executing
  <2> QED
      BY <2>1, GoesSteps
<1> QED
    BY <1>1, <1>2, <1>3, <1>4, <1>5

LEMMA StartStep ==
    ASSUME SessionsOK, NEW s \in Sessions, StartRun(s),
           \A plan \in ProviderSyncPlan : RunOf(plan) # {} => GetRun(plan).plan = plan,
           RunOf(sess[s].arg) # {}
    PROVE  Steps(s, {"budget", "done"})
<1>1. CASE Ends(s)
    BY <1>1, EndsSteps
<1>2. CASE ~Ends(s)
  <2>1. sess[s].phase = "start" /\ sess[s].phase \in Executing
      BY DEF StartRun, Executing
  <2>2. /\ sess[s] \in SessionRecord /\ sess[s].arg \in ProviderSyncPlan
        /\ sess[s].arg.slices \in Drafts
      BY <2>1 DEF SessionsOK, SessionCoherent
  <2>3. GetRun(sess[s].arg).plan = sess[s].arg
      BY <2>2
  <2>4. PICK i \in DOMAIN sess[s].arg.slices :
          sess' = [sess EXCEPT ![s].phase = "budget", ![s].slice = i,
                     ![s].number = 1 + Cardinality(AttemptsOf(sess[s].arg, i))]
      BY <1>2, <2>3 DEF StartRun
  <2>5. i \in Nat
      BY <2>2, DraftsAssumption
  <2>6. Cardinality(AttemptsOf(sess[s].arg, i)) \in Nat
    <3>1. IsFiniteSet(AttemptsOf(sess[s].arg, i))
        BY FS_Subset DEF SessionsOK, AttemptsOf
    <3> QED
        BY <3>1, FS_CardinalityType
  <2> DEFINE number == 1 + Cardinality(AttemptsOf(sess[s].arg, i))
             r == [sess[s] EXCEPT !.phase = "budget", !.slice = i, !.number = number]
  <2>7. number \in Nat
      BY <2>6
  <2>8. sess' = [sess EXCEPT ![s].phase = "budget", ![s].slice = i, ![s].number = number]
      BY <2>4
  <2> HIDE DEF number
  <2>9. sess' = [sess EXCEPT ![s] = r]
      BY <2>8, <2>2 DEF SessionsOK
  <2>10. r \in SessionRecord /\ r.phase = "budget" /\ r.arg = sess[s].arg
      BY <2>2, <2>5, <2>7 DEF SessionRecord, Executing
  <2> HIDE DEF r
  <2>11. Becomes(s, r)
      BY <2>1, <2>9, <2>10, ExecutorBecomes DEF Executing
  <2> QED
      BY <2>10, <2>11 DEF Steps
<1> QED
    BY <1>1, <1>2

LEMMA ReserveBudgetStep ==
    ASSUME SessionsOK, NEW s \in Sessions, ReserveBudget(s)
    PROVE  Steps(s, {"attempt", "done"})
<1>1. CASE Ends(s)
    BY <1>1, EndsSteps
<1>2. CASE ~Ends(s)
  <2>1. sess[s].phase \in Executing /\ sess[s] \in SessionRecord
      BY DEF ReserveBudget, Executing, SessionsOK
  <2>2. PICK response \in Responses :
          sess' = [sess EXCEPT ![s].phase = "attempt", ![s].resp = response]
      BY <1>2 DEF ReserveBudget
  <2> DEFINE r == [sess[s] EXCEPT !.phase = "attempt", !.resp = response]
  <2>3. sess' = [sess EXCEPT ![s] = r]
      BY <2>2, <2>1 DEF SessionsOK
  <2>4. r \in SessionRecord /\ r.phase = "attempt" /\ r.arg = sess[s].arg
      BY <2>1 DEF SessionRecord, Executing, Optional
  <2> HIDE DEF r
  <2>5. Becomes(s, r)
      BY <2>1, <2>3, <2>4, ExecutorBecomes DEF Executing
  <2> QED
      BY <2>4, <2>5 DEF Steps
<1> QED
    BY <1>1, <1>2

LEMMA SettleStep ==
    ASSUME SessionsOK, NEW s \in Sessions, SettleAttempt(s)
    PROVE  Steps(s, {"store", "finish", "done"})
<1>1. CASE Ends(s)
    BY <1>1, EndsSteps
<1>2. CASE ~Ends(s)
  <2>1. sess[s].phase \in Executing /\ sess[s] \in SessionRecord
      BY DEF SettleAttempt, Executing, SessionsOK
  <2>2. PICK status \in {"COMPLETED", "PARTIAL", "FAILED"} :
          sess' = [sess EXCEPT ![s].op = status, ![s].phase =
                     IF status = "COMPLETED" THEN "store" ELSE "finish"]
      BY <1>2 DEF SettleAttempt
  <2>3. PICK phase \in {"store", "finish"} :
          sess' = [sess EXCEPT ![s].op = status, ![s].phase = phase]
      BY <2>2
  <2> DEFINE r == [sess[s] EXCEPT !.op = status, !.phase = phase]
  <2>4. sess' = [sess EXCEPT ![s] = r]
      BY <2>3, <2>1 DEF SessionsOK
  <2>5. r \in SessionRecord /\ r.phase = phase /\ r.arg = sess[s].arg
      BY <2>1 DEF SessionRecord, Executing
  <2> HIDE DEF r
  <2>6. Becomes(s, r)
      BY <2>1, <2>4, <2>5, ExecutorBecomes DEF Executing
  <2> QED
      BY <2>5, <2>6 DEF Steps
<1> QED
    BY <1>1, <1>2

LEMMA CheckQualityStep ==
    ASSUME SessionsOK, NEW s \in Sessions, CheckQuality(s)
    PROVE  Steps(s, {"cache", "read"})
<1>1. sess[s].phase \in Executing /\ sess[s] \in SessionRecord
    BY DEF CheckQuality, Executing, SessionsOK
<1>2. PICK phase \in {"cache", "read"} :
        sess' = [sess EXCEPT ![s].phase = phase, ![s].resp = NoRow]
    BY DEF CheckQuality
<1> DEFINE r == [sess[s] EXCEPT !.phase = phase, !.resp = NoRow]
<1>3. sess' = [sess EXCEPT ![s] = r]
    BY <1>2, <1>1 DEF SessionsOK
<1>4. r \in SessionRecord /\ r.phase = phase /\ r.arg = sess[s].arg
    BY <1>1 DEF SessionRecord, Executing, Optional
<1> HIDE DEF r
<1>5. Becomes(s, r)
    BY <1>1, <1>3, <1>4, ExecutorBecomes DEF Executing
<1> QED
    BY <1>4, <1>5 DEF Steps

\* The executor remembers the checkpoint it reads.
LEMMA ReadCheckpointStep ==
    ASSUME SessionsOK, NEW s \in Sessions, ReadCheckpoint(s)
    PROVE  Steps(s, {"advance"}) /\ sess'[s].base = checkpoint
<1> DEFINE r == [sess[s] EXCEPT !.phase = "advance", !.base = checkpoint, !.op = "COMPLETED"]
<1>1. /\ sess[s].phase \in Executing /\ sess[s] \in SessionRecord
      /\ checkpoint \in Optional(ProviderSyncCheckpoint)
    BY DEF ReadCheckpoint, Executing, SessionsOK
<1>2. sess' = [sess EXCEPT ![s] = r]
    BY <1>1 DEF SessionsOK, ReadCheckpoint
<1>3. r \in SessionRecord /\ r.phase = "advance" /\ r.arg = sess[s].arg /\ r.base = checkpoint
    BY <1>1 DEF SessionRecord, Executing
<1> HIDE DEF r
<1>4. Becomes(s, r)
    BY <1>1, <1>2, <1>3, ExecutorBecomes DEF Executing
<1> QED
    BY <1>2, <1>3, <1>4 DEF Steps, SessionsOK

---------------------------------------------------------------------------
(* The budget ledger. *)

\* Runs are rows of their table, one per plan, and of the plan's request.
RunsOK ==
    /\ runs \subseteq ProviderSyncRun /\ now \in Times
    /\ \A r1, r2 \in runs : r1.plan = r2.plan => r1 = r2
    /\ \A run \in runs : run.request = run.plan.request

\* An executor has a run; nothing is granted without one, nor to the plan of an
\* offline command, whose runs are blocked when they are made.
GrantsOK ==
    /\ granted \in [ProviderSyncPlan -> [requests : Nat, bytes : Nat]]
    /\ \A s \in Sessions : sess[s].phase \in Executing => RunOf(sess[s].arg) # {}
    /\ \A plan \in ProviderSyncPlan :
         RunOf(plan) = {} \/ plan.slices = OfflinePlan => granted[plan] = NothingGranted

LedgerInv == SessionsOK /\ RunsOK /\ GrantsOK /\ BudgetLedgerExact

\* The run that is found is the run of the plan.
LEMMA RunFound ==
    ASSUME NEW plan, RunOf(plan) # {}
    PROVE  GetRun(plan) \in runs /\ GetRun(plan).plan = plan
BY DEF RunOf, GetRun, TheRow

\* A new value of a run that the state machine allows has a status.
LEMMA TransitionStatus ==
    ASSUME NEW old, NEW new, old.status \in RunStatus, CanTransition(old, new)
    PROVE  new.status \in RunStatus
BY DEF CanTransition, GuardSyncRun, RunStatus, TerminalRun

\* Replacing a run by another value of it keeps the table, and which plans have a run.
LEMMA ReplaceRun ==
    ASSUME RunsOK, NEW old \in runs, NEW new \in ProviderSyncRun,
           new.plan = old.plan, new.request = old.request, Transition(old, new), now' = now
    PROVE  /\ RunsOK'
           /\ \A plan : (RunOf(plan))' = {} <=> RunOf(plan) = {}
<1>1. runs' = (runs \ {old}) \cup {new}
    BY DEF Transition
<1>2. RunsOK'
    BY <1>1 DEF RunsOK
<1>3. ASSUME NEW plan PROVE (RunOf(plan))' = {} <=> RunOf(plan) = {}
    BY <1>1 DEF RunOf
<1> QED
    BY <1>2, <1>3

\* A new value that keeps what was consumed keeps the ledger.
LEMMA ReplaceKeepsLedger ==
    ASSUME RunsOK, BudgetLedgerExact, NEW old \in runs, NEW new \in ProviderSyncRun,
           new.plan = old.plan, new.request = old.request, Transition(old, new),
           new.consumed_requests = old.consumed_requests,
           new.consumed_attempts = old.consumed_attempts,
           new.consumed_bytes = old.consumed_bytes, UNCHANGED granted
    PROVE  BudgetLedgerExact'
<1>1. runs' = (runs \ {old}) \cup {new}
    BY DEF Transition
<1> QED
    BY <1>1 DEF BudgetLedgerExact

\* Sessions that follow their plans and a table that loses no plan keep the grants.
LEMMA GrantsKept ==
    ASSUME SessionsOK, GrantsOK, NEW s \in Sessions, NEW r, Becomes(s, r), UNCHANGED granted,
           r.phase \in Executing => (RunOf(r.arg))' # {},
           \A plan : (RunOf(plan))' = {} => RunOf(plan) = {}
    PROVE  GrantsOK'
<1>1. granted' \in [ProviderSyncPlan -> [requests : Nat, bytes : Nat]]
    BY DEF GrantsOK
<1>2. ASSUME NEW t \in Sessions PROVE (sess[t].phase \in Executing => RunOf(sess[t].arg) # {})'
  <2>1. CASE t = s
    <3>1. sess'[t] = r
        BY <2>1 DEF Becomes, SessionsOK
    <3> QED
        BY <3>1 DEF RunOf
  <2>2. CASE t # s
    <3>1. sess'[t] = sess[t]
        BY <2>2 DEF Becomes, SessionsOK
    <3>2. sess[t].phase \in Executing => RunOf(sess[t].arg) # {}
        BY DEF GrantsOK
    <3> PICK plan : plan = sess[t].arg
        OBVIOUS
    <3>3. RunOf(plan) # {} => (RunOf(plan))' # {}
        OBVIOUS
    <3> QED
        BY <3>1, <3>2, <3>3 DEF RunOf
  <2> QED
      BY <2>1, <2>2
<1>3. ASSUME NEW plan \in ProviderSyncPlan, (RunOf(plan))' = {} \/ plan.slices = OfflinePlan
      PROVE  granted'[plan] = NothingGranted
    BY <1>3 DEF GrantsOK
<1> QED
    BY <1>1, <1>2, <1>3 DEF GrantsOK

\* A step of a session that leaves the runs alone keeps the ledger.
LEMMA IdleRuns ==
    ASSUME LedgerInv, NEW s \in Sessions, NEW phases, Steps(s, phases), phases \cap {"queue"} = {},
           UNCHANGED <<runs, granted>>, now' \in Times
    PROVE  RunsOK' /\ GrantsOK' /\ BudgetLedgerExact'
<1>1. PICK r \in SessionRecord : Becomes(s, r) /\ r.phase \in phases
    BY DEF Steps
<1>2. \A plan : (RunOf(plan))' = RunOf(plan)
    BY DEF RunOf
<1>3. r.phase \in Executing => (RunOf(r.arg))' # {}
  <2>1. r.phase \in Executing => r.arg = sess[s].arg /\ sess[s].phase \in Executing
      BY <1>1 DEF Becomes, Follows
  <2> QED
      BY <1>2, <2>1 DEF LedgerInv, GrantsOK
<1>4. GrantsOK'
    BY <1>1, <1>2, <1>3, GrantsKept DEF LedgerInv
<1> QED
    BY <1>4 DEF LedgerInv, RunsOK, BudgetLedgerExact

\* A step that writes a new value of a run and keeps what was consumed keeps the ledger.
LEMMA TransitionKeeps ==
    ASSUME LedgerInv, NEW s \in Sessions, NEW phases, Steps(s, phases), "queue" \notin phases,
           NEW old \in runs, NEW new \in ProviderSyncRun, Transition(old, new),
           new.plan = old.plan, new.request = old.request,
           new.consumed_requests = old.consumed_requests,
           new.consumed_attempts = old.consumed_attempts,
           new.consumed_bytes = old.consumed_bytes, UNCHANGED <<granted, now>>
    PROVE  RunsOK' /\ GrantsOK' /\ BudgetLedgerExact'
<1>1. PICK r \in SessionRecord : Becomes(s, r) /\ r.phase \in phases
    BY DEF Steps
<1>2. RunsOK' /\ \A plan : (RunOf(plan))' = {} <=> RunOf(plan) = {}
    BY ReplaceRun DEF LedgerInv
<1>3. BudgetLedgerExact'
    BY ReplaceKeepsLedger DEF LedgerInv
<1>4. r.phase \in Executing => (RunOf(r.arg))' # {}
  <2>1. r.phase \in Executing => r.arg = sess[s].arg /\ sess[s].phase \in Executing
      BY <1>1 DEF Becomes, Follows
  <2> QED
      BY <1>2, <2>1 DEF LedgerInv, GrantsOK
<1>5. GrantsOK'
    BY <1>1, <1>2, <1>4, GrantsKept DEF LedgerInv
<1> QED
    BY <1>2, <1>3, <1>5

\* The run of an executor.
LEMMA ExecutorRun ==
    ASSUME LedgerInv, NEW s \in Sessions, sess[s].phase \in Executing
    PROVE  /\ GetRun(sess[s].arg) \in runs /\ GetRun(sess[s].arg) \in ProviderSyncRun
           /\ GetRun(sess[s].arg).plan = sess[s].arg
BY RunFound DEF LedgerInv, GrantsOK, RunsOK

LEMMA QueueLedger ==
    ASSUME LedgerInv, NEW s \in Sessions, QueueRun(s)
    PROVE  RunsOK' /\ GrantsOK' /\ BudgetLedgerExact'
<1> DEFINE run == GetRun(sess[s].arg)
           queued == [run EXCEPT !.status = "QUEUED"]
<1>1. Steps(s, {"start", "done"}) /\ UNCHANGED <<granted, now>>
    BY MoveStep DEF LedgerInv, QueueRun
<1>2. run \in runs /\ run \in ProviderSyncRun
    BY ExecutorRun DEF QueueRun, Executing
<1>3. CASE UNCHANGED runs
    BY <1>1, <1>3, IdleRuns DEF LedgerInv, RunsOK
<1>4. CASE Transition(run, queued)
  <2> HIDE DEF run
  <2>1. queued \in ProviderSyncRun
      BY <1>2 DEF ProviderSyncRun, RunStatus
  <2>2. /\ queued.plan = run.plan /\ queued.request = run.request
        /\ queued.consumed_requests = run.consumed_requests
        /\ queued.consumed_attempts = run.consumed_attempts
        /\ queued.consumed_bytes = run.consumed_bytes
      BY <1>2 DEF ProviderSyncRun
  <2> QED
      BY <1>1, <1>2, <1>4, <2>1, <2>2, TransitionKeeps
<1> QED
    BY <1>3, <1>4 DEF QueueRun

LEMMA StartLedger ==
    ASSUME LedgerInv, NEW s \in Sessions, StartRun(s)
    PROVE  Steps(s, {"budget", "done"}) /\ RunsOK' /\ GrantsOK' /\ BudgetLedgerExact'
<1> DEFINE run == GetRun(sess[s].arg)
           started == [run EXCEPT !.status = "RUNNING", !.lease_owner = s,
                    !.started_at = IF @ = NoRow THEN now ELSE @, !.paused_at = NoRow]
<1>1. run \in runs /\ run \in ProviderSyncRun
    BY ExecutorRun DEF StartRun, Executing
<1>2. Steps(s, {"budget", "done"}) /\ UNCHANGED <<granted, now>>
    BY StartStep, RunFound DEF LedgerInv, StartRun, GrantsOK, Executing
<1>3. CASE UNCHANGED runs
    BY <1>2, <1>3, IdleRuns DEF LedgerInv, RunsOK
<1>4. CASE Transition(run, started)
  <2> HIDE DEF run
  <2>1. started \in ProviderSyncRun
      BY <1>1 DEF ProviderSyncRun, RunStatus, Optional, LedgerInv, RunsOK
  <2>2. /\ started.plan = run.plan /\ started.request = run.request
        /\ started.consumed_requests = run.consumed_requests
        /\ started.consumed_attempts = run.consumed_attempts
        /\ started.consumed_bytes = run.consumed_bytes
      BY <1>1 DEF ProviderSyncRun
  <2> QED
      BY <1>1, <1>2, <1>4, <2>1, <2>2, TransitionKeeps
<1> QED
    BY <1>2, <1>3, <1>4 DEF StartRun

LEMMA FinishLedger ==
    ASSUME LedgerInv, NEW s \in Sessions, FinishRun(s)
    PROVE  RunsOK' /\ GrantsOK' /\ BudgetLedgerExact'
<1> DEFINE run == GetRun(sess[s].arg)
           finished == [run EXCEPT !.status = sess[s].op, !.completed_at = now,
                                   !.lease_owner = NoRow]
<1>1. run \in runs /\ run \in ProviderSyncRun
    BY ExecutorRun DEF FinishRun, Executing
<1>2. Steps(s, {"done"}) /\ UNCHANGED <<granted, now>>
    BY CommandStep DEF LedgerInv, FinishRun
<1>3. CASE UNCHANGED runs
    BY <1>2, <1>3, IdleRuns DEF LedgerInv, RunsOK
<1>4. CASE CanTransition(run, finished) /\ Transition(run, finished)
  <2> HIDE DEF run
  <2>1. finished.status \in RunStatus
      BY <1>1, <1>4, TransitionStatus DEF ProviderSyncRun
  <2>2. sess[s].op \in RunStatus
      BY <1>1, <2>1 DEF ProviderSyncRun
  <2>3. finished \in ProviderSyncRun
      BY <1>1, <2>2 DEF ProviderSyncRun, Optional, LedgerInv, RunsOK
  <2>4. /\ finished.plan = run.plan /\ finished.request = run.request
        /\ finished.consumed_requests = run.consumed_requests
        /\ finished.consumed_attempts = run.consumed_attempts
        /\ finished.consumed_bytes = run.consumed_bytes
      BY <1>1 DEF ProviderSyncRun
  <2> QED
      BY <1>1, <1>2, <1>4, <2>3, <2>4, TransitionKeeps
<1> QED
    BY <1>3, <1>4 DEF FinishRun

LEMMA ChangeLedger ==
    ASSUME LedgerInv, NEW s \in Sessions, NEW op \in DOMAIN ControlTarget, NEW run \in runs,
           NEW request \in Requests, ChangeRunState(s, op, run, request)
    PROVE  RunsOK' /\ GrantsOK' /\ BudgetLedgerExact'
<1> DEFINE target == ControlTarget[op]
           changed == ChangedRun(run, target)
<1>1. run \in ProviderSyncRun /\ target \in {"PAUSED", "RUNNING", "CANCELLED"}
    BY DEF LedgerInv, RunsOK, ControlTarget
<1>2. Steps(s, {"done"}) /\ UNCHANGED <<granted, now>>
    BY CommandStep DEF LedgerInv, ChangeRunState
<1>3. CASE UNCHANGED runs
    BY <1>2, <1>3, IdleRuns DEF LedgerInv, RunsOK
<1>4. CASE Transition(run, changed)
  <2> HIDE DEF target
  <2>1. changed \in ProviderSyncRun
    <3> DEFINE paused == IF target = "PAUSED" THEN now ELSE NoRow
               completed == IF target = "CANCELLED" THEN now ELSE run.completed_at
               owner == IF target = "PAUSED" THEN NoRow ELSE run.lease_owner
    <3>1. /\ target \in RunStatus /\ paused \in Optional(Times)
          /\ completed \in Optional(Times) /\ owner \in Optional(Sessions)
        BY <1>1 DEF ProviderSyncRun, RunStatus, TerminalRun, Optional, LedgerInv, RunsOK
    <3>2. changed = [run EXCEPT !.status = target, !.paused_at = paused,
                                !.completed_at = completed, !.lease_owner = owner]
        BY DEF ChangedRun
    <3> HIDE DEF paused, completed, owner, changed
    <3> QED
        BY <1>1, <3>1, <3>2 DEF ProviderSyncRun
  <2>2. /\ changed.plan = run.plan /\ changed.request = run.request
        /\ changed.consumed_requests = run.consumed_requests
        /\ changed.consumed_attempts = run.consumed_attempts
        /\ changed.consumed_bytes = run.consumed_bytes
      BY <1>1 DEF ProviderSyncRun, ChangedRun
  <2> HIDE DEF changed
  <2> QED
      BY <1>2, <1>4, <2>1, <2>2, TransitionKeeps
<1> QED
    BY <1>3, <1>4 DEF ChangeRunState

\* A run that is made anew is a row of its table, with nothing consumed.
LEMMA NewRunType ==
    ASSUME NEW plan \in ProviderSyncPlan
    PROVE  /\ NewRun(plan) \in ProviderSyncRun
           /\ NewRun(plan).plan = plan /\ NewRun(plan).request = plan.request
           /\ NewRun(plan).consumed_requests = 0 /\ NewRun(plan).consumed_bytes = 0
           /\ NewRun(plan).consumed_attempts = 0
BY DEF NewRun, ProviderSyncRun, ProviderSyncPlan, RunStatus, Optional

\* A run with nothing consumed is within every budget.
LEMMA FreshWithinBudget ==
    ASSUME NEW plan \in ProviderSyncPlan
    PROVE  /\ 0 <= plan.request.budget.max_requests
           /\ 0 <= plan.request.budget.max_attempts
           /\ 0 <= plan.request.budget.max_bytes
BY RequestsAssumption DEF ProviderSyncPlan

LEMMA CommitServiceLedger ==
    ASSUME LedgerInv, NEW s \in Sessions, CommitServiceRun(s)
    PROVE  RunsOK' /\ GrantsOK' /\ BudgetLedgerExact'
<1>1. /\ sess[s].phase = "open" /\ UNCHANGED <<granted, now>>
      /\ runs' = IF RunOf(sess[s].arg) = {} THEN runs \cup {NewRun(sess[s].arg)} ELSE runs
    BY DEF CommitServiceRun
<1>2. Steps(s, {"queue"}) /\ sess'[s].arg = sess[s].arg
    BY CommitServiceStep DEF LedgerInv
<1>3. PICK plan \in ProviderSyncPlan : plan = sess[s].arg
    BY <1>1 DEF LedgerInv, SessionsOK, SessionCoherent
<1>4. PICK r \in SessionRecord : Becomes(s, r)
    BY <1>2 DEF Steps
<1>5. r.arg = plan
    BY <1>2, <1>3, <1>4 DEF Becomes, LedgerInv, SessionsOK
<1>6. (RunOf(plan))' # {}
  <2>1. CASE RunOf(plan) = {}
    <3>1. NewRun(plan) \in runs' /\ NewRun(plan).plan = plan
        BY <1>1, <1>3, <2>1, NewRunType
    <3> QED
        BY <3>1 DEF RunOf
  <2>2. CASE RunOf(plan) # {}
      BY <1>1, <1>3, <2>2 DEF RunOf
  <2> QED
      BY <2>1, <2>2
<1>7. runs \subseteq runs'
    BY <1>1
<1>8. \A p : (RunOf(p))' = {} => RunOf(p) = {}
    BY <1>7 DEF RunOf
<1>9. GrantsOK'
    BY <1>1, <1>4, <1>5, <1>6, <1>8, GrantsKept DEF LedgerInv
<1>10. CASE RunOf(plan) = {}
  <2> DEFINE new == NewRun(plan)
  <2>1. runs' = runs \cup {new}
      BY <1>1, <1>3, <1>10
  <2>2. /\ new \in ProviderSyncRun /\ new.plan = plan /\ new.request = plan.request
        /\ new.consumed_requests = 0 /\ new.consumed_bytes = 0 /\ new.consumed_attempts = 0
      BY NewRunType
  <2>3. \A run \in runs : run.plan # plan
      BY <1>10 DEF RunOf
  <2>4. granted[plan].requests = 0 /\ granted[plan].bytes = 0
      BY <1>10 DEF LedgerInv, GrantsOK, NothingGranted
  <2> HIDE DEF new
  <2>5. RunsOK'
      BY <1>1, <2>1, <2>2, <2>3 DEF LedgerInv, RunsOK
  <2>6. BudgetLedgerExact'
      BY <1>1, <2>1, <2>2, <2>4, FreshWithinBudget DEF LedgerInv, BudgetLedgerExact
  <2> QED
      BY <1>9, <2>5, <2>6
<1>11. CASE RunOf(plan) # {}
    BY <1>1, <1>3, <1>9, <1>11 DEF LedgerInv, RunsOK, BudgetLedgerExact
<1> QED
    BY <1>10, <1>11

\* A run that sync-run blocks has consumed nothing: its plan is not one that an
\* executor runs.
LEMMA CommitOfflineLedger ==
    ASSUME LedgerInv, NEW s \in Sessions, CommitOfflineRun(s)
    PROVE  RunsOK' /\ GrantsOK' /\ BudgetLedgerExact'
<1> DEFINE arg == sess[s].arg
           blocked == [NewRun(arg) EXCEPT !.status = "BLOCKED", !.completed_at = now]
           run == IF RunOf(arg) = {} THEN NewRun(arg) ELSE GetRun(arg)
<1>1. /\ sess[s].phase = "open" /\ sess[s].op = "SYNC_RUN" /\ UNCHANGED <<granted, now>>
      /\ runs' = (runs \ {run}) \cup {blocked}
    BY DEF CommitOfflineRun, Transition
<1>2. arg \in ProviderSyncPlan /\ arg.slices = OfflinePlan
    BY <1>1 DEF LedgerInv, SessionsOK, SessionCoherent, OfflineOps
<1>3. PICK plan \in ProviderSyncPlan : plan = arg
    BY <1>2
<1>4. granted[plan].requests = 0 /\ granted[plan].bytes = 0
    BY <1>2, <1>3 DEF LedgerInv, GrantsOK, NothingGranted
<1>5. /\ blocked \in ProviderSyncRun /\ blocked.plan = plan /\ blocked.request = plan.request
      /\ blocked.consumed_requests = 0 /\ blocked.consumed_bytes = 0
      /\ blocked.consumed_attempts = 0
  <2> DEFINE new == NewRun(plan)
  <2>1. /\ new \in ProviderSyncRun /\ new.plan = plan /\ new.request = plan.request
        /\ new.consumed_requests = 0 /\ new.consumed_bytes = 0 /\ new.consumed_attempts = 0
      BY NewRunType
  <2> HIDE DEF new
  <2>2. blocked = [new EXCEPT !.status = "BLOCKED", !.completed_at = now]
      BY <1>3 DEF new
  <2> HIDE DEF blocked
  <2> QED
      BY <2>1, <2>2 DEF ProviderSyncRun, RunStatus, TerminalRun, Optional, LedgerInv, RunsOK
<1>6. \A old \in runs : old.plan = plan => old = run
    BY <1>3, RunFound DEF LedgerInv, RunsOK, RunOf
<1>7. run.plan = plan
    BY <1>3, RunFound, NewRunType
<1> HIDE DEF blocked, run
<1>8. RunsOK'
    BY <1>1, <1>5, <1>6 DEF LedgerInv, RunsOK
<1>9. BudgetLedgerExact'
    BY <1>1, <1>4, <1>5, FreshWithinBudget DEF LedgerInv, BudgetLedgerExact
<1>10. \A p : (RunOf(p))' = {} => RunOf(p) = {}
    BY <1>1, <1>5, <1>7 DEF RunOf
<1>11. Steps(s, {"done"})
    BY CommandStep DEF LedgerInv
<1>12. PICK r \in SessionRecord : Becomes(s, r) /\ r.phase = "done"
    BY <1>11 DEF Steps
<1>13. GrantsOK'
    BY <1>1, <1>10, <1>12, GrantsKept DEF LedgerInv, Executing
<1> QED
    BY <1>8, <1>9, <1>13

\* A run after a reservation.
LEMMA ConsumeType ==
    ASSUME NEW run \in ProviderSyncRun, NEW bytes \in Nat
    PROVE  /\ Consume(run, bytes) \in ProviderSyncRun
           /\ Consume(run, bytes).plan = run.plan /\ Consume(run, bytes).request = run.request
           /\ Consume(run, bytes).consumed_requests = run.consumed_requests + 1
           /\ Consume(run, bytes).consumed_attempts = run.consumed_attempts + 1
           /\ Consume(run, bytes).consumed_bytes = run.consumed_bytes + bytes
<1>1. PICK n1, n2, n3 \in Nat : /\ n1 = run.consumed_requests + 1
                               /\ n2 = run.consumed_bytes + bytes
                               /\ n3 = run.consumed_attempts + 1
    BY DEF ProviderSyncRun
<1>2. Consume(run, bytes) = [run EXCEPT !.consumed_requests = n1, !.consumed_bytes = n2,
                                        !.consumed_attempts = n3]
    BY <1>1 DEF Consume, ProviderSyncRun
<1> HIDE DEF Consume
<1> QED
    BY <1>1, <1>2 DEF ProviderSyncRun

\* A reservation is granted under the lock of the run's row: the row and the ledger
\* grow together, and only within the budget.
LEMMA ReserveLedger ==
    ASSUME LedgerInv, NEW s \in Sessions, ReserveBudget(s)
    PROVE  RunsOK' /\ GrantsOK' /\ BudgetLedgerExact'
<1> DEFINE run == GetRun(sess[s].arg)
<1>1. /\ run \in runs /\ run \in ProviderSyncRun /\ run.plan = sess[s].arg
      /\ sess[s].phase \in Executing
    BY ExecutorRun DEF ReserveBudget, Executing
<1>2. Steps(s, {"attempt", "done"}) /\ now' = now
    BY ReserveBudgetStep DEF LedgerInv, ReserveBudget
<1>3. CASE UNCHANGED <<runs, granted>>
    BY <1>2, <1>3, IdleRuns DEF LedgerInv, RunsOK
<1>4. ASSUME NEW response \in Responses, BudgetAllows(run, response.bytes),
             Transition(run, Consume(run, response.bytes)),
             granted' = [granted EXCEPT ![run.plan] =
               [requests |-> @.requests + 1, bytes |-> @.bytes + response.bytes]]
      PROVE  RunsOK' /\ GrantsOK' /\ BudgetLedgerExact'
  <2> DEFINE bytes == response.bytes
             new == Consume(run, bytes)
             plan == run.plan
  <2>1. bytes \in Nat
      BY ResponsesAssumption
  <2>2. /\ run.plan \in ProviderSyncPlan /\ run.plan.slices \in Drafts
        /\ run.request = run.plan.request
      BY <1>1 DEF ProviderSyncRun, LedgerInv, SessionsOK, SessionCoherent, RunsOK
  <2>3. /\ run.consumed_requests + 1 <= run.request.budget.max_requests
        /\ run.consumed_bytes + bytes <= run.request.budget.max_bytes
        /\ run.consumed_attempts + 1 <= run.request.budget.max_attempts
      BY <1>4 DEF BudgetAllows
  <2>4. runs' = (runs \ {run}) \cup {new}
      BY <1>4 DEF Transition
  <2>5. /\ run.consumed_requests = granted[plan].requests
        /\ run.consumed_attempts = granted[plan].requests
        /\ run.consumed_bytes = granted[plan].bytes
      BY <1>1 DEF LedgerInv, BudgetLedgerExact
  <2>6. granted \in [ProviderSyncPlan -> [requests : Nat, bytes : Nat]]
      BY DEF LedgerInv, GrantsOK
  <2>7. /\ granted' = [granted EXCEPT ![plan] =
             [requests |-> granted[plan].requests + 1, bytes |-> granted[plan].bytes + bytes]]
      BY <1>4
  <2> HIDE DEF run, bytes
  <2>8. /\ new \in ProviderSyncRun /\ new.plan = plan /\ new.request = run.request
        /\ new.consumed_requests = run.consumed_requests + 1
        /\ new.consumed_attempts = run.consumed_attempts + 1
        /\ new.consumed_bytes = run.consumed_bytes + bytes
      BY <1>1, <2>1, ConsumeType
  <2> HIDE DEF new
  <2>9. RunsOK' /\ \A p : (RunOf(p))' = {} <=> RunOf(p) = {}
    <3>1. Transition(run, new)
        BY <1>4 DEF new, bytes
    <3> QED
        BY <1>1, <1>2, <2>8, <3>1, ReplaceRun DEF LedgerInv
  <2>10. granted' \in [ProviderSyncPlan -> [requests : Nat, bytes : Nat]]
      BY <2>1, <2>2, <2>6, <2>7
  <2>11. /\ granted'[plan].requests = granted[plan].requests + 1
         /\ granted'[plan].bytes = granted[plan].bytes + bytes
      BY <2>2, <2>6, <2>7
  <2>12. \A p \in ProviderSyncPlan : p # plan => granted'[p] = granted[p]
      BY <2>6, <2>7
  <2>13. BudgetLedgerExact'
    <3>1. ASSUME NEW other \in runs', other # new
          PROVE  other \in runs /\ other.plan # plan /\ other.plan \in ProviderSyncPlan
        BY <1>1, <2>4, <3>1 DEF LedgerInv, RunsOK, ProviderSyncRun
    <3>2. \A other \in runs' : other # new => granted'[other.plan] = granted[other.plan]
        BY <3>1, <2>12
    <3>3. /\ new.consumed_requests = granted'[plan].requests
          /\ new.consumed_attempts = granted'[plan].requests
          /\ new.consumed_bytes = granted'[plan].bytes
          /\ new.consumed_requests <= new.request.budget.max_requests
          /\ new.consumed_attempts <= new.request.budget.max_attempts
          /\ new.consumed_bytes <= new.request.budget.max_bytes
        BY <2>3, <2>5, <2>8, <2>11
    <3>4. ASSUME NEW other \in runs'
          PROVE  /\ other.consumed_requests = granted'[other.plan].requests
                 /\ other.consumed_attempts = granted'[other.plan].requests
                 /\ other.consumed_bytes = granted'[other.plan].bytes
                 /\ other.consumed_requests <= other.request.budget.max_requests
                 /\ other.consumed_attempts <= other.request.budget.max_attempts
                 /\ other.consumed_bytes <= other.request.budget.max_bytes
      <4>1. CASE other = new
          BY <4>1, <3>3, <2>8
      <4>2. CASE other # new
          BY <4>2, <3>1, <3>2 DEF LedgerInv, BudgetLedgerExact
      <4> QED
          BY <4>1, <4>2
    <3> QED
        BY <3>4 DEF BudgetLedgerExact
  <2>14. \A t \in Sessions : (sess[t].phase \in Executing => RunOf(sess[t].arg) # {})'
    <3>1. PICK r \in SessionRecord : Becomes(s, r) /\ r.phase \in {"attempt", "done"}
        BY <1>2 DEF Steps
    <3>2. ASSUME NEW t \in Sessions, sess'[t].phase \in Executing
          PROVE  sess'[t].arg = sess[t].arg /\ sess[t].phase \in Executing
        BY <3>1, <3>2 DEF Becomes, Follows, LedgerInv, SessionsOK, Executing
    <3>3. ASSUME NEW t \in Sessions, sess'[t].phase \in Executing
          PROVE  (RunOf(sess[t].arg) # {})'
      <4>1. PICK p : p = sess[t].arg
          OBVIOUS
      <4>2. RunOf(p) # {}
          BY <3>2, <3>3, <4>1 DEF LedgerInv, GrantsOK
      <4>3. (RunOf(p))' # {}
          BY <4>2, <2>9
      <4> QED
          BY <3>2, <3>3, <4>1, <4>3 DEF RunOf
    <3> QED
        BY <3>3
  <2>15. ASSUME NEW p \in ProviderSyncPlan, (RunOf(p))' = {} \/ p.slices = OfflinePlan
         PROVE  granted'[p] = NothingGranted
    <3>1. p # plan
      <4>1. run \in RunOf(plan) /\ plan.slices # OfflinePlan
          BY <1>1, <2>2, DraftsAssumption DEF RunOf
      <4> QED
          BY <4>1, <2>9, <2>15
    <3> QED
        BY <3>1, <2>9, <2>12, <2>15 DEF LedgerInv, GrantsOK
  <2>16. GrantsOK'
      BY <2>10, <2>14, <2>15 DEF GrantsOK
  <2> QED
      BY <2>9, <2>13, <2>16
<1> QED
    BY <1>3, <1>4 DEF ReserveBudget

\* Every step of a session leaves its memory coherent.
LEMMA SessionStep ==
    ASSUME LedgerInv, NEW s \in Sessions, Command(s) \/ Execute(s) \/ Abort(s)
    PROVE  \E r \in SessionRecord : Becomes(s, r)
<1> SUFFICES \E phases : Steps(s, phases)
    BY DEF Steps
<1>1. SessionsOK
    BY DEF LedgerInv
<1>2. ASSUME NEW r \in Requests, NEW op \in {"SYNC_PLAN", "SYNC_RUN"}, BeginOffline(s, op, r)
      PROVE  \E phases : Steps(s, phases)
    BY <1>1, <1>2, BeginOfflineStep DEF OfflineOps
<1>3. ASSUME NEW r \in Requests, NEW op \in {"SERVICE_PLAN", "SERVICE_RUN"},
             BeginService(s, op, r)
      PROVE  \E phases : Steps(s, phases)
    BY <1>1, <1>3, BeginServiceStep DEF ServiceOps
<1>4. CASE Command(s) \/ Abort(s)
    BY <1>1, <1>2, <1>3, <1>4, CommandStep, CommitServiceStep DEF Command
<1>5. CASE Execute(s)
    BY <1>1, <1>5, CommandStep, MoveStep, StartLedger, ReserveBudgetStep, SettleStep,
       CheckQualityStep, ReadCheckpointStep DEF Execute
<1> QED
    BY <1>4, <1>5

\* The attempts stay finite and the checkpoint a row of its table.
LEMMA TablesStep ==
    ASSUME LedgerInv, NEW s \in Sessions, Command(s) \/ Execute(s) \/ Abort(s)
    PROVE  /\ IsFiniteSet(attempts')
           /\ checkpoint' \in Optional(ProviderSyncCheckpoint)
<1>1. IsFiniteSet(attempts) /\ checkpoint \in Optional(ProviderSyncCheckpoint)
    BY DEF LedgerInv, SessionsOK
<1>2. CASE UNCHANGED <<attempts, checkpoint>>
    BY <1>1, <1>2
<1>3. CASE ReserveAttempt(s)
  <2>1. checkpoint' = checkpoint /\ (attempts' = attempts \/ \E a : attempts' = attempts \cup {a})
      BY <1>3 DEF ReserveAttempt
  <2> QED
      BY <1>1, <2>1, FS_AddElement
<1>4. CASE SettleAttempt(s)
  <2>1. checkpoint' = checkpoint
      BY <1>4 DEF SettleAttempt
  <2>2. attempts' = attempts \/ \E a, b : attempts' = (attempts \ {a}) \cup {b}
      BY <1>4 DEF SettleAttempt
  <2>3. ASSUME NEW a, NEW b PROVE IsFiniteSet((attempts \ {a}) \cup {b})
    <3>1. IsFiniteSet(attempts \ {a})
        BY <1>1, FS_Difference
    <3> QED
        BY <3>1, FS_AddElement
  <2>4. IsFiniteSet(attempts')
      BY <1>1, <2>2, <2>3
  <2> QED
      BY <1>1, <2>1, <2>4
<1>5. CASE AdvanceCheckpoint(s)
  <2>1. attempts' = attempts /\ (checkpoint' = checkpoint \/ checkpoint' = AdvancedCheckpoint(s))
      BY <1>5 DEF AdvanceCheckpoint
  <2>2. AdvancedCheckpoint(s) \in ProviderSyncCheckpoint
      BY <1>1 DEF AdvancedCheckpoint, ProviderSyncCheckpoint, Optional
  <2> QED
      BY <1>1, <2>1, <2>2 DEF Optional
<1>6. CASE Command(s) \/ Abort(s)
  <2>1. CASE Abort(s) \/ Bootstrap(s) \/ Register(s) \/ AddHealthSnapshot(s)
             \/ ControlAudit(s) \/ CommitPlan(s)
      BY <1>2, <2>1 DEF Abort, Bootstrap, Register, AddHealthSnapshot, ControlAudit, CommitPlan,
                        lineage
  <2>2. CASE CommitOfflineRun(s) \/ CommitServiceRun(s)
      BY <1>2, <2>2 DEF CommitOfflineRun, CommitServiceRun
  <2>3. CASE \E r \in Requests :
               \/ \E op \in {"SYNC_PLAN", "SYNC_RUN"} : BeginOffline(s, op, r)
               \/ \E op \in {"SERVICE_PLAN", "SERVICE_RUN"} : BeginService(s, op, r)
      BY <1>2, <2>3 DEF BeginOffline, BeginService
  <2>4. CASE \E op \in DOMAIN ControlTarget, run \in runs, r \in Requests :
               ChangeRunState(s, op, run, r)
      BY <1>2, <2>4 DEF ChangeRunState
  <2> QED
      BY <1>6, <2>1, <2>2, <2>3, <2>4 DEF Command
<1>7. CASE Execute(s)
    BY <1>2, <1>3, <1>4, <1>5, <1>7 DEF Execute, QueueRun, StartRun, ReadCache, ReserveBudget,
       StoreArtifact, CheckQuality, PutCache, ReadCheckpoint, FinishRun
<1> QED
    BY <1>6, <1>7

LEMMA SessionsKept == LedgerInv /\ [Next]_vars => SessionsOK'
<1> SUFFICES ASSUME LedgerInv, [Next]_vars PROVE SessionsOK'
    OBVIOUS
<1>1. CASE UNCHANGED <<sess, checkpoint, attempts>>
    BY <1>1 DEF LedgerInv, SessionsOK
<1>2. ASSUME NEW s \in Sessions, Command(s) \/ Execute(s) \/ Abort(s)
      PROVE  SessionsOK'
  <2>1. PICK r \in SessionRecord : Becomes(s, r)
      BY <1>2, SessionStep
  <2>2. sess' \in [Sessions -> SessionRecord]
      BY <2>1 DEF Becomes, LedgerInv, SessionsOK
  <2>3. ASSUME NEW t \in Sessions PROVE SessionCoherent(sess'[t])
    <3>1. sess'[t] = r \/ sess'[t] = sess[t]
        BY <2>1 DEF Becomes, LedgerInv, SessionsOK
    <3> QED
        BY <2>1, <3>1 DEF Becomes, LedgerInv, SessionsOK
  <2> QED
      BY <1>2, <2>2, <2>3, TablesStep DEF SessionsOK, SessionCoherent
<1> QED
    BY <1>1, <1>2 DEF Next, Tick, vars

\* Every step keeps the ledger.
LEMMA LedgerKept == LedgerInv /\ [Next]_vars => LedgerInv'
<1> SUFFICES ASSUME LedgerInv, [Next]_vars PROVE RunsOK' /\ GrantsOK' /\ BudgetLedgerExact'
    BY SessionsKept DEF LedgerInv
<1>1. CASE UNCHANGED vars
    BY <1>1 DEF vars, LedgerInv, RunsOK, GrantsOK, BudgetLedgerExact, RunOf
<1>2. CASE Tick
  <2>1. UNCHANGED <<runs, granted, sess>> /\ now' \in Times
      BY <1>2, TimesAssumption DEF Tick, LedgerInv, RunsOK
  <2> QED
      BY <2>1 DEF LedgerInv, RunsOK, GrantsOK, BudgetLedgerExact, RunOf
<1>3. ASSUME NEW s \in Sessions, NEW phases, Steps(s, phases), "queue" \notin phases,
             UNCHANGED <<runs, granted, now>>
      PROVE  RunsOK' /\ GrantsOK' /\ BudgetLedgerExact'
    BY <1>3, IdleRuns DEF LedgerInv, RunsOK
<1>4. ASSUME NEW s \in Sessions, Command(s) \/ Abort(s)
      PROVE  RunsOK' /\ GrantsOK' /\ BudgetLedgerExact'
  <2>1. CASE Bootstrap(s) \/ Register(s) \/ AddHealthSnapshot(s) \/ ControlAudit(s)
             \/ CommitPlan(s) \/ Abort(s)
    <3>1. Steps(s, {"done"})
        BY <2>1, CommandStep DEF LedgerInv
    <3>2. UNCHANGED <<runs, granted, now>>
        BY <2>1 DEF Bootstrap, Register, AddHealthSnapshot, ControlAudit, CommitPlan, Abort
    <3> QED
        BY <3>1, <3>2, <1>3
  <2>2. ASSUME NEW r \in Requests, NEW op \in {"SYNC_PLAN", "SYNC_RUN"}, BeginOffline(s, op, r)
        PROVE  RunsOK' /\ GrantsOK' /\ BudgetLedgerExact'
    <3>1. Steps(s, {"open", "done"})
        BY <2>2, BeginOfflineStep DEF LedgerInv, OfflineOps
    <3>2. UNCHANGED <<runs, granted, now>>
        BY <2>2 DEF BeginOffline
    <3> QED
        BY <3>1, <3>2, <1>3
  <2>3. ASSUME NEW r \in Requests, NEW op \in {"SERVICE_PLAN", "SERVICE_RUN"},
               BeginService(s, op, r)
        PROVE  RunsOK' /\ GrantsOK' /\ BudgetLedgerExact'
    <3>1. Steps(s, {"open", "done"})
        BY <2>3, BeginServiceStep DEF LedgerInv, ServiceOps
    <3>2. UNCHANGED <<runs, granted, now>>
        BY <2>3 DEF BeginService
    <3> QED
        BY <3>1, <3>2, <1>3
  <2> QED
      BY <1>4, <2>1, <2>2, <2>3, CommitOfflineLedger, CommitServiceLedger, ChangeLedger
      DEF Command
<1>5. ASSUME NEW s \in Sessions, Execute(s)
      PROVE  RunsOK' /\ GrantsOK' /\ BudgetLedgerExact'
  <2>1. CASE ReadCache(s) \/ PutCache(s)
    <3>1. Steps(s, {"read", "done"}) /\ UNCHANGED <<runs, granted, now>>
        BY <2>1, MoveStep DEF LedgerInv, ReadCache, PutCache
    <3> QED
        BY <3>1, <1>3
  <2>2. CASE ReserveAttempt(s)
    <3>1. Steps(s, {"settle", "done"}) /\ UNCHANGED <<runs, granted, now>>
        BY <2>2, MoveStep DEF LedgerInv, ReserveAttempt
    <3> QED
        BY <3>1, <1>3
  <2>3. CASE SettleAttempt(s)
    <3>1. Steps(s, {"store", "finish", "done"}) /\ UNCHANGED <<runs, granted, now>>
        BY <2>3, SettleStep DEF LedgerInv, SettleAttempt
    <3> QED
        BY <3>1, <1>3
  <2>4. CASE StoreArtifact(s)
    <3>1. Steps(s, {"quality", "done"}) /\ UNCHANGED <<runs, granted, now>>
        BY <2>4, MoveStep DEF LedgerInv, StoreArtifact
    <3> QED
        BY <3>1, <1>3
  <2>5. CASE CheckQuality(s)
    <3>1. Steps(s, {"cache", "read"}) /\ UNCHANGED <<runs, granted, now>>
        BY <2>5, CheckQualityStep DEF LedgerInv, CheckQuality
    <3> QED
        BY <3>1, <1>3
  <2>6. CASE ReadCheckpoint(s)
    <3>1. Steps(s, {"advance"}) /\ UNCHANGED <<runs, granted, now>>
        BY <2>6, ReadCheckpointStep DEF LedgerInv, ReadCheckpoint
    <3> QED
        BY <3>1, <1>3
  <2>7. CASE AdvanceCheckpoint(s)
    <3>1. Steps(s, {"finish", "done"}) /\ UNCHANGED <<runs, granted, now>>
        BY <2>7, MoveStep DEF LedgerInv, AdvanceCheckpoint
    <3> QED
        BY <3>1, <1>3
  <2> QED
      BY <1>5, <2>1, <2>2, <2>3, <2>4, <2>5, <2>6, <2>7, QueueLedger, StartLedger,
         ReserveLedger, FinishLedger DEF Execute
<1> QED
    BY <1>1, <1>2, <1>4, <1>5 DEF Next

LEMMA InitLedger == Init => LedgerInv
<1> SUFFICES ASSUME Init PROVE LedgerInv
    OBVIOUS
<1>1. Idle \in SessionRecord /\ Idle.phase = "idle"
    BY DEF Idle, SessionRecord, Optional
<1>2. SessionsOK
  <2>1. sess \in [Sessions -> SessionRecord] /\ \A s \in Sessions : sess[s].phase = "idle"
      BY <1>1 DEF Init
  <2> QED
      BY <2>1, FS_EmptySet DEF SessionsOK, SessionCoherent, Executing, Init, Optional
<1>3. RunsOK /\ BudgetLedgerExact
    BY TimesAssumption DEF Init, RunsOK, BudgetLedgerExact
<1>4. GrantsOK
    BY <1>1 DEF Init, GrantsOK, NothingGranted, Executing
<1> QED
    BY <1>2, <1>3, <1>4 DEF LedgerInv

LEMMA LedgerInvariant == Spec => []LedgerInv
BY InitLedger, LedgerKept, PTL DEF Spec

\* What a run's row says was consumed is what its executors were granted, and within
\* the request's budget: PostgresProviderBudgetStore.reserve is the only writer of
\* the three columns that changes them, whoever pauses, resumes, cancels, restarts or
\* blocks the run.
THEOREM BudgetLedgerSafe == Spec => []BudgetLedgerExact
BY LedgerInvariant, PTL DEF LedgerInv

---------------------------------------------------------------------------
(* The checkpoint. *)

\* What a session is about to replace was read, and is the stored row unless a later
\* revision has been stored.
BaseOK(s) ==
    sess[s].phase = "advance" /\ sess[s].base # NoRow =>
      /\ checkpoint # NoRow /\ sess[s].base.revision <= checkpoint.revision
      /\ sess[s].base.revision = checkpoint.revision => sess[s].base = checkpoint

CheckpointInv ==
    /\ \A s \in Sessions : BaseOK(s)
    /\ advances \in Seq([read : Optional(ProviderSyncCheckpoint),
                         replaced : Optional(ProviderSyncCheckpoint)])
    /\ NoLostAdvance

\* A step that leaves the checkpoint alone and reads none.
LEMMA CheckpointAlone ==
    ASSUME SessionsOK, CheckpointInv, UNCHANGED <<checkpoint, advances>>,
           \/ UNCHANGED sess
           \/ \E s \in Sessions : \E phases : Steps(s, phases) /\ "advance" \notin phases
    PROVE  CheckpointInv'
<1>1. ASSUME NEW t \in Sessions PROVE BaseOK(t)'
  <2>1. sess'[t] = sess[t] \/ sess'[t].phase # "advance"
      BY DEF Steps, Becomes, SessionsOK
  <2> QED
      BY <2>1 DEF BaseOK, CheckpointInv
<1> QED
    BY <1>1 DEF CheckpointInv, NoLostAdvance

LEMMA ReadCheckpointKeeps ==
    ASSUME SessionsOK, CheckpointInv, NEW s \in Sessions, ReadCheckpoint(s)
    PROVE  CheckpointInv'
<1>1. /\ UNCHANGED <<checkpoint, advances>> /\ sess'[s].base = checkpoint
      /\ \A t \in Sessions : t # s => sess'[t] = sess[t]
    BY ReadCheckpointStep DEF ReadCheckpoint, SessionsOK
<1>2. checkpoint # NoRow => checkpoint.revision \in Nat
    BY DEF SessionsOK, Optional, ProviderSyncCheckpoint
<1>3. ASSUME NEW t \in Sessions PROVE BaseOK(t)'
  <2>1. CASE t = s
      BY <2>1, <1>1, <1>2 DEF BaseOK
  <2>2. CASE t # s
      BY <2>2, <1>1 DEF BaseOK, CheckpointInv
  <2> QED
      BY <2>1, <2>2
<1> QED
    BY <1>1, <1>3 DEF CheckpointInv, NoLostAdvance

\* The compare-and-swap stores a later revision, and replaces what was read.
LEMMA AdvanceKeeps ==
    ASSUME SessionsOK, CheckpointInv, NEW s \in Sessions, AdvanceCheckpoint(s)
    PROVE  CheckpointInv'
<1>1. Steps(s, {"finish", "done"})
    BY MoveStep
<1>2. CASE UNCHANGED <<checkpoint, advances>>
  <2>1. "advance" \notin {"finish", "done"}
      OBVIOUS
  <2> QED
      BY <1>1, <1>2, <2>1, CheckpointAlone
<1> DEFINE base == sess[s].base
<1>3. ASSUME CanAdvance(ExpectedRevision(base), checkpoint),
             checkpoint' = AdvancedCheckpoint(s),
             advances' = Append(advances, [read |-> base, replaced |-> checkpoint])
      PROVE  CheckpointInv'
  <2>1. /\ sess[s].phase = "advance" /\ base \in Optional(ProviderSyncCheckpoint)
        /\ checkpoint \in Optional(ProviderSyncCheckpoint)
      BY DEF AdvanceCheckpoint, SessionsOK, SessionRecord
  <2>2. BaseOK(s)
      BY DEF CheckpointInv
  <2>3. ASSUME base # NoRow PROVE base = checkpoint
    <3>1. checkpoint # NoRow /\ (base.revision = checkpoint.revision => base = checkpoint)
        BY <2>1, <2>2, <2>3 DEF BaseOK
    <3> QED
        BY <1>3, <2>3, <3>1 DEF CanAdvance, ExpectedRevision
  <2> DEFINE entry == [read |-> base, replaced |-> checkpoint]
             entries == [read : Optional(ProviderSyncCheckpoint),
                         replaced : Optional(ProviderSyncCheckpoint)]
  <2>4. entry \in entries /\ advances \in Seq(entries)
      BY <2>1 DEF CheckpointInv
  <2>5. entry.read # NoRow => entry.read = entry.replaced
      BY <2>3
  <2>6. advances' \in Seq(entries) /\ NoLostAdvance'
    <3> HIDE DEF entry, entries
    <3>1. advances' = Append(advances, entry)
        BY <1>3 DEF entry
    <3>2. advances' \in Seq(entries)
        BY <2>4, <3>1
    <3>3. ASSUME NEW i \in DOMAIN advances'
          PROVE  advances'[i] = entry \/ (i \in DOMAIN advances /\ advances'[i] = advances[i])
        BY <2>4, <3>1
    <3>4. NoLostAdvance'
        BY <2>5, <3>3 DEF NoLostAdvance, CheckpointInv
    <3> QED
        BY <3>2, <3>4
  <2>7. ASSUME NEW t \in Sessions PROVE BaseOK(t)'
    <3>1. CASE t = s
      <4>1. sess'[s].phase # "advance"
          BY <1>1 DEF Steps, Becomes, SessionsOK
      <4> QED
          BY <3>1, <4>1 DEF BaseOK
    <3>2. CASE t # s
      <4>1. sess'[t] = sess[t] /\ BaseOK(t)
          BY <1>1, <3>2 DEF Steps, Becomes, SessionsOK, CheckpointInv
      <4>2. checkpoint' # NoRow
          BY <1>3, <2>1, NoRowAssumption DEF AdvancedCheckpoint, Optional, ProviderSyncCheckpoint
      <4>3. checkpoint # NoRow => checkpoint.revision \in Nat
                                  /\ checkpoint'.revision = checkpoint.revision + 1
          BY <1>3, <2>1 DEF AdvancedCheckpoint, Optional, ProviderSyncCheckpoint
      <4>4. sess[t].base # NoRow => sess[t].base.revision \in Nat
          BY DEF SessionsOK, SessionRecord, Optional, ProviderSyncCheckpoint
      <4> QED
          BY <4>1, <4>2, <4>3, <4>4 DEF BaseOK
    <3> QED
        BY <3>1, <3>2
  <2> QED
      BY <2>6, <2>7 DEF CheckpointInv
<1> QED
    BY <1>2, <1>3 DEF AdvanceCheckpoint

Quiet == (Executing \ {"advance"}) \cup {"done"}

\* A step that neither opens a transaction nor reads the checkpoint.
LEMMA QuietStep ==
    ASSUME LedgerInv, NEW s \in Sessions,
           \/ Bootstrap(s) \/ Register(s) \/ AddHealthSnapshot(s) \/ ControlAudit(s)
           \/ CommitPlan(s) \/ CommitOfflineRun(s) \/ CommitServiceRun(s) \/ Abort(s)
           \/ \E op \in DOMAIN ControlTarget, run \in runs, r \in Requests :
                ChangeRunState(s, op, run, r)
           \/ Execute(s) /\ ~ReadCheckpoint(s)
    PROVE  Steps(s, Quiet)
<1>1. ASSUME NEW phases \in SUBSET Quiet, Steps(s, phases) PROVE Steps(s, Quiet)
    BY <1>1 DEF Steps
<1>2. SessionsOK
    BY DEF LedgerInv
<1>3. CASE Steps(s, {"done"}) \/ Steps(s, {"queue"})
    BY <1>1, <1>3 DEF Quiet, Executing
<1>4. CASE Steps(s, {"start", "done"}) \/ Steps(s, {"budget", "done"}) \/ Steps(s, {"read", "done"})
    BY <1>1, <1>4 DEF Quiet, Executing
<1>5. CASE Steps(s, {"attempt", "done"}) \/ Steps(s, {"settle", "done"})
           \/ Steps(s, {"quality", "done"}) \/ Steps(s, {"finish", "done"})
    BY <1>1, <1>5 DEF Quiet, Executing
<1>6. CASE Steps(s, {"store", "finish", "done"}) \/ Steps(s, {"cache", "read"})
    BY <1>1, <1>6 DEF Quiet, Executing
<1>7. CASE Execute(s) /\ ~ReadCheckpoint(s)
    BY <1>2, <1>3, <1>4, <1>5, <1>6, <1>7, CommandStep, MoveStep, StartLedger,
       ReserveBudgetStep, SettleStep, CheckQualityStep DEF Execute
<1> QED
    BY <1>2, <1>3, <1>7, CommandStep, CommitServiceStep

LEMMA CheckpointKept == LedgerInv /\ CheckpointInv /\ [Next]_vars => CheckpointInv'
<1> SUFFICES ASSUME LedgerInv, CheckpointInv, [Next]_vars PROVE CheckpointInv'
    OBVIOUS
<1>1. SessionsOK /\ "advance" \notin Quiet /\ "advance" \notin {"open", "done"}
    BY DEF LedgerInv, Quiet, Executing
<1>2. CASE Tick \/ UNCHANGED vars
    BY <1>1, <1>2, CheckpointAlone DEF Tick, vars
<1>3. ASSUME NEW s \in Sessions,
             \/ Bootstrap(s) \/ Register(s) \/ AddHealthSnapshot(s) \/ ControlAudit(s)
             \/ CommitPlan(s) \/ CommitOfflineRun(s) \/ CommitServiceRun(s) \/ Abort(s)
             \/ \E op \in DOMAIN ControlTarget, run \in runs, r \in Requests :
                  ChangeRunState(s, op, run, r)
      PROVE  CheckpointInv'
  <2>1. Steps(s, Quiet)
      BY <1>3, QuietStep
  <2>2. UNCHANGED <<checkpoint, advances>>
      BY <1>3 DEF Bootstrap, Register, AddHealthSnapshot, ControlAudit, CommitPlan,
                  CommitOfflineRun, CommitServiceRun, Abort, ChangeRunState
  <2> QED
      BY <1>1, <2>1, <2>2, CheckpointAlone
<1>4. ASSUME NEW s \in Sessions, NEW r \in Requests,
             \/ \E op \in {"SYNC_PLAN", "SYNC_RUN"} : BeginOffline(s, op, r)
             \/ \E op \in {"SERVICE_PLAN", "SERVICE_RUN"} : BeginService(s, op, r)
      PROVE  CheckpointInv'
  <2>1. Steps(s, {"open", "done"})
      BY <1>1, <1>4, BeginOfflineStep, BeginServiceStep DEF OfflineOps, ServiceOps
  <2>2. UNCHANGED <<checkpoint, advances>>
      BY <1>4 DEF BeginOffline, BeginService
  <2> QED
      BY <1>1, <2>1, <2>2, CheckpointAlone
<1>5. ASSUME NEW s \in Sessions, Execute(s), ~ReadCheckpoint(s), ~AdvanceCheckpoint(s)
      PROVE  CheckpointInv'
  <2>1. Steps(s, Quiet)
      BY <1>5, QuietStep
  <2>2. UNCHANGED <<checkpoint, advances>>
      BY <1>5 DEF Execute, QueueRun, StartRun, ReadCache, ReserveBudget, ReserveAttempt,
                  SettleAttempt, StoreArtifact, CheckQuality, PutCache, FinishRun
  <2> QED
      BY <1>1, <2>1, <2>2, CheckpointAlone
<1>6. ASSUME NEW s \in Sessions, ReadCheckpoint(s) \/ AdvanceCheckpoint(s)
      PROVE  CheckpointInv'
    BY <1>1, <1>6, ReadCheckpointKeeps, AdvanceKeeps
<1> QED
    BY <1>2, <1>3, <1>4, <1>5, <1>6 DEF Next, Command

LEMMA InitCheckpoint == Init => CheckpointInv
BY DEF Init, CheckpointInv, BaseOK, NoLostAdvance, Idle

\* Of any number of executors that read the checkpoint and write it back, none that
\* found one overwrites an advance it has not seen.
THEOREM CheckpointSafe == Spec => []NoLostAdvance
BY LedgerInvariant, InitCheckpoint, CheckpointKept, PTL DEF CheckpointInv, Spec

---------------------------------------------------------------------------
(* Governance. *)

GovernanceInv ==
    /\ RequestsGoverned
    /\ \A s \in Sessions : sess[s].phase = "open" => Governed(sess[s].arg)

\* The rows of a version that has any are the same in the later table.
KeepsVersions(old, new) ==
    \A version : LET rows == {p \in old : p.policy_version = version}
                 IN  rows # {} => {p \in new : p.policy_version = version} = rows

\* Adding a row once keeps the rows of every version.
LEMMA AddKeepsVersions ==
    ASSUME NEW table, NEW row, NEW new,
           new = IdempotentAdd(table, SamePolicy(table, row), row), Stored(new)
    PROVE  KeepsVersions(table, new)
<1>1. CASE SamePolicy(table, row) = {}
  <2>1. new = table \cup {row} /\ \A p \in table : p.policy_version # row.policy_version
      BY <1>1 DEF IdempotentAdd, SamePolicy
  <2> QED
      BY <2>1 DEF KeepsVersions
<1>2. CASE SamePolicy(table, row) # {}
  <2>1. new = table
      BY <1>2 DEF IdempotentAdd, Stored
  <2> QED
      BY <2>1 DEF KeepsVersions
<1> QED
    BY <1>1, <1>2

\* A plan that was admitted stays so when rows are registered.
LEMMA GovernedStays ==
    ASSUME NEW plan, Governed(plan), KeepsVersions(policies, policies'),
           KeepsVersions(licenses, licenses')
    PROVE  Governed(plan)'
<1> DEFINE license == GetLicensePolicy(licenses, plan.request.license)
           policy == GetPolicy(policies, plan.request.policy)
<1>1. GetLicensePolicy(licenses', plan.request.license) = license
  <2>1. {l \in licenses : l.policy_version = plan.request.license} # {}
      BY DEF Governed, GetLicensePolicy, TheRow
  <2> QED
      BY <2>1 DEF KeepsVersions, GetLicensePolicy
<1>2. GetPolicy(policies', plan.request.policy) = policy
  <2>1. {p \in policies : p.policy_version = plan.request.policy} # {}
      BY DEF Governed, GetPolicy, TheRow
  <2> QED
      BY <2>1 DEF KeepsVersions, GetPolicy
<1> QED
    BY <1>1, <1>2 DEF Governed

\* Every step keeps the rows of every version.
LEMMA VersionsKept ==
    ASSUME [Next]_vars
    PROVE  KeepsVersions(policies, policies') /\ KeepsVersions(licenses, licenses')
<1>1. \A table : KeepsVersions(table, table)
    BY DEF KeepsVersions
<1>2. CASE UNCHANGED <<policies, licenses>>
    BY <1>1, <1>2
<1>3. ASSUME NEW s \in Sessions, Bootstrap(s)
      PROVE  KeepsVersions(policies, policies') /\ KeepsVersions(licenses, licenses')
  <2> DEFINE policy == AddPolicy(policies, Manifest.policy)
  <2>1. licenses' = licenses /\ (policies' = policies \/ (policies' = policy /\ Stored(policy)))
      BY <1>3 DEF Bootstrap
  <2>2. Stored(policy) => policy = IdempotentAdd(policies, SamePolicy(policies, Manifest.policy),
                                                 Manifest.policy)
      BY DEF AddPolicy, Stored
  <2> HIDE DEF policy
  <2> QED
      BY <1>1, <2>1, <2>2, AddKeepsVersions
<1>4. ASSUME NEW s \in Sessions, Register(s)
      PROVE  KeepsVersions(policies, policies') /\ KeepsVersions(licenses, licenses')
  <2>1. ASSUME NEW row, policies' = (IF Stored(AddPolicy(policies, row))
                                     THEN AddPolicy(policies, row) ELSE policies)
        PROVE  KeepsVersions(policies, policies')
    <3> DEFINE policy == AddPolicy(policies, row)
    <3>1. Stored(policy) => policy = IdempotentAdd(policies, SamePolicy(policies, row), row)
        BY DEF AddPolicy, Stored
    <3>2. policies' = policies \/ (policies' = policy /\ Stored(policy))
        BY <2>1
    <3> HIDE DEF policy
    <3> QED
        BY <1>1, <3>1, <3>2, AddKeepsVersions
  <2>2. ASSUME NEW row, licenses' = (IF Stored(AddLicensePolicy(licenses, row))
                                     THEN AddLicensePolicy(licenses, row) ELSE licenses)
        PROVE  KeepsVersions(licenses, licenses')
    <3> DEFINE license == AddLicensePolicy(licenses, row)
    <3>1. Stored(license) => license = IdempotentAdd(licenses, SamePolicy(licenses, row), row)
        BY DEF AddLicensePolicy, Stored
    <3>2. licenses' = licenses \/ (licenses' = license /\ Stored(license))
        BY <2>2
    <3> HIDE DEF license
    <3> QED
        BY <1>1, <3>1, <3>2, AddKeepsVersions
  <2> QED
      BY <1>1, <1>4, <2>1, <2>2 DEF Register
<1>5. ASSUME NEW s \in Sessions, Command(s) \/ Abort(s)
      PROVE  \/ UNCHANGED <<policies, licenses>>
             \/ Bootstrap(s) \/ Register(s)
  <2>1. CASE Abort(s) \/ AddHealthSnapshot(s) \/ ControlAudit(s) \/ CommitPlan(s)
      BY <2>1 DEF Abort, AddHealthSnapshot, ControlAudit, CommitPlan, governance
  <2>2. CASE CommitOfflineRun(s) \/ CommitServiceRun(s)
      BY <2>2 DEF CommitOfflineRun, CommitServiceRun, governance
  <2>3. CASE \E r \in Requests :
               \/ \E op \in {"SYNC_PLAN", "SYNC_RUN"} : BeginOffline(s, op, r)
               \/ \E op \in {"SERVICE_PLAN", "SERVICE_RUN"} : BeginService(s, op, r)
      BY <2>3 DEF BeginOffline, BeginService, governance
  <2>4. CASE \E op \in DOMAIN ControlTarget, run \in runs, r \in Requests :
               ChangeRunState(s, op, run, r)
      BY <2>4 DEF ChangeRunState, governance
  <2> QED
      BY <1>5, <2>1, <2>2, <2>3, <2>4 DEF Command
<1>6. ASSUME NEW s \in Sessions, Execute(s)
      PROVE  UNCHANGED <<policies, licenses>>
    BY <1>6 DEF Execute, QueueRun, StartRun, ReadCache, ReserveBudget, ReserveAttempt,
       SettleAttempt, StoreArtifact, CheckQuality, PutCache, ReadCheckpoint, AdvanceCheckpoint,
       FinishRun, governance
<1>7. CASE Tick \/ UNCHANGED vars
    BY <1>2, <1>7 DEF Tick, vars, governance
<1> QED
    BY <1>2, <1>3, <1>4, <1>5, <1>6, <1>7 DEF Next

\* The gates of the offline commands admit only governed plans.
LEMMA OfflineAdmits ==
    ASSUME NEW r, NEW definition, NEW capability,
           OfflineGateFailures(definition, capability, GetPolicy(policies, r.policy),
                               GetLicensePolicy(licenses, r.license)) = {}
    PROVE  Governed(PlanOf(r, OfflinePlan))
<1> DEFINE policy == GetPolicy(policies, r.policy)
           license == GetLicensePolicy(licenses, r.license)
<1>1. policy # NoRow /\ ~policy.network_enabled
    BY DEF OfflineGateFailures
<1>2. /\ license # NoRow /\ license.status = "APPROVED"
      /\ license.permissions["acquisition"] = "ALLOWED"
    BY DEF OfflineGateFailures
<1>3. PlanOf(r, OfflinePlan).request = r /\ PlanOf(r, OfflinePlan).slices = OfflinePlan
    BY DEF PlanOf
<1> QED
    BY <1>1, <1>2, <1>3 DEF Governed, UsesOf

\* The gates of the service admit only governed plans.
LEMMA ServiceAdmits ==
    ASSUME NEW r, NEW draft \in Drafts, ServiceGates(r)
    PROVE  Governed(PlanOf(r, draft))
<1> DEFINE policy == GetPolicy(policies, r.policy)
           license == GetLicensePolicy(licenses, r.license)
<1>1. policy # NoRow /\ license # NoRow /\ SourceLicenseGate(license, r.use, now) = {}
    BY DEF ServiceGates
<1>2. PlanOf(r, draft).request = r /\ PlanOf(r, draft).slices = draft
    BY DEF PlanOf
<1> HIDE DEF policy, license
<1>3. license.status = "APPROVED"
    BY <1>1 DEF SourceLicenseGate
<1>4. \A use \in r.use.uses : license.permissions[use] = "ALLOWED"
    BY <1>1, <1>3 DEF SourceLicenseGate
<1>5. UsesOf(PlanOf(r, draft)) = r.use.uses /\ draft # OfflinePlan
    BY <1>2, DraftsAssumption DEF UsesOf
<1> QED
    BY <1>1, <1>2, <1>3, <1>4, <1>5 DEF Governed, policy, license

\* A step that opens a transaction for an admitted plan only, and persists only the
\* plan of an open one.
LEMMA GovernanceMove ==
    ASSUME LedgerInv, GovernanceInv, [Next]_vars, NEW s \in Sessions, NEW phases, Steps(s, phases),
           "open" \notin phases \/ \E plan : sess'[s].arg = plan /\ Governed(plan),
           plans' = plans \/ (plans' = plans \cup {sess[s].arg} /\ sess[s].phase = "open")
    PROVE  GovernanceInv'
<1>1. \A plan : Governed(plan) => Governed(plan)'
    BY VersionsKept, GovernedStays
<1>2. \A t \in Sessions : t # s => sess'[t] = sess[t]
    BY DEF Steps, Becomes, LedgerInv, SessionsOK
<1>3. sess'[s].phase \in phases
    BY DEF Steps, Becomes, LedgerInv, SessionsOK
<1>4. RequestsGoverned'
  <2>1. ASSUME NEW plan \in plans' PROVE Governed(plan)'
    <3>1. Governed(plan)
        BY <2>1 DEF GovernanceInv, RequestsGoverned
    <3> QED
        BY <1>1, <3>1
  <2> QED
      BY <2>1 DEF RequestsGoverned
<1>5. ASSUME NEW t \in Sessions, sess'[t].phase = "open" PROVE Governed(sess[t].arg)'
  <2>1. PICK plan : plan = sess'[t].arg
      OBVIOUS
  <2>2. Governed(plan)
    <3>1. CASE t = s
        BY <1>3, <1>5, <2>1, <3>1
    <3>2. CASE t # s
        BY <1>2, <1>5, <2>1, <3>2 DEF GovernanceInv
    <3> QED
        BY <3>1, <3>2
  <2>3. Governed(plan)'
      BY <1>1, <2>2
  <2> QED
      BY <2>1, <2>3 DEF Governed, UsesOf
<1> QED
    BY <1>4, <1>5 DEF GovernanceInv

LEMMA GovernanceKept == LedgerInv /\ GovernanceInv /\ [Next]_vars => GovernanceInv'
<1> SUFFICES ASSUME LedgerInv, GovernanceInv, [Next]_vars PROVE GovernanceInv'
    OBVIOUS
<1>1. "open" \notin Quiet /\ "open" \notin {"advance"}
    BY DEF Quiet, Executing
<1>2. CASE Tick \/ UNCHANGED vars
    BY <1>2 DEF Tick, vars, governance, GovernanceInv, RequestsGoverned, Governed
<1>3. ASSUME NEW s \in Sessions,
             \/ Bootstrap(s) \/ Register(s) \/ AddHealthSnapshot(s) \/ ControlAudit(s)
             \/ CommitPlan(s) \/ CommitOfflineRun(s) \/ CommitServiceRun(s) \/ Abort(s)
             \/ \E op \in DOMAIN ControlTarget, run \in runs, r \in Requests :
                  ChangeRunState(s, op, run, r)
      PROVE  GovernanceInv'
  <2>1. Steps(s, Quiet)
      BY <1>3, QuietStep
  <2>2. plans' = plans \/ (plans' = plans \cup {sess[s].arg} /\ sess[s].phase = "open")
      BY <1>3 DEF Bootstrap, Register, AddHealthSnapshot, ControlAudit, CommitPlan, Persisted,
                  CommitOfflineRun, CommitServiceRun, Abort, ChangeRunState
  <2> QED
      BY <1>1, <2>1, <2>2, GovernanceMove
<1>4. ASSUME NEW s \in Sessions, NEW r \in Requests, NEW op \in {"SYNC_PLAN", "SYNC_RUN"},
             BeginOffline(s, op, r)
      PROVE  GovernanceInv'
  <2>1. CASE Ends(s)
    <3>1. Steps(s, {"done"}) /\ "open" \notin {"done"} /\ plans' = plans
        BY <1>4, <2>1, EndsSteps DEF LedgerInv, BeginOffline
    <3> QED
        BY <3>1, GovernanceMove
  <2>2. CASE ~Ends(s)
    <3> DEFINE new == [Idle EXCEPT !.phase = "open", !.op = op, !.arg = PlanOf(r, OfflinePlan),
                                   !.seen = Lookups(r, PlanOf(r, OfflinePlan))]
    <3>1. Steps(s, {"open", "done"}) /\ plans' = plans
        BY <1>4, BeginOfflineStep DEF LedgerInv, BeginOffline, OfflineOps
    <3>2. sess' = [sess EXCEPT ![s] = new]
        BY <1>4, <2>2 DEF BeginOffline
    <3>3. sess'[s].arg = PlanOf(r, OfflinePlan)
        BY <3>2 DEF LedgerInv, SessionsOK, Idle
    <3>4. Governed(PlanOf(r, OfflinePlan))
        BY <1>4, <2>2, OfflineAdmits DEF BeginOffline
    <3> QED
        BY <3>1, <3>3, <3>4, GovernanceMove
  <2> QED
      BY <2>1, <2>2
<1>5. ASSUME NEW s \in Sessions, NEW r \in Requests, NEW op \in {"SERVICE_PLAN", "SERVICE_RUN"},
             BeginService(s, op, r)
      PROVE  GovernanceInv'
  <2>1. CASE Ends(s)
    <3>1. Steps(s, {"done"}) /\ "open" \notin {"done"} /\ plans' = plans
        BY <1>5, <2>1, EndsSteps DEF LedgerInv, BeginService
    <3> QED
        BY <3>1, GovernanceMove
  <2>2. CASE ~Ends(s)
    <3>1. Steps(s, {"open", "done"}) /\ plans' = plans
        BY <1>5, BeginServiceStep DEF LedgerInv, BeginService, ServiceOps
    <3>2. PICK draft \in Drafts :
            sess' = [sess EXCEPT ![s] = [Idle EXCEPT
                       !.phase = "open", !.op = op, !.arg = PlanOf(r, draft),
                       !.seen = Lookups(r, PlanOf(r, draft))]]
        BY <1>5, <2>2 DEF BeginService
    <3>3. sess'[s].arg = PlanOf(r, draft)
        BY <3>2 DEF LedgerInv, SessionsOK, Idle
    <3>4. Governed(PlanOf(r, draft))
        BY <1>5, <2>2, ServiceAdmits DEF BeginService
    <3> QED
        BY <3>1, <3>3, <3>4, GovernanceMove
  <2> QED
      BY <2>1, <2>2
<1>6. ASSUME NEW s \in Sessions, Execute(s)
      PROVE  GovernanceInv'
  <2>1. plans' = plans
      BY <1>6 DEF Execute, QueueRun, StartRun, ReadCache, ReserveBudget, ReserveAttempt,
         SettleAttempt, StoreArtifact, CheckQuality, PutCache, ReadCheckpoint,
         AdvanceCheckpoint, FinishRun
  <2>2. CASE ReadCheckpoint(s)
      BY <1>1, <2>1, <2>2, ReadCheckpointStep, GovernanceMove DEF LedgerInv
  <2>3. CASE ~ReadCheckpoint(s)
      BY <1>1, <1>6, <2>1, <2>3, QuietStep, GovernanceMove
  <2> QED
      BY <2>2, <2>3
<1> QED
    BY <1>2, <1>3, <1>4, <1>5, <1>6 DEF Next, Command

LEMMA InitGovernance == Init => GovernanceInv
BY DEF Init, GovernanceInv, RequestsGoverned, Idle

\* Every stored plan was admitted by the licence and the policy it names, as those rows
\* are now: the rows a command reads before its transaction are still there, unchanged,
\* when it commits, because versioned rows are only added.
THEOREM RequestsGovernedSafe == Spec => []RequestsGoverned
BY LedgerInvariant, InitGovernance, GovernanceKept, PTL DEF GovernanceInv, Spec
=============================================================================
