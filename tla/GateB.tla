------------------------------- MODULE GateB -------------------------------
(***************************************************************************)
(* The Gate B pilot: one authorization grant buys at most one execution of *)
(* a three-resource SEC plan, at most four physical HTTP attempts and at   *)
(* most one retry.  Pilot processes compete for the grant; every database  *)
(* transaction of the code is one atomic action (it holds the row locks),  *)
(* everything between two transactions (network, blob write, validation)   *)
(* is a step of its own at which the process may die.                      *)
(*                                                                         *)
(* attempts[n]      row of provider_request_attempts with attempt_number n *)
(* consumptions[n]  row of live_authorization_consumptions of attempt n    *)
(* wire[n]          what happened on the network for attempt n: known to   *)
(*                  the process that sent it, never stored as such         *)
(***************************************************************************)
EXTENDS Integers, Sequences, FiniteSets

CONSTANTS
    Pilots,             \* processes running AuthorizedSecGateBOfflineApplication
    Approvals,          \* execution approvals issued for the one grant and plan
    RequestLimit,       \* grant.request_limit
    ByteLimit,          \* grant.byte_limit
    ReservedBytes,      \* reserved_bytes given to the reservation port
    MaxBody,            \* bound: bytes a response can put on the wire
    ApprovalExpiresAt,  \* approval.expires_at
    GrantExpiresAt,     \* grant.expires_at
    MaxTime             \* bound on the clock

ASSUME LimitsAssumption ==
    /\ RequestLimit \in Nat
    /\ ByteLimit \in Nat
    /\ ReservedBytes \in Nat \ {0}
    /\ MaxBody \in Nat
    /\ ApprovalExpiresAt \in Nat
    /\ GrantExpiresAt \in Nat
    /\ MaxTime \in Nat

VARIABLES
    now,            \* the clock
    authState,      \* state replayed from live_authorization_events
    approvals,      \* state of each execution approval
    attempts, consumptions,
    wire,
    blobs,          \* attempts whose body is in the blob store
    artifacts,      \* attempts with an artifact row and a manifest row
    terminals,      \* DATA_QUALITY_STOP audit events of the sync run
    pc, approval, ordinal, current, prior   \* per process: its control state,
                    \* its approval, the resource it is on, the attempt it
                    \* holds, and an earlier attempt still to be settled (or 0)

db   == <<authState, approvals, attempts, consumptions, artifacts, terminals>>
proc == <<pc, approval, ordinal, current, prior>>
vars == <<now, db, wire, blobs, proc>>

-----------------------------------------------------------------------------
(* Authorization state machine *)

AuthStates == {"DRAFT", "APPROVED", "ACTIVE", "CONSUMED", "EXPIRED", "REVOKED", "CANCELLED"}

\* _TRANSITIONS: <<from, event, to>>; no terminal state is on the left.
AuthTransitions ==
    { <<"DRAFT", "APPROVE", "APPROVED">>,   <<"DRAFT", "CANCEL", "CANCELLED">>,
      <<"DRAFT", "EXPIRE", "EXPIRED">>,     <<"APPROVED", "ACTIVATE", "ACTIVE">>,
      <<"APPROVED", "CANCEL", "CANCELLED">>, <<"APPROVED", "EXPIRE", "EXPIRED">>,
      <<"APPROVED", "REVOKE", "REVOKED">>,  <<"ACTIVE", "CONSUME", "CONSUMED">>,
      <<"ACTIVE", "EXPIRE", "EXPIRED">>,    <<"ACTIVE", "REVOKE", "REVOKED">> }

\* The operator appends an event other than CONSUME to the log.
AppendEvent ==
    /\ \E t \in AuthTransitions :
          /\ t[1] = authState
          /\ t[2] # "CONSUME"
          /\ authState' = t[3]
    /\ UNCHANGED <<now, approvals, attempts, consumptions, artifacts, terminals,
                   wire, blobs, proc>>

-----------------------------------------------------------------------------
(* Network outcomes *)

Slices == 0..2      \* SEC_SUBMISSIONS, SEC_FILING_INDEX, SEC_PRIMARY_DOCUMENT
AttemptNumbers == 1..4

Answered  == {"ok", "server_error", "too_many", "refused"}  \* 2xx, 5xx, 429, other
Unanswered == {"timeout", "policy"}     \* HttpTimeoutError / ProviderHttpError
WireKinds == Answered \cup Unanswered \cup {"unsent", "no_contact"}

\* SecGateBRetryController.classify: 429 and permanent answers are terminal.
RetryEligible(kind) == kind \in {"server_error", "timeout"}

\* len(response.body) if response is not None else 0
ResponseBytes(n) == IF wire[n].kind \in Answered THEN wire[n].body ELSE 0

\* response.status_code if response is not None else None
StatusCode(n) == IF wire[n].kind \in Answered THEN wire[n].kind ELSE "none"

\* socket_opened is False only when the contact identity did not resolve.
DemonstrablyUnstarted(n) == wire[n].kind = "no_contact"

-----------------------------------------------------------------------------
(* Reservation *)

\* count(*) - count(DISTINCT slice_id) >= 1
RetryUsed ==
    \E i, j \in DOMAIN attempts : i < j /\ attempts[i].slice = attempts[j].slice

CanReserve_TwoRetries(slice, number, kind) ==
    /\ Len(consumptions) < RequestLimit
    /\ Len(attempts) < 4
    /\ number = Len(attempts) + 1
    /\ (kind = "RETRY") <=> (\E i \in DOMAIN attempts : attempts[i].slice = slice)

\* _reserve_attempt: every check that does not raise.  A row that already has
\* this slice and number passes the sequence check and is refused by
\* _persist_gate_b_attempt, so only number = total + 1 ever succeeds.
CanReserve(slice, number, kind) ==
    /\ Len(consumptions) < RequestLimit
    /\ Len(attempts) < 4
    /\ number = Len(attempts) + 1
    /\ (kind = "RETRY") <=> (\E i \in DOMAIN attempts : attempts[i].slice = slice)
    /\ kind = "RETRY" => ~RetryUsed
    /\ number = 4 => RequestLimit = 4

\* The rows inserted by reserve_consumption and _persist_gate_b_attempt.
Reserve(p, slice, kind) ==
    /\ attempts' = Append(attempts, [slice |-> slice, kind |-> kind, status |-> "PENDING",
                                     bytes |-> 0, code |-> "none", holder |-> p])
    /\ consumptions' = Append(consumptions, [state |-> "RESERVED", actual |-> 0,
                                             socket |-> FALSE])

-----------------------------------------------------------------------------
(* Settlement *)

Charge(n) ==
    IF n \in DOMAIN consumptions /\ consumptions[n].state = "SETTLED"
    THEN consumptions[n].actual ELSE 0

\* sum(actual_bytes) of the SETTLED rows; a grant has at most four rows.
ConsumedBytes == Charge(1) + Charge(2) + Charge(3) + Charge(4)

\* settle_attempt and settle_consumption do not raise.  Their idempotent replay
\* of an identical settlement needs a second call with the same completed_at,
\* which no process makes.
CanSettle(n, bytes) ==
    /\ attempts[n].status = "PENDING"
    /\ consumptions[n].state = "RESERVED"
    /\ ConsumedBytes + bytes <= ByteLimit
    /\ bytes <= ReservedBytes

Settle_EveryRow(n, status, state, socket) ==
    /\ attempts' = [i \in DOMAIN attempts |->
           [attempts[i] EXCEPT !.status = status, !.bytes = ResponseBytes(n), !.code = StatusCode(n)]]
    /\ consumptions' = [i \in DOMAIN consumptions |->
           [state |-> state, actual |-> ResponseBytes(n), socket |-> socket]]

Settle(n, status, state, socket) ==
    /\ attempts' = [attempts EXCEPT ![n] =
           [@ EXCEPT !.status = status, !.bytes = ResponseBytes(n), !.code = StatusCode(n)]]
    /\ consumptions' = [consumptions EXCEPT ![n] =
           [state |-> state, actual |-> ResponseBytes(n), socket |-> socket]]

SettleFailure_RefundEmpty(n) ==
    Settle(n, "BLOCKED", IF ResponseBytes(n) = 0 THEN "ABANDONED" ELSE "SETTLED",
           ResponseBytes(n) # 0)

\* SecArtifactSettlementService.settle_failure: one transaction.
SettleFailure(n) ==
    Settle(n, "BLOCKED", IF DemonstrablyUnstarted(n) THEN "ABANDONED" ELSE "SETTLED",
           ~DemonstrablyUnstarted(n))

Goto(p, label) == pc' = [pc EXCEPT ![p] = label]

-----------------------------------------------------------------------------
(* Execution start *)

Init ==
    /\ now = 0
    /\ authState = "DRAFT"
    /\ approvals = [a \in Approvals |-> "VALID"]
    /\ attempts = <<>> /\ consumptions = <<>>
    /\ wire = [n \in AttemptNumbers |-> [kind |-> "unsent", body |-> 0, late |-> FALSE]]
    /\ blobs = {} /\ artifacts = {} /\ terminals = <<>>
    /\ pc = [p \in Pilots |-> "idle"]
    /\ approval \in [Pilots -> Approvals]
    /\ ordinal = [p \in Pilots |-> 0]
    /\ current = [p \in Pilots |-> 0]
    /\ prior = [p \in Pilots |-> 0]

\* ProductionAuthorizationGate.authorize: reads the grant, its events and the
\* approval, and builds the validation that start_execution checks again.
Authorize(p) ==
    /\ pc[p] = "idle"
    /\ \E a \in Approvals :
          /\ approval' = [approval EXCEPT ![p] = a]
          /\ Goto(p, IF /\ RequestLimit = 4
                        /\ authState = "ACTIVE" /\ now < GrantExpiresAt
                        /\ approvals[a] = "VALID" /\ now < ApprovalExpiresAt
                     THEN "authorized" ELSE "stopped")
    /\ UNCHANGED <<now, db, wire, blobs, ordinal, current, prior>>

CanStart_NoConsumeCheck(p) ==
    /\ approvals[approval[p]] = "VALID"
    /\ ApprovalExpiresAt > now
    /\ GrantExpiresAt > now

\* _lock_and_validate_execution_start and consume_authorization do not raise.
CanStart(p) ==
    /\ approvals[approval[p]] = "VALID"
    /\ ApprovalExpiresAt > now
    /\ GrantExpiresAt > now
    /\ authState = "ACTIVE"
    /\ CanReserve(0, 1, "INITIAL")

\* start_execution: consume the approval and the authorization and reserve the
\* first attempt, all in one transaction.
StartExecution(p) ==
    /\ pc[p] = "authorized"
    /\ \/ /\ CanStart(p)
          /\ approvals' = [approvals EXCEPT ![approval[p]] = "CONSUMED"]
          /\ authState' = "CONSUMED"
          /\ Reserve(p, 0, "INITIAL")
          /\ ordinal' = [ordinal EXCEPT ![p] = 0]
          /\ current' = [current EXCEPT ![p] = Len(attempts) + 1]
          /\ Goto(p, "transport")
       \/ /\ ~CanStart(p)
          /\ Goto(p, "stopped")
          /\ UNCHANGED <<authState, approvals, attempts, consumptions, ordinal, current>>
    /\ UNCHANGED <<now, artifacts, terminals, wire, blobs, approval, prior>>

-----------------------------------------------------------------------------
(* Transport *)

\* resolve_sec_request_identity fails: a BLOCKED result, no socket.
ContactFails(p) ==
    /\ pc[p] = "transport"
    /\ wire' = [wire EXCEPT ![current[p]] = [kind |-> "no_contact", body |-> 0, late |-> now >= GrantExpiresAt]]
    /\ Goto(p, "returned")
    /\ UNCHANGED <<now, db, blobs, approval, ordinal, current, prior>>

\* _send: one physical GET.  A request that times out or breaks the policy (a
\* body over the limit, for instance) has received bytes and no response.
Send(p) ==
    /\ pc[p] \in {"transport", "resend"}
    /\ \E kind \in Answered \cup Unanswered, body \in 0..MaxBody :
          /\ wire' = [wire EXCEPT ![current[p]] = [kind |-> kind, body |-> body, late |-> now >= GrantExpiresAt]]
          /\ Goto(p, IF pc[p] = "transport" /\ kind # "ok" THEN "classify" ELSE "returned")
    /\ UNCHANGED <<now, db, blobs, approval, ordinal, current, prior>>

\* The retry controller asks the reservation port for a second permit; a
\* refused permit ends the resource.  The first attempt is still unsettled.
Classify(p) ==
    /\ pc[p] = "classify"
    /\ LET retry == /\ RetryEligible(wire[current[p]].kind)
                    /\ current[p] < 4
                    /\ CanReserve(ordinal[p], current[p] + 1, "RETRY")
       IN \/ /\ retry
             /\ Reserve(p, ordinal[p], "RETRY")
             /\ prior' = [prior EXCEPT ![p] = current[p]]
             /\ current' = [current EXCEPT ![p] = @ + 1]
             /\ Goto(p, "resend")
          \/ /\ ~retry
             /\ Goto(p, "returned")
             /\ UNCHANGED <<attempts, consumptions, prior, current>>
    /\ UNCHANGED <<now, authState, approvals, artifacts, terminals, wire, blobs,
                   approval, ordinal>>

-----------------------------------------------------------------------------
(* Settlement of one resource *)

SettlePrior_Forgotten(p) ==
    /\ pc[p] = "returned"
    /\ prior[p] # 0
    /\ prior' = [prior EXCEPT ![p] = 0]
    /\ UNCHANGED <<now, db, wire, blobs, pc, approval, ordinal, current>>

\* transport_result.attempts[:-1] are settled as failures, whatever the outcome.
SettlePrior(p) ==
    /\ pc[p] = "returned"
    /\ prior[p] # 0
    /\ \/ /\ CanSettle(prior[p], ResponseBytes(prior[p]))
          /\ SettleFailure(prior[p])
          /\ prior' = [prior EXCEPT ![p] = 0]
          /\ UNCHANGED pc
       \/ /\ ~CanSettle(prior[p], ResponseBytes(prior[p]))
          /\ Goto(p, "stopped")
          /\ UNCHANGED <<attempts, consumptions, prior>>
    /\ UNCHANGED <<now, authState, approvals, artifacts, terminals, wire, blobs,
                   approval, ordinal, current>>

\* validate_sec_response: an empty body never validates, any other may not.
Validate(p) ==
    /\ pc[p] = "returned"
    /\ prior[p] = 0
    /\ wire[current[p]].kind = "ok"
    /\ \/ wire[current[p]].body > 0 /\ Goto(p, "validated")
       \/ Goto(p, "invalid")
    /\ UNCHANGED <<now, db, wire, blobs, approval, ordinal, current, prior>>

SettleFailed_Continues(p) ==
    /\ \/ pc[p] = "returned" /\ prior[p] = 0 /\ wire[current[p]].kind # "ok"
       \/ pc[p] = "invalid"
    /\ CanSettle(current[p], ResponseBytes(current[p]))
    /\ SettleFailure(current[p])
    /\ Goto(p, "lineage")
    /\ UNCHANGED <<now, authState, approvals, artifacts, terminals, wire, blobs,
                   approval, ordinal, current, prior>>

\* The last attempt failed on the network or in validation.
SettleFailed(p) ==
    /\ \/ pc[p] = "returned" /\ prior[p] = 0 /\ wire[current[p]].kind # "ok"
       \/ pc[p] = "invalid"
    /\ \/ /\ CanSettle(current[p], ResponseBytes(current[p]))
          /\ SettleFailure(current[p])
          /\ Goto(p, "blocking")
       \/ /\ ~CanSettle(current[p], ResponseBytes(current[p]))
          /\ Goto(p, "stopped")
          /\ UNCHANGED <<attempts, consumptions>>
    /\ UNCHANGED <<now, authState, approvals, artifacts, terminals, wire, blobs,
                   approval, ordinal, current, prior>>

WriteBlob_Skipped(p) ==
    /\ pc[p] = "validated"
    /\ Goto(p, "stored")
    /\ UNCHANGED <<now, db, wire, blobs, approval, ordinal, current, prior>>

\* settle, first half: the body is durable before any row says so.
WriteBlob(p) ==
    /\ pc[p] = "validated"
    /\ blobs' = blobs \cup {current[p]}
    /\ Goto(p, "stored")
    /\ UNCHANGED <<now, db, wire, approval, ordinal, current, prior>>

\* settle, second half: attempt, consumption, artifact and manifest in one
\* transaction, refused when the budget does not allow it or when an artifact of
\* an earlier run has this source identity and checksum.  It runs outside the
\* try block of _execute_resource: a refusal commits no terminal event.
SettleCompleted(p) ==
    /\ pc[p] = "stored"
    /\ \/ /\ CanSettle(current[p], ResponseBytes(current[p]))
          /\ Settle(current[p], "COMPLETED", "SETTLED", TRUE)
          /\ artifacts' = artifacts \cup {current[p]}
          /\ Goto(p, "lineage")
       \/ /\ Goto(p, "stopped")
          /\ UNCHANGED <<attempts, consumptions, artifacts>>
    /\ UNCHANGED <<now, authState, approvals, terminals, wire, blobs,
                   approval, ordinal, current, prior>>

\* _require_dependency_lineage after the first and the second resource.
CheckLineage(p) ==
    /\ pc[p] = "lineage"
    /\ \/ /\ ordinal[p] < 2
          /\ ordinal' = [ordinal EXCEPT ![p] = @ + 1]
          /\ Goto(p, "next")
       \/ /\ ordinal[p] < 2
          /\ Goto(p, "blocking")
          /\ UNCHANGED ordinal
       \/ /\ ordinal[p] = 2
          /\ Goto(p, "admit")
          /\ UNCHANGED ordinal
    /\ UNCHANGED <<now, db, wire, blobs, approval, current, prior>>

\* _reserve_resource for the second and third resource.
ReserveNext(p) ==
    /\ pc[p] = "next"
    /\ \/ /\ CanReserve(ordinal[p], current[p] + 1, "INITIAL")
          /\ Reserve(p, ordinal[p], "INITIAL")
          /\ current' = [current EXCEPT ![p] = @ + 1]
          /\ Goto(p, "transport")
       \/ /\ ~CanReserve(ordinal[p], current[p] + 1, "INITIAL")
          /\ Goto(p, "stopped")
          /\ UNCHANGED <<attempts, consumptions, current>>
    /\ UNCHANGED <<now, authState, approvals, artifacts, terminals, wire, blobs,
                   approval, ordinal, prior>>

-----------------------------------------------------------------------------
(* Terminal event *)

\* ProviderArtifactDocumentBridge.admit publishes citations or raises.
AdmitDocument(p) ==
    /\ pc[p] = "admit"
    /\ \/ Goto(p, "evaluate")
       \/ Goto(p, "stopped")
    /\ UNCHANGED <<now, db, wire, blobs, approval, ordinal, current, prior>>

\* _require_complete_gate_b_resource_set: the COMPLETED attempts with an
\* artifact are exactly one per slice, in plan order, the last being n.
CompleteResourceSet(n) ==
    LET done == {i \in DOMAIN attempts : attempts[i].status = "COMPLETED" /\ i \in artifacts}
    IN  \E a, b \in done :
            /\ a < b /\ b < n /\ done = {a, b, n}
            /\ attempts[a].slice = 0 /\ attempts[b].slice = 1 /\ attempts[n].slice = 2

\* SqlAlchemySecTerminalStore.commit under the sync-run lock: a stored event is
\* returned if it is identical and is a conflict otherwise; neither writes.
CommitTerminal(p, status, stage) ==
    terminals' =
        IF terminals = <<>> /\ (status = "PASSED" => CompleteResourceSet(current[p]))
        THEN Append(terminals, [status |-> status, stage |-> stage,
                                slice |-> ordinal[p], attempt |-> current[p]])
        ELSE terminals

BlockResource_NoRaise(p) ==
    /\ pc[p] = "blocking"
    /\ CommitTerminal(p, "BLOCKED", "RESOURCE_ORCHESTRATION")
    /\ ordinal[p] < 2
    /\ ordinal' = [ordinal EXCEPT ![p] = @ + 1]
    /\ Goto(p, "next")
    /\ UNCHANGED <<now, authState, approvals, attempts, consumptions, artifacts,
                   wire, blobs, approval, current, prior>>

BlockResource(p) ==
    /\ pc[p] = "blocking"
    /\ CommitTerminal(p, "BLOCKED", "RESOURCE_ORCHESTRATION")
    /\ Goto(p, "stopped")
    /\ UNCHANGED <<now, authState, approvals, attempts, consumptions, artifacts,
                   wire, blobs, approval, ordinal, current, prior>>

Evaluate(p) ==
    /\ pc[p] = "evaluate"
    /\ \E status \in {"PASSED", "BLOCKED"} : CommitTerminal(p, status, "DATA_QUALITY")
    /\ Goto(p, "stopped")
    /\ UNCHANGED <<now, authState, approvals, attempts, consumptions, artifacts,
                   wire, blobs, approval, ordinal, current, prior>>

-----------------------------------------------------------------------------
(* Failures and the environment *)

\* The process dies, or an exception no handler catches leaves it.
Crash(p) ==
    /\ pc[p] \notin {"idle", "stopped"}
    /\ Goto(p, "stopped")
    /\ UNCHANGED <<now, db, wire, blobs, approval, ordinal, current, prior>>

\* The operator runs the command again: nothing of the old run is in memory.
Restart(p) ==
    /\ pc[p] = "stopped"
    /\ Goto(p, "idle")
    /\ ordinal' = [ordinal EXCEPT ![p] = 0]
    /\ current' = [current EXCEPT ![p] = 0]
    /\ prior' = [prior EXCEPT ![p] = 0]
    /\ UNCHANGED <<now, db, wire, blobs, approval>>

Tick ==
    /\ now < MaxTime
    /\ now' = now + 1
    /\ UNCHANGED <<db, wire, blobs, proc>>

Step(p) ==
    \/ Authorize(p) \/ StartExecution(p) \/ ContactFails(p) \/ Send(p) \/ Classify(p)
    \/ SettlePrior(p) \/ Validate(p) \/ SettleFailed(p) \/ WriteBlob(p) \/ SettleCompleted(p)
    \/ CheckLineage(p) \/ ReserveNext(p) \/ AdmitDocument(p) \/ BlockResource(p) \/ Evaluate(p)
    \/ Crash(p) \/ Restart(p)

Next == AppendEvent \/ Tick \/ \E p \in Pilots : Step(p)

Spec == Init /\ [][Next]_vars

-----------------------------------------------------------------------------
(* Properties *)

Labels == {"idle", "authorized", "transport", "resend", "classify", "returned", "validated",
           "invalid", "stored", "lineage", "next", "admit", "evaluate", "blocking", "stopped"}

\* The labels between the start transaction and the end of the process.
Executing == Labels \ {"idle", "authorized", "stopped"}

AttemptRow == [slice : Slices, kind : {"INITIAL", "RETRY"},
               status : {"PENDING", "COMPLETED", "BLOCKED"}, bytes : Nat,
               code : Answered \cup {"none"}, holder : Pilots]
ConsumptionRow == [state : {"RESERVED", "SETTLED", "ABANDONED"}, actual : Nat, socket : BOOLEAN]
TerminalRow == [status : {"PASSED", "BLOCKED"},
                stage : {"DATA_QUALITY", "RESOURCE_ORCHESTRATION"},
                slice : Slices, attempt : AttemptNumbers]

\* The type of every row of the pilot's tables and of the processes' memory,
\* with the capacity of the attempt table (migration 0013: attempt_number <= 4).
TypeOK ==
    /\ now \in Nat
    /\ authState \in AuthStates
    /\ approvals \in [Approvals -> {"VALID", "CONSUMED"}]
    /\ attempts \in Seq(AttemptRow) /\ Len(attempts) <= 4
    /\ consumptions \in Seq(ConsumptionRow) /\ Len(consumptions) = Len(attempts)
    /\ wire \in [AttemptNumbers -> [kind : WireKinds, body : Nat, late : BOOLEAN]]
    /\ blobs \subseteq AttemptNumbers
    /\ artifacts \subseteq AttemptNumbers
    /\ terminals \in Seq(TerminalRow)
    /\ pc \in [Pilots -> Labels]
    /\ approval \in [Pilots -> Approvals]
    /\ ordinal \in [Pilots -> Slices]
    /\ current \in [Pilots -> 0..4]
    /\ prior \in [Pilots -> 0..4]

\* One grant, one execution: whichever processes race for it with whichever
\* approvals, and however often they are restarted, at most one is between its
\* start transaction and its end, and every attempt of the run is its own.
SingleExecution ==
    /\ \A p, q \in Pilots : pc[p] \in Executing /\ pc[q] \in Executing => p = q
    /\ \A i, j \in DOMAIN attempts : attempts[i].holder = attempts[j].holder
    /\ \A p \in Pilots : pc[p] \in Executing =>
          current[p] = Len(attempts) /\ attempts[Len(attempts)].holder = p

\* The plan-global retry budget: at most one slice is attempted twice, a retry
\* repeats the slice of the attempt just before it, and the attempts walk
\* through the plan in order without skipping a resource.
RetryBudget ==
    /\ \A i, j \in DOMAIN attempts :
          attempts[i].kind = "RETRY" /\ attempts[j].kind = "RETRY" => i = j
    /\ \A i \in DOMAIN attempts :
          IF i = 1
          THEN attempts[1].slice = 0 /\ attempts[1].kind = "INITIAL"
          ELSE attempts[i].slice =
                 attempts[i - 1].slice + (IF attempts[i].kind = "RETRY" THEN 0 ELSE 1)

\* A resource is requested only after the one before it is completed: the
\* dependency order of the plan survives retries, crashes and restarts.
ResourceOrder ==
    \A i \in DOMAIN attempts :
        attempts[i].slice > 0 =>
            \E j \in 1..(i - 1) : /\ attempts[j].slice = attempts[i].slice - 1
                                  /\ attempts[j].status = "COMPLETED"

\* No attempt follows one that was answered with 429 or refused for good.
NoRetryAfterAbort ==
    \A i \in DOMAIN attempts :
        attempts[i].code \in {"too_many", "refused"} => i = Len(attempts)

\* The single retry is spent as the plan allows: once, on the slice just
\* attempted, and never after an answer that ends the plan
\* (SecGateBRetryController, reserve_attempt).
RetryLawful == RetryBudget /\ NoRetryAfterAbort

\* The grant's byte budget bounds what the settled attempts were charged.
ByteBudget == ConsumedBytes <= ByteLimit

\* The two ledgers of an attempt agree at every transaction boundary: pending
\* with reserved, completed with settled, the same bytes on both sides, and
\* only an attempt that never opened a socket is abandoned.
LedgersAgree ==
    \A i \in DOMAIN attempts :
        /\ (attempts[i].status = "PENDING") <=> (consumptions[i].state = "RESERVED")
        /\ attempts[i].status = "COMPLETED" => consumptions[i].state = "SETTLED"
        /\ attempts[i].bytes = consumptions[i].actual
        /\ consumptions[i].state = "ABANDONED" =>
              wire[i].kind = "no_contact" /\ ~consumptions[i].socket

\* What is charged is what was attempted, and never more than was granted,
\* although bytes are compared with the limit only when they have arrived
\* (settle_attempt, settle_consumption).
LedgersBalanced == LedgersAgree /\ ByteBudget

\* Lineage in the database is authoritative: an artifact row has its body in
\* the blob store and a completed, validated attempt behind it; a crash leaves
\* at most a body no row refers to.
LineageDurable ==
    \A i \in artifacts :
        /\ i \in blobs
        /\ i \in DOMAIN attempts
        /\ attempts[i].status = "COMPLETED"
        /\ attempts[i].bytes = wire[i].body /\ wire[i].body > 0

\* A terminal event closes the run: there is one, every attempt is settled by
\* then, a verdict on data quality (PASSED above all) covers all three resources.
TerminalSound ==
    terminals # <<>> =>
        /\ Len(terminals) = 1
        /\ \A i \in DOMAIN attempts : attempts[i].status # "PENDING"
        /\ terminals[1].attempt = Len(attempts)
        /\ terminals[1].stage = "DATA_QUALITY" => CompleteResourceSet(Len(attempts))

\* Nothing is reserved, sent or stored for the run once its terminal event is
\* committed.
NothingAfterTerminal ==
    [][terminals # <<>> => UNCHANGED <<attempts, consumptions, artifacts, blobs, wire, terminals>>]_vars

\* Settled rows are history: no later step changes a settled attempt or
\* consumption, withdraws a row, or refunds a request.
LedgerAppendOnly ==
    [][/\ Len(attempts') >= Len(attempts)
       /\ \A i \in DOMAIN attempts : attempts[i].status # "PENDING" =>
             attempts'[i] = attempts[i] /\ consumptions'[i] = consumptions[i]]_vars

-----------------------------------------------------------------------------
(* The promise of the grant, implemented *)

Grant == INSTANCE SingleUseGrant WITH
    Budget <- 4,
    phase <- IF authState = "CONSUMED" THEN "used"
             ELSE IF authState \in {"DRAFT", "APPROVED", "ACTIVE"} THEN "available"
             ELSE "withdrawn",
    requests <- Len(attempts),
    verdict <- IF terminals = <<>> THEN "none" ELSE terminals[1].status

\* Whatever races, crashes and restarts do, the tables of the pilot only ever
\* change the way a single-use grant may be spent.
ImplementsGrant == Grant!GrantSpec

-----------------------------------------------------------------------------
(* Statements of the design documents the code does not meet *)

\* "No retry can cross expiry" (docs/specs/stage-10-controlled-live-evidence-
\* design.md): reserve() checks budgets and plan, never the grant's expires_at.
NoRetryCrossesExpiry ==
    \A n \in DOMAIN attempts : attempts[n].kind = "RETRY" => ~wire[n].late

\* "all received bytes count even when parsing or status validation later fails"
\* (docs/live-authorization-matrix.md): a response cut off by a timeout or by the
\* size limit is settled with zero bytes.
ReceivedBytesCharged ==
    \A n \in DOMAIN attempts :
        attempts[n].status # "PENDING" => consumptions[n].actual = wire[n].body
=============================================================================
