---------------------------- MODULE ProviderCall ----------------------------
(***************************************************************************)
(* A governed Provider call: DefaultControlledProviderExecutor takes a     *)
(* request through its gates in a fixed order; the CIRCUIT gate is         *)
(* ProviderCircuitBreakerService.before_call, the RATE_LIMIT gate          *)
(* ProviderRateLimiter.reserve, and what the network answered is reported  *)
(* with record_outcome.  The two services keep their state in PostgreSQL   *)
(* and serialize on it (row lock, advisory lock): each call of theirs is   *)
(* one action, but for before_call on a row that does not exist yet and    *)
(* cannot be locked.  Their callers run concurrently, may die between two  *)
(* steps, and pass a clock reading taken before they get the lock.         *)
(***************************************************************************)
EXTENDS Integers, Sequences, FiniteSets

CONSTANTS
    Calls,              \* concurrent executions, each repeated
    FailureThreshold,   \* failure_threshold
    ResetAfter,         \* reset_after_seconds
    Interval,           \* units / project_rate_per_second
    MaxTime             \* bound on the clock

ASSUME ServiceAssumption ==
    /\ IsFiniteSet(Calls)
    /\ FailureThreshold \in Nat \ {0}
    /\ ResetAfter \in Nat \ {0}
    /\ Interval \in Nat \ {0}
    /\ MaxTime \in Nat

VARIABLES
    now,
    circuit,        \* the row of provider_circuit_breakers; status "ABSENT" before it exists
    reservations,   \* created_at of the RATE_LIMIT_RESERVATION audit events
    pc,             \* the gate each call is at
    seen,           \* the clock when the call took its last step
    blocked,        \* blocked_gate of the call's result
    outcome,        \* what the network answered
    credentials,    \* the calls that have resolved their credential
    sends,          \* requests sent so far
    openings, probes    \* how often the circuit opened, and half-open probes admitted

history == <<sends, openings, probes>>
vars == <<now, circuit, reservations, pc, seen, blocked, outcome, credentials, history>>

None == -1      \* opened_at, half_open_probe_at IS NULL

Closed == [status |-> "CLOSED", failures |-> 0, openedAt |-> None, probeAt |-> None]
Absent == [Closed EXCEPT !.status = "ABSENT"]

Init ==
    /\ now = 0
    /\ circuit = Absent
    /\ reservations = <<>>
    /\ pc = [c \in Calls |-> "GOVERNANCE"]
    /\ seen = [c \in Calls |-> 0]
    /\ blocked = [c \in Calls |-> "none"]
    /\ outcome = [c \in Calls |-> "none"]
    /\ credentials = {}
    /\ sends = 0 /\ openings = 0 /\ probes = 0

\* The call moves on; the clock reading of its next transaction is from here on.
Goto(c, label) ==
    /\ pc' = [pc EXCEPT ![c] = label]
    /\ seen' = [seen EXCEPT ![c] = now]

Block(c, gate) ==
    /\ Goto(c, "DONE")
    /\ blocked' = [blocked EXCEPT ![c] = gate]

-----------------------------------------------------------------------------
(* The executor's gates without state *)

\* DEFINITION, CAPABILITY, LICENSE, PROVIDER_POLICY, CREDENTIAL_REFERENCE,
\* CONFIGURATION_VALIDATION, LIVE_AUTHORIZATION, NETWORK.
Governance(c) ==
    /\ pc[c] = "GOVERNANCE"
    /\ \/ Goto(c, "CREDENTIAL") /\ UNCHANGED blocked
       \/ Block(c, "GOVERNANCE")
    /\ UNCHANGED <<now, circuit, reservations, outcome, credentials, history>>

ResolveCredential(c) ==
    /\ pc[c] = "CREDENTIAL"
    /\ credentials' = credentials \cup {c}
    /\ Goto(c, "CIRCUIT")
    /\ UNCHANGED <<now, circuit, reservations, blocked, outcome, history>>

EndpointGate(c) ==
    /\ pc[c] = "ENDPOINT"
    /\ \/ Goto(c, "RATE_LIMIT") /\ UNCHANGED blocked
       \/ Block(c, "ENDPOINT")
    /\ UNCHANGED <<now, circuit, reservations, outcome, credentials, history>>

CacheGate(c) ==
    /\ pc[c] = "CACHE"
    /\ \/ Goto(c, "SEND") /\ UNCHANGED blocked
       \/ Block(c, "CACHE")
    /\ UNCHANGED <<now, circuit, reservations, outcome, credentials, history>>

-----------------------------------------------------------------------------
(* ProviderCircuitBreakerService *)

HalfOpen(t) == [circuit EXCEPT !.status = "HALF_OPEN", !.probeAt = t]

ProbeDue(t) == circuit.status = "OPEN" /\ t >= circuit.openedAt + ResetAfter

CircuitGate_ManyProbes(c) ==
    /\ pc[c] = "CIRCUIT"
    /\ \E t \in seen[c]..now :
          \/ /\ circuit.status \in {"ABSENT", "CLOSED"}
             /\ Goto(c, IF circuit.status = "ABSENT" THEN "CREATING" ELSE "ENDPOINT")
             /\ UNCHANGED <<circuit, blocked, probes>>
          \/ /\ ProbeDue(t) \/ circuit.status = "HALF_OPEN"
             /\ circuit' = HalfOpen(t)
             /\ probes' = probes + 1
             /\ Goto(c, "ENDPOINT")
             /\ UNCHANGED blocked
          \/ /\ circuit.status = "OPEN" /\ ~ProbeDue(t)
             /\ Block(c, "CIRCUIT")
             /\ UNCHANGED <<circuit, probes>>
    /\ UNCHANGED <<now, reservations, outcome, credentials, sends, openings>>

\* before_call(scope, t)
CircuitGate(c) ==
    /\ pc[c] = "CIRCUIT"
    /\ \E t \in seen[c]..now :
          \/ /\ circuit.status \in {"ABSENT", "CLOSED"}
             /\ Goto(c, IF circuit.status = "ABSENT" THEN "CREATING" ELSE "ENDPOINT")
             /\ UNCHANGED <<circuit, blocked, probes>>
          \/ /\ ProbeDue(t)
             /\ circuit' = HalfOpen(t)
             /\ probes' = probes + 1
             /\ Goto(c, "ENDPOINT")
             /\ UNCHANGED blocked
          \/ /\ circuit.status = "HALF_OPEN" \/ (circuit.status = "OPEN" /\ ~ProbeDue(t))
             /\ Block(c, "CIRCUIT")
             /\ UNCHANGED <<circuit, probes>>
    /\ UNCHANGED <<now, reservations, outcome, credentials, sends, openings>>

\* before_call after it found no row: save looks again and inserts a closed one,
\* or overwrites with it what other callers have made of the row since.  An
\* insert that collides with another one raises (Crash).
CreateCircuit(c) ==
    /\ pc[c] = "CREATING"
    /\ circuit' = Closed
    /\ Goto(c, "ENDPOINT")
    /\ UNCHANGED <<now, reservations, blocked, outcome, credentials, history>>

\* A row that does not exist yet is taken to be closed.
Current == IF circuit.status = "ABSENT" THEN Closed ELSE circuit

AfterTransient_ResetsCount(t) ==
    LET failures == Current.failures + 1
        opens == Current.status = "HALF_OPEN" \/ failures >= FailureThreshold
    IN  [status   |-> IF opens THEN "OPEN" ELSE "CLOSED",
         failures |-> IF opens THEN 0 ELSE failures,
         openedAt |-> IF opens THEN t ELSE None,
         probeAt  |-> None]

\* The TRANSIENT_FAILURE branch of record_outcome(scope, outcome, t).
AfterTransient(t) ==
    LET failures == Current.failures + 1
        opens == Current.status = "HALF_OPEN" \/ failures >= FailureThreshold
    IN  [status   |-> IF opens THEN "OPEN" ELSE "CLOSED",
         failures |-> failures,
         openedAt |-> IF opens THEN t ELSE None,
         probeAt  |-> None]

\* record_outcome.  SUCCESS closes the circuit whatever its state and whenever
\* the call was admitted; PERMANENT_FAILURE leaves the state as it is.
RecordOutcome(c) ==
    /\ pc[c] = "ANSWERED"
    /\ \E t \in seen[c]..now :
          circuit' = CASE outcome[c] = "SUCCESS" -> Closed
                       [] outcome[c] = "PERMANENT_FAILURE" -> Current
                       [] outcome[c] = "TRANSIENT_FAILURE" -> AfterTransient(t)
    /\ openings' = openings + (IF circuit.status # "OPEN" /\ circuit'.status = "OPEN" THEN 1 ELSE 0)
    /\ Goto(c, "DONE")
    /\ UNCHANGED <<now, reservations, blocked, outcome, credentials, sends, probes>>

-----------------------------------------------------------------------------
(* ProviderRateLimiter *)

RateGate_NoInterval(c) ==
    /\ pc[c] = "RATE_LIMIT"
    /\ \E t \in seen[c]..now :
          IF reservations = <<>> \/ t >= reservations[Len(reservations)]
          THEN /\ reservations' = Append(reservations, t)
               /\ Goto(c, "CACHE")
               /\ UNCHANGED blocked
          ELSE /\ Block(c, "RATE_LIMIT")
               /\ UNCHANGED reservations
    /\ UNCHANGED <<now, circuit, outcome, credentials, history>>

\* reserve_slot under the advisory lock of the scope.  The latest created_at is
\* the last one inserted: a reading older than it is refused.
RateGate(c) ==
    /\ pc[c] = "RATE_LIMIT"
    /\ \E t \in seen[c]..now :
          IF reservations = <<>> \/ t - reservations[Len(reservations)] >= Interval
          THEN /\ reservations' = Append(reservations, t)
               /\ Goto(c, "CACHE")
               /\ UNCHANGED blocked
          ELSE /\ Block(c, "RATE_LIMIT")
               /\ UNCHANGED reservations
    /\ UNCHANGED <<now, circuit, outcome, credentials, history>>

-----------------------------------------------------------------------------
(* Transport, failures and the environment *)

Send_BeforeCache(c) ==
    /\ pc[c] \in {"RATE_LIMIT", "SEND"}
    /\ \E o \in {"SUCCESS", "TRANSIENT_FAILURE", "PERMANENT_FAILURE"} :
          outcome' = [outcome EXCEPT ![c] = o]
    /\ Goto(c, "ANSWERED")
    /\ sends' = sends + 1
    /\ UNCHANGED <<now, circuit, reservations, blocked, credentials, openings, probes>>

Send(c) ==
    /\ pc[c] = "SEND"
    /\ \E o \in {"SUCCESS", "TRANSIENT_FAILURE", "PERMANENT_FAILURE"} :
          outcome' = [outcome EXCEPT ![c] = o]
    /\ Goto(c, "ANSWERED")
    /\ sends' = sends + 1
    /\ UNCHANGED <<now, circuit, reservations, blocked, credentials, openings, probes>>

\* The transport refuses (OfflineProviderTransport): BLOCKED at the NETWORK gate.
TransportBlocks(c) ==
    /\ pc[c] = "SEND"
    /\ Block(c, "NETWORK")
    /\ UNCHANGED <<now, circuit, reservations, outcome, credentials, history>>

\* The caller dies or an exception leaves the executor; nothing is recorded.
Crash(c) ==
    /\ pc[c] # "DONE"
    /\ Goto(c, "DONE")
    /\ UNCHANGED <<now, circuit, reservations, blocked, outcome, credentials, history>>

\* The caller executes another request.
Again(c) ==
    /\ pc[c] = "DONE"
    /\ Goto(c, "GOVERNANCE")
    /\ blocked' = [blocked EXCEPT ![c] = "none"]
    /\ outcome' = [outcome EXCEPT ![c] = "none"]
    /\ credentials' = credentials \ {c}
    /\ UNCHANGED <<now, circuit, reservations, history>>

Tick ==
    /\ now < MaxTime
    /\ now' = now + 1
    /\ UNCHANGED <<circuit, reservations, pc, seen, blocked, outcome, credentials, history>>

\* execute: the gates in their order, then the transport.
Execute(c) ==
    \/ Governance(c) \/ ResolveCredential(c) \/ CircuitGate(c) \/ CreateCircuit(c) \/ EndpointGate(c)
    \/ RateGate(c) \/ CacheGate(c) \/ Send(c) \/ TransportBlocks(c)

Next ==
    \/ Tick
    \/ \E c \in Calls : Execute(c) \/ RecordOutcome(c) \/ Crash(c) \/ Again(c)

Spec == Init /\ [][Next]_vars

-----------------------------------------------------------------------------
(* Properties *)

Labels == {"GOVERNANCE", "CREDENTIAL", "CIRCUIT", "CREATING", "ENDPOINT", "RATE_LIMIT",
           "CACHE", "SEND", "ANSWERED", "DONE"}
Times == Nat \cup {None}

\* The types of the two tables and of the callers' memory.
TypeOK ==
    /\ now \in Nat
    /\ circuit \in [status : {"ABSENT", "CLOSED", "OPEN", "HALF_OPEN"}, failures : Nat,
                    openedAt : Times, probeAt : Times]
    /\ reservations \in Seq(Nat)
    /\ pc \in [Calls -> Labels]
    /\ seen \in [Calls -> Nat] /\ \A c \in Calls : seen[c] <= now
    /\ blocked \in [Calls -> {"none", "GOVERNANCE", "CIRCUIT", "ENDPOINT", "RATE_LIMIT", "CACHE",
                              "NETWORK"}]
    /\ outcome \in [Calls -> {"none", "SUCCESS", "TRANSIENT_FAILURE", "PERMANENT_FAILURE"}]
    /\ \A c \in Calls : pc[c] = "ANSWERED" => outcome[c] # "none"
    /\ credentials \subseteq Calls
    /\ sends \in Nat /\ openings \in Nat /\ probes \in Nat

\* Whatever late outcomes are recorded in whatever order, the row is coherent:
\* it is closed exactly while the failures counted are below the threshold, a
\* circuit that is not closed says since when (so that it can leave OPEN), and
\* only a half-open one has a probe.
CircuitCoherent ==
    /\ circuit.status \in {"ABSENT", "CLOSED"} <=> circuit.failures < FailureThreshold
    /\ circuit.status \in {"ABSENT", "CLOSED"} <=> circuit.openedAt = None
    /\ circuit.status = "HALF_OPEN" <=> circuit.probeAt # None

\* One half-open probe: each opening of the circuit admits at most one, even
\* when callers race for it, outcomes of older calls arrive meanwhile, or the
\* probe is lost; an open circuit still has the probe of its opening to give.
OneProbePerOpening ==
    /\ probes <= openings
    /\ circuit.status = "OPEN" => probes < openings

\* Reservations of one scope are at least the interval apart, although every
\* caller brings its own, possibly outdated, clock reading.
SlotsSpaced ==
    \A i, j \in DOMAIN reservations : i < j => reservations[j] - reservations[i] >= Interval

\* Nothing goes out without a slot of its own: the requests sent, and the ones
\* past the RATE_LIMIT gate, never outnumber the reservations.
SlotPerSend ==
    sends + Cardinality({c \in Calls : pc[c] \in {"CACHE", "SEND"}}) <= Len(reservations)

\* "`OPEN` blocks before credential resolution/network" (docs/specs/stage-9-
\* production-data-provider-design.md): execute resolves the credential before
\* it asks the CIRCUIT gate.
OpenBlocksBeforeCredential ==
    \A c \in Calls : blocked[c] = "CIRCUIT" => c \notin credentials
=============================================================================
