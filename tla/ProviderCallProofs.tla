------------------------- MODULE ProviderCallProofs -------------------------
(***************************************************************************)
(* The safety properties of ProviderCall for any number of callers, any    *)
(* threshold, reset window and rate interval, and any clock skew between   *)
(* reading the clock and getting the lock.  The invariant is the           *)
(* conjunction of the properties themselves; each is disturbed by two or   *)
(* three of the actions only.                                              *)
(***************************************************************************)
EXTENDS ProviderCall, FiniteSetTheorems, TLAPS

\* The calls past the RATE_LIMIT gate that have not sent yet.
Holding == {c \in Calls : pc[c] \in {"CACHE", "SEND"}}

Inv == /\ TypeOK /\ CircuitCoherent /\ OneProbePerOpening /\ SlotsSpaced
       /\ SlotPerSend

BlockedGates == {"none", "GOVERNANCE", "CIRCUIT", "ENDPOINT", "RATE_LIMIT", "CACHE", "NETWORK"}

\* The part of TypeOK that is about the callers' memory.
MemoryOK ==
    /\ pc \in [Calls -> Labels]
    /\ seen \in [Calls -> Nat] /\ \A c \in Calls : seen[c] <= now
    /\ blocked \in [Calls -> BlockedGates]
    /\ outcome \in [Calls -> {"none", "SUCCESS", "TRANSIENT_FAILURE", "PERMANENT_FAILURE"}]
    /\ \A c \in Calls : pc[c] = "ANSWERED" => outcome[c] # "none"

\* A call that moves on, or is blocked by a gate, keeps the callers' memory
\* well-typed.
LEMMA MoveKeepsMemory ==
    ASSUME TypeOK, NEW c \in Calls, UNCHANGED <<now, outcome>>,
           \/ UNCHANGED blocked
              /\ \E label \in Labels \ {"ANSWERED"} : Goto(c, label)
           \/ \E gate \in BlockedGates : Block(c, gate)
    PROVE  MemoryOK'
<1>1. PICK label \in Labels \ {"ANSWERED"} : Goto(c, label)
    BY DEF Block, Labels
<1>2. blocked' \in [Calls -> BlockedGates]
    BY DEF TypeOK, Block, BlockedGates
<1> QED
  <2>1. pc' \in [Calls -> Labels] /\ seen' \in [Calls -> Nat]
      BY <1>1 DEF TypeOK, Goto
  <2>2. \A d \in Calls : seen'[d] <= now'
      BY <1>1 DEF TypeOK, Goto
  <2>3. \A d \in Calls : pc'[d] = "ANSWERED" => outcome'[d] # "none"
      BY <1>1 DEF TypeOK, Goto
  <2> QED
      BY <2>1, <2>2, <2>3, <1>2 DEF TypeOK, MemoryOK

\* The initial states satisfy the invariant.
LEMMA InitInv == Init => Inv
<1> SUFFICES ASSUME Init PROVE Inv
    OBVIOUS
<1> USE ServiceAssumption
<1>1. TypeOK
    BY DEF Init, TypeOK, Absent, Closed, None, Times, Labels
<1>2. CircuitCoherent /\ OneProbePerOpening /\ SlotsSpaced
    BY DEF Init, CircuitCoherent, OneProbePerOpening, SlotsSpaced, Absent, Closed, None
<1>3. SlotPerSend
  <2>1. {c \in Calls : pc[c] \in {"CACHE", "SEND"}} = {}
      BY DEF Init
  <2> QED
      BY <2>1, FS_EmptySet DEF SlotPerSend, Init
<1> QED
    BY <1>1, <1>2, <1>3 DEF Inv

\* Every step keeps the types.
LEMMA NextType == TypeOK /\ [Next]_vars => TypeOK'
<1> SUFFICES ASSUME TypeOK, [Next]_vars PROVE TypeOK'
    OBVIOUS
<1> USE ServiceAssumption
<1>1. ASSUME NEW c \in Calls, Governance(c) \/ EndpointGate(c) \/ CacheGate(c)
                              \/ TransportBlocks(c) \/ Crash(c) \/ ResolveCredential(c)
      PROVE TypeOK'
  <2>1. MemoryOK'
      BY <1>1, MoveKeepsMemory DEF Governance, EndpointGate, CacheGate, TransportBlocks, Crash,
                                   ResolveCredential, Labels, BlockedGates
  <2> QED
      BY <1>1, <2>1 DEF TypeOK, MemoryOK, BlockedGates, Governance, EndpointGate, CacheGate,
                        TransportBlocks, Crash, ResolveCredential, history
<1>8. ASSUME NEW c \in Calls, Again(c)
      PROVE TypeOK'
    BY <1>8 DEF TypeOK, Again, Goto, Labels, history
<1>9. ASSUME NEW c \in Calls, CreateCircuit(c)
      PROVE TypeOK'
  <2>1. MemoryOK'
      BY <1>9, MoveKeepsMemory DEF CreateCircuit, Labels
  <2>2. circuit' \in [status : {"ABSENT", "CLOSED", "OPEN", "HALF_OPEN"}, failures : Nat,
                      openedAt : Times, probeAt : Times]
      BY <1>9 DEF CreateCircuit, Closed, None, Times
  <2> QED
      BY <1>9, <2>1, <2>2 DEF TypeOK, MemoryOK, BlockedGates, CreateCircuit, history
<1>2. ASSUME NEW c \in Calls, Send(c)
      PROVE TypeOK'
    BY <1>2 DEF TypeOK, Send, Goto, Labels
<1>3. ASSUME NEW c \in Calls, CircuitGate(c)
      PROVE TypeOK'
  <2>1. MemoryOK'
      BY <1>3, MoveKeepsMemory DEF CircuitGate, Labels, BlockedGates
  <2>2. circuit' \in [status : {"ABSENT", "CLOSED", "OPEN", "HALF_OPEN"}, failures : Nat,
                      openedAt : Times, probeAt : Times]
    <3>1. \/ circuit' = circuit
          \/ \E t \in seen[c]..now : circuit' = HalfOpen(t)
        BY <1>3 DEF CircuitGate
    <3>2. \A t \in seen[c]..now : t \in Nat
        BY DEF TypeOK
    <3>3. ASSUME NEW t \in Nat
          PROVE HalfOpen(t) \in [status : {"ABSENT", "CLOSED", "OPEN", "HALF_OPEN"},
                                 failures : Nat, openedAt : Times, probeAt : Times]
        BY DEF TypeOK, HalfOpen, Times
    <3> QED
        BY <3>1, <3>2, <3>3 DEF TypeOK
  <2>3. probes' \in Nat
      BY <1>3 DEF TypeOK, CircuitGate
  <2> QED
      BY <1>3, <2>1, <2>2, <2>3 DEF TypeOK, MemoryOK, BlockedGates, CircuitGate
<1>4. ASSUME NEW c \in Calls, RecordOutcome(c)
      PROVE TypeOK'
  <2>1. circuit' \in [status : {"ABSENT", "CLOSED", "OPEN", "HALF_OPEN"}, failures : Nat,
                      openedAt : Times, probeAt : Times]
      BY <1>4 DEF TypeOK, RecordOutcome, AfterTransient, Current, Closed, None, Times
  <2> QED
      BY <1>4, <2>1 DEF TypeOK, RecordOutcome, Goto, Labels
<1>5. ASSUME NEW c \in Calls, RateGate(c)
      PROVE TypeOK'
  <2>1. reservations' \in Seq(Nat)
    <3>1. \A t \in seen[c]..now : t \in Nat
        BY DEF TypeOK
    <3>2. \/ UNCHANGED reservations
          \/ \E t \in seen[c]..now : reservations' = Append(reservations, t)
        BY <1>5 DEF RateGate
    <3>3. ASSUME NEW t \in Nat PROVE Append(reservations, t) \in Seq(Nat)
        BY DEF TypeOK
    <3> QED
        BY <3>1, <3>2, <3>3 DEF TypeOK
  <2>2. MemoryOK'
      BY <1>5, MoveKeepsMemory DEF RateGate, Labels, BlockedGates
  <2> QED
      BY <1>5, <2>1, <2>2 DEF TypeOK, MemoryOK, BlockedGates, RateGate, history
<1>6. CASE Tick
    BY <1>6 DEF TypeOK, Tick, history
<1>7. CASE UNCHANGED vars
    BY <1>7 DEF TypeOK, vars, history
<1> QED
    BY <1>1, <1>2, <1>3, <1>4, <1>5, <1>6, <1>7, <1>8, <1>9 DEF Next, Execute

\* before_call and record_outcome keep the circuit row coherent and give one
\* probe per opening; nothing else writes the row.
LEMMA NextCircuit ==
    Inv /\ [Next]_vars => (CircuitCoherent /\ OneProbePerOpening)'
<1> SUFFICES ASSUME Inv, [Next]_vars PROVE CircuitCoherent' /\ OneProbePerOpening'
    OBVIOUS
<1> USE ServiceAssumption
<1>t. TypeOK /\ CircuitCoherent /\ OneProbePerOpening
    BY DEF Inv
<1>1. ASSUME NEW c \in Calls, CircuitGate(c)
      PROVE CircuitCoherent' /\ OneProbePerOpening'
  <2>1. CASE circuit' = circuit /\ probes' = probes
      BY <2>1, <1>1, <1>t DEF CircuitGate, CircuitCoherent, OneProbePerOpening
  <2>3. ASSUME NEW t \in seen[c]..now, ProbeDue(t), circuit' = HalfOpen(t), probes' = probes + 1
        PROVE CircuitCoherent' /\ OneProbePerOpening'
      BY <2>3, <1>1, <1>t DEF TypeOK, CircuitGate, CircuitCoherent, OneProbePerOpening, ProbeDue,
                              HalfOpen, None, Times
  <2> QED
      BY <1>1, <2>1, <2>3 DEF CircuitGate
<1>4. ASSUME NEW c \in Calls, CreateCircuit(c)
      PROVE CircuitCoherent' /\ OneProbePerOpening'
    BY <1>4, <1>t DEF TypeOK, CreateCircuit, CircuitCoherent, OneProbePerOpening, Closed, None,
                      history
<1>2. ASSUME NEW c \in Calls, RecordOutcome(c)
      PROVE CircuitCoherent' /\ OneProbePerOpening'
  <2>1. PICK t \in seen[c]..now :
            \/ circuit' = Closed
            \/ circuit' = Current
            \/ circuit' = AfterTransient(t)
      BY <1>2, <1>t DEF TypeOK, RecordOutcome
  <2>2. t \in Nat
      BY <1>t DEF TypeOK
  <2>3. CircuitCoherent'
      BY <2>1, <2>2, <1>t DEF TypeOK, CircuitCoherent, AfterTransient, Current, Closed, None, Times
  <2>4. OneProbePerOpening'
      BY <2>1, <1>2, <1>t DEF TypeOK, RecordOutcome, OneProbePerOpening
  <2> QED
      BY <2>3, <2>4
<1>3. ASSUME UNCHANGED <<circuit, openings, probes>>
      PROVE CircuitCoherent' /\ OneProbePerOpening'
    BY <1>3, <1>t DEF CircuitCoherent, OneProbePerOpening
<1> QED
    BY <1>1, <1>2, <1>3, <1>4 DEF Next, Execute, Governance, EndpointGate, CacheGate, TransportBlocks,
       Crash, ResolveCredential, Again, Send, RateGate, Tick, vars, history

\* reserve_slot is the only writer of the reservations.
LEMMA NextSlots == Inv /\ [Next]_vars => SlotsSpaced'
<1> SUFFICES ASSUME Inv, [Next]_vars PROVE SlotsSpaced'
    OBVIOUS
<1> USE ServiceAssumption
<1>t. TypeOK /\ SlotsSpaced
    BY DEF Inv
<1>1. ASSUME NEW c \in Calls, RateGate(c)
      PROVE SlotsSpaced'
  <2>1. CASE UNCHANGED reservations
      BY <2>1, <1>t DEF SlotsSpaced
  <2>2. ASSUME NEW t \in seen[c]..now, reservations' = Append(reservations, t),
               reservations = <<>> \/ t - reservations[Len(reservations)] >= Interval
        PROVE SlotsSpaced'
    <3> DEFINE L == Len(reservations)
    <3>1. L \in Nat /\ t \in Nat /\ \A i \in 1..L : reservations[i] \in Nat
        BY <1>t DEF TypeOK
    <3>2. Len(reservations') = L + 1 /\ reservations'[L + 1] = t
          /\ \A i \in 1..L : reservations'[i] = reservations[i]
        BY <2>2, <1>t DEF TypeOK
    <3>3. L # 0 => t - reservations[L] >= Interval
        BY <2>2, <1>t DEF TypeOK
    <3>4. \A i, j \in 1..L : i < j => reservations[j] - reservations[i] >= Interval
        BY <1>t DEF TypeOK, SlotsSpaced
    <3>5. DOMAIN reservations' = 1..(L + 1)
        BY <3>2, <2>2, <1>t DEF TypeOK
    <3> HIDE DEF L
    <3>6. ASSUME NEW i \in 1..(L + 1), NEW j \in 1..(L + 1), i < j
          PROVE reservations'[j] - reservations'[i] >= Interval
      <4>1. CASE j = L + 1
        <5>1. i \in 1..L /\ L # 0 /\ L \in 1..L
            BY <3>6, <4>1, <3>1
        <5>2. CASE i = L
            BY <5>1, <5>2, <4>1, <3>1, <3>2, <3>3
        <5>3. CASE i < L
          <6>1. reservations[L] - reservations[i] >= Interval
              BY <5>1, <5>3, <3>4
          <6> QED
              BY <6>1, <5>1, <4>1, <3>1, <3>2, <3>3
        <5> QED
            BY <5>1, <5>2, <5>3, <3>1
      <4>2. CASE j # L + 1
          BY <4>2, <3>6, <3>1, <3>2, <3>4
      <4> QED
          BY <4>1, <4>2
    <3> QED
        BY <3>5, <3>6 DEF SlotsSpaced
  <2> QED
      BY <1>1, <2>1, <2>2 DEF RateGate
<1>2. ASSUME UNCHANGED reservations
      PROVE SlotsSpaced'
    BY <1>2, <1>t DEF SlotsSpaced
<1> QED
    BY <1>1, <1>2 DEF Next, Execute, Governance, EndpointGate, CacheGate, TransportBlocks,
       Crash, ResolveCredential, Again, Send, CircuitGate, CreateCircuit, RecordOutcome, Tick, vars,
       history

\* A call that enters or leaves the calls holding a slot changes their number by one.
LEMMA HoldingSize ==
    /\ IsFiniteSet(Holding) /\ Cardinality(Holding) \in Nat
    /\ \A c \in Holding : Cardinality(Holding \ {c}) = Cardinality(Holding) - 1
    /\ \A c \in Calls \ Holding : Cardinality(Holding \cup {c}) = Cardinality(Holding) + 1
<1>1. Holding \in SUBSET Calls
    BY DEF Holding
<1>2. IsFiniteSet(Holding)
    BY <1>1, FS_Subset, ServiceAssumption
<1>3. Cardinality(Holding) \in Nat
    BY <1>2, FS_CardinalityType
<1>4. \A c \in Holding : Cardinality(Holding \ {c}) = Cardinality(Holding) - 1
    BY <1>2, FS_RemoveElement
<1>5. \A c \in Calls \ Holding : Cardinality(Holding \cup {c}) = Cardinality(Holding) + 1
    BY <1>2, FS_AddElement
<1> QED
    BY <1>2, <1>3, <1>4, <1>5

\* A request is sent only by a call that holds a slot, and gives it up.
LEMMA NextSends == Inv /\ [Next]_vars => SlotPerSend'
<1> SUFFICES ASSUME Inv, [Next]_vars PROVE SlotPerSend'
    OBVIOUS
<1>t. TypeOK /\ sends + Cardinality(Holding) <= Len(reservations)
    BY DEF Inv, SlotPerSend, Holding
<1>n. sends \in Nat /\ Len(reservations) \in Nat /\ Cardinality(Holding) \in Nat
    BY <1>t, HoldingSize DEF TypeOK
<1>h. SlotPerSend' <=> sends' + Cardinality(Holding') <= Len(reservations')
    BY DEF SlotPerSend, Holding
<1>1. ASSUME NEW c \in Calls, RateGate(c)
      PROVE SlotPerSend'
  <2>1. sends' = sends /\ c \in Calls \ Holding
      BY <1>1 DEF RateGate, Holding, history
  <2>2. CASE UNCHANGED reservations /\ pc' = [pc EXCEPT ![c] = "DONE"]
    <3>1. Holding' = Holding
        BY <2>1, <2>2, <1>t DEF Holding, TypeOK
    <3> QED
        BY <3>1, <2>1, <2>2, <1>t, <1>h
  <2>3. ASSUME NEW t \in seen[c]..now, reservations' = Append(reservations, t),
               pc' = [pc EXCEPT ![c] = "CACHE"]
        PROVE SlotPerSend'
    <3>1. Holding' = Holding \cup {c}
        BY <2>3, <1>t DEF Holding, TypeOK
    <3>2. Cardinality(Holding') = Cardinality(Holding) + 1
        BY <3>1, <2>1, HoldingSize
    <3>3. Len(reservations') = Len(reservations) + 1
        BY <2>3, <1>t DEF TypeOK
    <3> QED
        BY <3>2, <3>3, <2>1, <1>t, <1>h, <1>n
  <2> QED
      BY <1>1, <2>2, <2>3 DEF RateGate, Block, Goto
<1>2. ASSUME NEW c \in Calls, Send(c)
      PROVE SlotPerSend'
  <2>1. c \in Holding /\ Holding' = Holding \ {c}
      BY <1>2, <1>t DEF Holding, Send, Goto, TypeOK
  <2>2. Cardinality(Holding') = Cardinality(Holding) - 1
      BY <2>1, HoldingSize
  <2> QED
      BY <2>2, <1>2, <1>t, <1>h, <1>n DEF Send
<1>3. ASSUME NEW c \in Calls, CacheGate(c) \/ TransportBlocks(c) \/ Crash(c)
      PROVE SlotPerSend'
  <2>1. \/ Holding' = Holding
        \/ c \in Holding /\ Holding' = Holding \ {c}
      BY <1>3, <1>t DEF Holding, CacheGate, TransportBlocks, Crash, Block, Goto, TypeOK
  <2>2. \/ Cardinality(Holding') = Cardinality(Holding)
        \/ Cardinality(Holding') = Cardinality(Holding) - 1
      BY <2>1, HoldingSize
  <2>3. UNCHANGED <<sends, reservations>>
      BY <1>3 DEF CacheGate, TransportBlocks, Crash, history
  <2> QED
      BY <2>2, <2>3, <1>t, <1>h, <1>n
<1>4. ASSUME NEW c \in Calls, Governance(c) \/ ResolveCredential(c) \/ CircuitGate(c)
                              \/ CreateCircuit(c) \/ EndpointGate(c) \/ RecordOutcome(c) \/ Again(c)
      PROVE SlotPerSend'
  <2>1. Holding' = Holding /\ UNCHANGED <<sends, reservations>>
      BY <1>4, <1>t DEF Holding, Governance, ResolveCredential, CircuitGate, CreateCircuit,
                        EndpointGate, RecordOutcome, Again, Block, Goto, TypeOK, history
  <2> QED
      BY <2>1, <1>t, <1>h
<1>5. ASSUME UNCHANGED <<pc, sends, reservations>>
      PROVE SlotPerSend'
    BY <1>5, <1>t, <1>h DEF Holding
<1> QED
    BY <1>1, <1>2, <1>3, <1>4, <1>5 DEF Next, Execute, Tick, vars, history

\* The invariant holds in every reachable state.
LEMMA Invariance == Spec => []Inv
<1>1. Inv /\ [Next]_vars => Inv'
    BY NextType, NextCircuit, NextSlots, NextSends DEF Inv
<1> QED
    BY <1>1, InitInv, PTL DEF Spec

\* The rows of the two services and the callers' memory keep their types.
THEOREM CallTypes == Spec => []TypeOK
BY Invariance, PTL DEF Inv

\* The persisted circuit stays coherent, for every threshold and reset window and
\* any number of callers.
THEOREM CircuitSound == Spec => []CircuitCoherent
BY Invariance, PTL DEF Inv

\* An opening of the circuit grants one half-open probe.
THEOREM ProbesBounded == Spec => []OneProbePerOpening
BY Invariance, PTL DEF Inv

\* The rate limiter spaces its reservations.
THEOREM RateSound == Spec => []SlotsSpaced
BY Invariance, PTL DEF Inv

\* Every request that was sent has a reservation of its own.
THEOREM RequestsPaced == Spec => []SlotPerSend
BY Invariance, PTL DEF Inv
=============================================================================
