--------------------------- MODULE EvidencePipeline ---------------------------
(***************************************************************************)
(* The commands that turn provider payloads into research evidence, run by *)
(* several processes over one database and one blob directory: securities  *)
(* seed-v0 and resolve, ingest, snapshot create, financials seed-v0,       *)
(* normalize, calculate, register-version, parse, build-lexical-index and  *)
(* search.                                                                 *)
(***************************************************************************)
EXTENDS Knowledge

CONSTANTS
    InitialStates,      \* what earlier commands may have left: db, root, written
    Queries             \* what securities resolve may be asked

ASSUME TablesAssumption ==
    Tables = {"data_providers", "provider_instrument_mappings", "ingestion_runs",
              "provider_request_logs", "raw_payloads", "daily_price_bars", "corporate_actions",
              "provider_financial_facts", "source_documents", "data_snapshots",
              "canonical_financial_concepts", "formula_definitions", "normalized_financial_facts",
              "calculation_runs", "logical_documents", "document_versions", "document_parse_runs",
              "document_chunks", "snapshot_document_versions", "lexical_index_versions",
              "retrieval_runs", "security_master"}

\* What earlier commands left: a directory that only puts wrote, in which
\* every stored payload is whole, snapshots of what was in the tables, and
\* the facts and metrics made from them.
ASSUME InitialAssumption ==
    \A before \in InitialStates :
        /\ DOMAIN before.db = Tables
        /\ ValidDirectory(before.root, before.written)
        /\ \A p \in before.db["raw_payloads"] :
              \E put \in DOMAIN before.written :
                  WholeBlob(before.root, before.written, put, p.uri, p.checksum)
        /\ ValidEvidence(before.db) /\ LaterLosesNothing(before.db["data_snapshots"])
        /\ ValidFinancials(before.db)
        /\ ValidDocuments(before.db, before.root, before.written)

\* The rows of provider_financial_facts, stored or to come: the id that a
\* row is given (a random UUID) is no other row's.
AnswerRowsOf(req) ==
    UNION {RowsFrom(IdempotencyKey(req), env) : env \in Adapters[req.provider].answers[req.category]}
FactRows ==
    (UNION {before.db["provider_financial_facts"] : before \in InitialStates})
    \cup {r \in UNION {AnswerRowsOf(req) : req \in Requests} : r.category = "FINANCIAL_FACTS"}
ASSUME FactRowsAssumption ==
    \A r, q \in FactRows : r.rec.id \in Nat /\ (r.rec.id = q.rec.id => r = q)

\* The security master before and after a seed.
Masters(stored) ==
    IF SeedConflict(stored) THEN {stored} ELSE {stored, stored \cup ToSet(Manifest)}

\* What the exact lookups of a query find among one set of rows.
Readings(q, rows) == {Lookups(q, [k \in 1..6 |-> rows])[n] : n \in 1..5}

\* Names are not shared, as in SECURITY_MASTER_SEED_V0: whichever lookup
\* finds anything, and whether or not the manifest is stored, it finds the
\* same securities, and nothing goes by the name of an exchange and a symbol
\* that is not listed there.
ASSUME NamesAssumption ==
    \A before \in InitialStates :
        LET masters == Masters(before.db["security_master"])
        IN  /\ IsFiniteSet(before.db["security_master"])
            /\ \A q \in Queries : \A m, n \in masters :
                  /\ \A f \in Readings(q, m), g \in Readings(q, n) : f = {} \/ g = {} \/ f = g
                  /\ LET explicit == FindExchangeSymbol(m, q.exchange, q.listed)
                     IN  explicit.recognized /\ explicit.candidates = {} => Readings(q, n) = {{}}

\* No command asks for fewer than the default, which is 10.
ASSUME CandidatesAssumption == MaxCandidates > 1

(***************************************************************************)
(* securities seed-v0: one transaction under an advisory lock.             *)
(***************************************************************************)
SeedMasterStart(s) == Start(s, "seed-master", "seed-lock", <<>>)

HoldsSeedLock(s) == sess[s].cmd = "seed-master" /\ sess[s].pc # "seed-lock"

\* Mutant: no lock is taken.
AcquireSeedLock_None(s) == TRUE

AcquireSeedLock(s) == \A u \in Sessions \ {s} : ~HoldsSeedLock(u)

\* Every row is looked up by its id and by its key.
SeedMasterRead(s) ==
    /\ At(s, "seed-lock") /\ AcquireSeedLock(s)
    /\ LET stored == Visible(s, "security_master")
       IN  IF SeedConflict(stored) THEN Goto(s, "seed-refused", sess[s].tx, <<>>)
           ELSE Goto(s, "seed-insert", sess[s].tx, ToSet(Manifest) \ stored)
    /\ UNCHANGED blobVars

\* The inserts wait for a transaction that holds one of their keys, and fail
\* when the key is taken.
SeedMasterInsert(s) ==
    /\ At(s, "seed-insert")
    /\ LET new == sess[s].work
           taken(rows) == \E r \in new, q \in rows : Collides(r, q)
       IN  /\ ~taken(Pending(s, "security_master"))
           /\ IF taken(db["security_master"]) THEN Goto(s, "seed-refused", sess[s].tx, <<>>)
              ELSE Goto(s, "seed-done", Insert(s, "security_master", new), new)
    /\ UNCHANGED blobVars

SeedMasterEnd(s) ==
    /\ \/ At(s, "seed-done") /\ Commit(s)
       \/ At(s, "seed-refused") /\ Rollback(s)
    /\ UNCHANGED blobVars

(***************************************************************************)
(* securities resolve: each lookup is a statement of its own and sees what *)
(* was committed before it.                                                *)
(***************************************************************************)
ResolveStart(s, q) ==
    Start(s, "resolve", "lookups", [q |-> q, before |-> db["security_master"]])

\* The first k lookups were over when another process changed the master.
ResolveLookups(s) ==
    /\ At(s, "lookups")
    /\ \E k \in 0..6 :
          LET w == sess[s].work
              views == [n \in 1..6 |-> IF n <= k THEN w.before ELSE db["security_master"]]
          IN  Goto(s, "answer", sess[s].tx, [q |-> w.q, result |-> Resolve(w.q, views)])
    /\ UNCHANGED blobVars

ResolveEnd(s) == At(s, "answer") /\ Rollback(s) /\ UNCHANGED blobVars

SecuritiesStep(s) ==
    \/ SeedMasterStart(s) \/ SeedMasterRead(s) \/ SeedMasterInsert(s) \/ SeedMasterEnd(s)
    \/ \E q \in Queries : ResolveStart(s, q)
    \/ ResolveLookups(s) \/ ResolveEnd(s)

Init == \E before \in InitialStates : DataInit(before)

Next == \E s \in Sessions :
    SecuritiesStep(s) \/ DataStep(s) \/ FinancialsStep(s) \/ KnowledgeStep(s)

Spec == Init /\ [][Next]_vars

(***************************************************************************)
(* Properties.                                                             *)
(***************************************************************************)

\* The rows of every table have their columns and satisfy the constraints
\* of the migrations, whatever two commands write at once; no directory
\* entry is torn from the put that wrote it.
TypeOK == DataTypeOK /\ FinancialsTypeOK /\ KnowledgeTypeOK

\* A seed that runs at the same time as another, or again, is never refused:
\* only a stored row that differs from the manifest stops it, and then it
\* changes nothing (SqlAlchemySecurityMasterRepository.acquire_seed_lock).
SeedRefusedOnlyByEdit ==
    \A s \in Sessions :
        At(s, "seed-refused") =>
            /\ sess[s].tx = EmptyTx
            /\ \E r \in db["security_master"] \ ToSet(Manifest), q \in ToSet(Manifest) : Collides(r, q)

\* The securities that a query names exactly, in any way, or on the exchange
\* that it names.
NamedBy(q, rows) ==
    LET explicit == FindExchangeSymbol(rows, q.exchange, q.listed)
    IN  IF explicit.recognized THEN explicit.candidates
        ELSE FindExternalIdentifier(rows, q.cik) \cup FindSymbol(rows, q.symbol)
             \cup FindActiveAlias(rows, q.name) \cup FindIssuerName(rows, q.name)

\* A security is resolved only when the query names it and no other, also
\* when the master is seeded between two lookups of the query, so that the
\* lookups that come first find nothing (SecurityResolutionService.resolve).
ResolvedIsNamed ==
    \A s \in Sessions :
        At(s, "answer") /\ sess[s].work.result.status = "RESOLVED" =>
            NamedBy(sess[s].work.q, db["security_master"]) = sess[s].work.result.candidates

FactsUsed(run, code) ==
    {f \in db["normalized_financial_facts"] :
        \E role \in DOMAIN run.metrics[code].inputs :
            f.id = run.metrics[code].inputs[role] /\ f.snapshot = run.snapshot}

\* A fact comes from an item of a snapshot, published by its cutoff.
SourcedAt(f, key) ==
    \E r \in db["data_snapshots"] :
        /\ SnapshotKey(r) = key
        /\ \E i \in r.items : /\ i.category = "FINANCIAL_FACTS"
                              /\ i.rec.id = f.source
                              /\ i.rec.published # 0
                              /\ i.rec.published <= r.asOf

SourcedInputs(f, key) ==
    \A i \in DOMAIN f.inputs :
        \E g \in db["normalized_financial_facts"] :
            g.id = f.inputs[i] /\ g.snapshot = f.snapshot /\ SourcedAt(g, key)

\* Every input of a stored metric is a stored fact of the run's own
\* snapshot, and leads, through the facts it was derived from, to an item of
\* that snapshot that was published by its cutoff.
MetricsPointInTime ==
    \A run \in db["calculation_runs"] : \A code \in DOMAIN run.metrics :
        LET inputs == run.metrics[code].inputs
        IN  /\ Cardinality(FactsUsed(run, code)) = Cardinality({inputs[r] : r \in DOMAIN inputs})
            /\ \A f \in FactsUsed(run, code) :
                  SourcedAt(f, run.snapshot) /\ SourcedInputs(f, run.snapshot)

Days(f) == f.period.start .. f.period.end

\* A trailing-twelve-month amount counts every day of one year exactly once:
\* four quarters that follow each other without a gap, or the annual amount
\* extended by this year's part and shortened by the same part of the last.
TtmCoversOneYear ==
    \A run \in db["calculation_runs"] : \A code \in DOMAIN TtmConcept :
        LET m == run.metrics[code]
            facts == FactsUsed(run, code)
            of(role) == CHOOSE f \in facts : f.id = m.inputs[role]
            count(day) == IF m.period = "TTM:FOUR_QUARTERS"
                          THEN Cardinality({role \in DOMAIN m.inputs : day \in Days(of(role))})
                          ELSE (IF day \in Days(of("latest_fy")) THEN 1 ELSE 0)
                               + (IF day \in Days(of("latest_ytd")) THEN 1 ELSE 0)
                               - (IF day \in Days(of("prior_ytd")) THEN 1 ELSE 0)
            last == Max({of(role).period.end : role \in DOMAIN m.inputs})
            first == Min({of(role).period.start : role \in DOMAIN m.inputs})
            once == {day \in first..last : count(day) = 1}
        IN  m.value # <<>> =>
              /\ Cardinality(once) \in 358..372
              /\ once = (last - Cardinality(once) + 1)..last
              /\ \A day \in (first..last) \ once : count(day) = 0

\* A normalize command is refused by the database only when another one
\* stored facts of the same snapshot in the meantime, never on account of
\* the versions of its own facts.
VersionsCoexist ==
    \A s \in Sessions :
        At(s, "refused") =>
            sess[s].work.stored # FactsOf(db, sess[s].work.key)
=============================================================================
