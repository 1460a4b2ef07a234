------------------------------ MODULE DataAccess ------------------------------
(***************************************************************************)
(* Evidence of one security: ingestion of provider payloads and immutable  *)
(* point-in-time snapshots (domain/data_access, its repository, its tables *)
(* and the two commands of cli_data.py that write).                        *)
(*                                                                         *)
(* A command is one process with one transaction.  Rows it inserts are     *)
(* seen by it alone (sess[s].tx) until it commits; a second insert of the  *)
(* same unique key, or a SELECT FOR UPDATE of a locked row, waits for the  *)
(* holder to end.  Times are small integers, 0 is NULL; the checksum of a  *)
(* document is the document; the exchange's time zone is UTC.              *)
(***************************************************************************)
EXTENDS BlobStorage, SecurityMaster

CONSTANTS
    Adapters,           \* registered adapters: descriptor, symbol and answers
    Requests,           \* ingestion requests: provider, category, asOf
    SnapshotRequests,   \* snapshot requests: asOf, categories, preference
    ItemLimit,          \* items per category of a snapshot
    MaxCommands,        \* bound on commands started
    Tables,             \* the names of the tables
    SecurityQuery       \* how the commands name the security (record)

ASSUME DataAssumption == ItemLimit \in 1..99 /\ MaxCommands \in Nat

ASSUME AnswersAssumption ==
    \A req \in Requests : \A env \in Adapters[req.provider].answers[req.category] :
        /\ env.raw.size \in Nat /\ env.retrieved \in Nat
        /\ env.records \in Seq(ToSet(env.records))
        /\ \A i \in DOMAIN env.records :
              /\ env.records[i].date \in Nat
              /\ env.category = "FILING_METADATA" => env.records[i].status # "AVAILABLE"

ASSUME SnapshotAssumption ==
    \A q \in SnapshotRequests :
        /\ q.asOf \in Nat /\ q.categories \in Seq(ToSet(q.categories))
        /\ q.preference \in Seq(ToSet(q.preference))

VARIABLES
    db,         \* committed rows of every table
    sess,       \* the command of each session
    commands    \* commands started

dataVars == <<db, sess, commands>>
vars == <<blobVars, dataVars>>

DataCategories == {"DAILY_PRICES", "CORPORATE_ACTIONS", "FINANCIAL_FACTS", "FILING_METADATA",
                   "SOURCE_DOCUMENTS"}
SnapshotCategories == DataCategories \ {"SOURCE_DOCUMENTS"}
ProviderStatuses == {"APPROVED", "APPROVED_FOR_PERSONAL_RESEARCH_ONLY", "NEEDS_CREDENTIALS",
                     "NEEDS_LICENSE_CONFIRMATION", "EXPERIMENTAL", "NOT_ALLOWED"}
QualityStatuses == {"PASS", "PARTIAL", "BLOCKED", "FAIL"}
RecordType == [DAILY_PRICES |-> "daily_price", CORPORATE_ACTIONS |-> "corporate_action",
               FINANCIAL_FACTS |-> "financial_fact", FILING_METADATA |-> "filing_metadata"]
RecordTables == [DAILY_PRICES |-> "daily_price_bars", CORPORATE_ACTIONS |-> "corporate_actions",
                 FINANCIAL_FACTS |-> "provider_financial_facts",
                 FILING_METADATA |-> "source_documents"]

EmptyTx == [t \in Tables |-> {}]
IdleSession == [cmd |-> "idle", pc |-> "", tx |-> EmptyTx, work |-> <<>>]

Visible(s, t) == db[t] \cup sess[s].tx[t]
Pending(s, t) == UNION {sess[u].tx[t] : u \in Sessions \ {s}}
Insert(s, t, rows) == [sess[s].tx EXCEPT ![t] = @ \cup rows]

(***************************************************************************)
(* Tables: the columns of their ORM classes and the constraints of the     *)
(* migration.                                                              *)
(***************************************************************************)
DataProvider(r) == DOMAIN r = {"code", "type", "status", "terms", "capabilities"}
AcceptsDataProvider(r) ==
    /\ r.type \in {"FIXTURE", "MARKET_DATA", "FINANCIAL_DATA", "FILINGS", "MULTI_SOURCE"}
    /\ r.status \in ProviderStatuses
    /\ r.terms \in {"VERIFIED", "RESTRICTED", "NEEDS_REVIEW", "UNKNOWN"}

ProviderInstrumentMapping(r) == DOMAIN r = {"provider", "symbol", "from", "to", "primary"}
AcceptsMapping(r) == r.to = 0 \/ r.from = 0 \/ r.to >= r.from

IngestionRun(r) ==
    DOMAIN r = {"key", "status", "started", "completed", "requests", "received", "stored",
                "warnings", "error"}
AcceptsIngestionRun(r) ==
    /\ r.key.category \in DataCategories
    /\ \/ r.status = "QUEUED" /\ ~r.started /\ ~r.completed
       \/ r.status = "RUNNING" /\ r.started /\ ~r.completed
       \/ r.status \in {"PASS", "PARTIAL", "BLOCKED", "FAIL", "CANCELLED"} /\ r.completed
    /\ r.requests >= 0 /\ r.received >= 0 /\ r.stored >= 0 /\ r.warnings >= 0

ProviderRequestLog(r) == DOMAIN r = {"run", "attempt", "cache", "size", "error"}
AcceptsRequestLog(r) ==
    /\ r.attempt > 0 /\ r.size >= 0
    /\ r.cache \in {"MISS", "HIT", "REVALIDATED", "BYPASS", "NOT_APPLICABLE"}

RawPayload(r) == DOMAIN r = {"run", "uri", "inline", "checksum", "size", "published", "retrieved"}
AcceptsRawPayload(r) == r.size >= 0 /\ (r.uri = "") # (r.inline = "")

\* One row per record, with the payload it came from.
SourceRecord(r) == DOMAIN r = {"category", "provider", "run", "n", "retrieved", "rec"}
DailyPriceBar(r) == SourceRecord(r) /\ {"date", "low", "high", "published"} \subseteq DOMAIN r.rec
CorporateAction(r) == SourceRecord(r) /\ {"action", "cash", "date", "published"} \subseteq DOMAIN r.rec
ProviderFinancialFact(r) ==
    /\ SourceRecord(r)
    /\ {"id", "concept", "taxonomy", "statement", "form", "context", "dimensions", "unit", "currency",
        "value", "year", "quarter", "name", "start", "date", "instant", "cumulative", "restated",
        "published"} \subseteq DOMAIN r.rec
SourceDocument(r) == SourceRecord(r) /\ {"date", "status", "published"} \subseteq DOMAIN r.rec
AcceptsDailyPriceBar(r) == r.low >= 0 /\ r.high >= 0 /\ r.high >= r.low
AcceptsCorporateAction(r) ==
    /\ r.action \in {"CASH_DIVIDEND", "STOCK_SPLIT", "OTHER"}
    /\ r.cash >= 0
AcceptsFinancialFact(r) ==
    /\ r.year \in 1900..9999 \/ r.year = 0
    /\ r.quarter \in 0..4
    /\ r.date = 0 \/ r.start = 0 \/ r.date >= r.start
AcceptsSourceDocument(r) ==
    r.status \in {"METADATA_ONLY", "AVAILABLE", "DOWNLOAD_FAILED", "UNAVAILABLE", "UNKNOWN"}

DataSnapshot(r) == DOMAIN r = {"asOf", "version", "status", "checksum", "items"}
AcceptsDataSnapshot(r) ==
    /\ r.version > 0
    /\ \/ r.status \in {"COMPLETE", "PARTIAL", "SUPERSEDED"} /\ r.checksum # <<>>
       \/ r.status \in {"BUILDING", "FAILED"} /\ r.checksum = <<>>

SnapshotItem(i) == SourceRecord(i) /\ i.category \in SnapshotCategories

\* The triggers: items only under a BUILDING parent and within its cutoff;
\* a FAILED snapshot has none, a COMPLETE one has some, all of them dated.
AcceptsSnapshotItem(snapshot, item) ==
    /\ snapshot.status = "BUILDING"
    /\ item.retrieved <= snapshot.asOf /\ item.rec.published <= snapshot.asOf
AcceptsTerminal(snapshot) ==
    /\ snapshot.status = "FAILED" => snapshot.items = {}
    /\ snapshot.status = "COMPLETE" =>
          snapshot.items # {} /\ \A i \in snapshot.items : i.rec.published # 0

Lawful(t, r) ==
    CASE t = "data_providers" -> DataProvider(r) /\ AcceptsDataProvider(r)
      [] t = "provider_instrument_mappings" -> ProviderInstrumentMapping(r) /\ AcceptsMapping(r)
      [] t = "ingestion_runs" -> IngestionRun(r) /\ AcceptsIngestionRun(r)
      [] t = "provider_request_logs" -> ProviderRequestLog(r) /\ AcceptsRequestLog(r)
      [] t = "raw_payloads" -> RawPayload(r) /\ AcceptsRawPayload(r)
      [] t = "daily_price_bars" -> DailyPriceBar(r) /\ AcceptsDailyPriceBar(r.rec)
      [] t = "corporate_actions" -> CorporateAction(r) /\ AcceptsCorporateAction(r.rec)
      [] t = "provider_financial_facts" -> ProviderFinancialFact(r) /\ AcceptsFinancialFact(r.rec)
      [] t = "source_documents" -> SourceDocument(r) /\ AcceptsSourceDocument(r.rec)
      [] t = "data_snapshots" ->
            /\ DataSnapshot(r) /\ AcceptsDataSnapshot(r) /\ AcceptsTerminal(r)
            /\ \A i \in r.items : SnapshotItem(i)
      [] t = "security_master" -> References(r) \subseteq {Id(q) : q \in db[t]}
      [] OTHER -> TRUE

\* Unique keys.
UniqueKey(t, r) ==
    CASE t = "data_providers" -> r.code
      [] t = "provider_instrument_mappings" -> <<r.provider, r.symbol, r.from>>
      [] t = "ingestion_runs" -> r.key
      [] t = "data_snapshots" -> <<r.asOf, r.version>>
      [] t = "security_master" -> NaturalKey(r)
      [] OTHER -> r

DataTypeOK ==
    /\ BlobTypeOK
    /\ \A t \in Tables :
          /\ \A r \in db[t] : Lawful(t, r)
          /\ Cardinality({UniqueKey(t, r) : r \in db[t]}) = Cardinality(db[t])
    /\ commands \in 0..MaxCommands

\* The rows of a category are in its table, dated; what a snapshot holds
\* was in the tables by its cutoff; and its versions have no gap.
ValidRows(d, category) ==
    /\ IsFiniteSet(d[RecordTables[category]])
    /\ \A r \in d[RecordTables[category]] :
          r.category = category /\ r.retrieved \in Nat /\ r.rec.date \in Nat
ValidItem(d, i, asOf, categories, preference) ==
    /\ i.category \in categories \cap SnapshotCategories
    /\ i \in d[RecordTables[i.category]]
    /\ i.retrieved <= asOf /\ (i.rec.published = 0 \/ i.rec.published <= asOf)
    /\ i.category = "DAILY_PRICES" => i.rec.date <= asOf
    /\ i.provider \in (IF preference = <<>> THEN DOMAIN Adapters ELSE ToSet(preference))
ValidSnapshot(d, r) ==
    /\ r.version \in Nat \ {0}
    /\ \A v \in 1..r.version : \E p \in d["data_snapshots"] : p.asOf = r.asOf /\ p.version = v
    /\ IF r.checksum = <<>> THEN r.items = {}
       ELSE \A i \in r.items : ValidItem(d, i, r.asOf, ToSet(r.checksum[4]), r.checksum[2])
ValidEvidence(d) ==
    /\ \A category \in SnapshotCategories : ValidRows(d, category)
    /\ IsFiniteSet(d["data_snapshots"])
    /\ \A r \in d["data_snapshots"] : ValidSnapshot(d, r)

\* The database and the directory as earlier commands left them, and how
\* many of them count against the bound.
DataInit(before) ==
    /\ BlobInit(before.root, before.written)
    /\ db = before.db
    /\ sess = [s \in Sessions |-> IdleSession]
    /\ commands = before.commands

(***************************************************************************)
(* Sessions.                                                               *)
(***************************************************************************)
Start(s, cmd, pc, work) ==
    /\ sess[s].cmd = "idle" /\ commands < MaxCommands
    /\ commands' = commands + 1
    /\ sess' = [sess EXCEPT ![s] = [cmd |-> cmd, pc |-> pc, tx |-> EmptyTx, work |-> work]]
    /\ UNCHANGED <<blobVars, db>>

At(s, pc) == sess[s].cmd # "idle" /\ sess[s].pc = pc
Goto(s, pc, tx, work) ==
    /\ sess' = [sess EXCEPT ![s].pc = pc, ![s].tx = tx, ![s].work = work]
    /\ UNCHANGED <<db, commands>>
EndCommand(s) == sess' = [sess EXCEPT ![s] = IdleSession]
Rollback(s) == EndCommand(s) /\ UNCHANGED <<db, commands>>

\* session.commit() at the end of a command.
Commit(s) ==
    /\ db' = [t \in Tables |-> db[t] \cup sess[s].tx[t]]
    /\ EndCommand(s)
    /\ UNCHANGED commands

\* The process dies: its transaction vanishes, its files stay.
Crash(s) ==
    /\ sess[s].cmd # "idle" /\ Fault
    /\ Rollback(s)
    /\ io' = [io EXCEPT ![s] = IdleIo]
    /\ UNCHANGED <<root, quarantine, written>>

\* Every command on a security begins by resolving the name it was given.
SecurityResolved(s) ==
    ResolveIn(SecurityQuery, Visible(s, "security_master")).status = "RESOLVED"

(***************************************************************************)
(* Reading.                                                                *)
(***************************************************************************)
GetProvider(s, code) == {p \in Visible(s, "data_providers") : p.code = code}

\* The registry refuses a disabled, forbidden or incapable adapter.
RegistryError(adapter, capability) ==
    IF ~adapter.enabled THEN "PROVIDER_DISABLED"
    ELSE IF adapter.status = "NOT_ALLOWED" THEN "PROVIDER_NOT_ALLOWED"
    ELSE IF capability \notin adapter.capabilities THEN "PROVIDER_CAPABILITY_MISMATCH"
    ELSE IF ~adapter.credentials THEN "PROVIDER_CREDENTIALS_BLOCKED"
    ELSE ""

GetActiveMapping(s, code, asOf) ==
    {m \in Visible(s, "provider_instrument_mappings") :
        m.provider = code /\ (m.from = 0 \/ m.from <= asOf) /\ (m.to = 0 \/ m.to >= asOf)}

PublishedBy(rec, asOf) == rec.published = 0 \/ rec.published <= asOf

\* The rows of a query, newest first; NULL dates and older rows come last.
RowsOf(s, category, asOf, providers) ==
    {r \in Visible(s, RecordTables[category]) :
        r.provider \in providers /\ r.retrieved <= asOf /\ PublishedBy(r.rec, asOf)}
NoNewer(r, q) == r.rec.date > q.rec.date \/ (r.rec.date = q.rec.date /\ r.retrieved >= q.retrieved)
Newest(rows, k) ==
    IF Cardinality(rows) <= k THEN rows
    ELSE CHOOSE top \in kSubset(k, rows) : \A r \in top, q \in rows \ top : NoNewer(r, q)

ListDailyHistory(s, asOf, localDate, limit, providers) ==
    Newest({r \in RowsOf(s, "DAILY_PRICES", asOf, providers) : r.rec.date <= localDate}, limit)
ListCorporateActions(s, asOf, limit, providers) ==
    Newest(RowsOf(s, "CORPORATE_ACTIONS", asOf, providers), limit)
ListFinancialFacts(s, asOf, limit, providers) ==
    Newest(RowsOf(s, "FINANCIAL_FACTS", asOf, providers), limit)
ListSourceDocuments(s, asOf, limit, providers) ==
    Newest(RowsOf(s, "FILING_METADATA", asOf, providers), limit)

(***************************************************************************)
(* Ingestion: bootstrap of the fixture's provider and mapping.             *)
(***************************************************************************)
ProviderWrite(code) ==
    LET a == Adapters[code]
    IN  [code |-> code, type |-> a.type, status |-> a.status, capabilities |-> a.capabilities,
         terms |-> IF a.status = "APPROVED_FOR_PERSONAL_RESEARCH_ONLY"
                   THEN "RESTRICTED" ELSE "NEEDS_REVIEW"]
MappingWrite(code) ==
    [provider |-> code, symbol |-> Adapters[code].symbol, from |-> 0, to |-> 0, primary |-> TRUE]

\* What the process has read when it decides what to insert.
IngestStart(s, req) ==
    LET provider == GetProvider(s, req.provider)
        mapping == GetActiveMapping(s, req.provider, req.asOf)
    IN  /\ provider \subseteq {ProviderWrite(req.provider)}
        /\ mapping \subseteq {MappingWrite(req.provider)}
        /\ Start(s, "ingest", "bootstrap",
                 [req |-> req, needProvider |-> provider = {}, needMapping |-> mapping = {}])
        /\ SecurityResolved(s)

\* Inserts wait for a transaction that holds the same unique key, and fail,
\* ending the command, when the other one committed first.
IngestBootstrap(s) ==
    /\ At(s, "bootstrap")
    /\ LET w == sess[s].work
           newProvider == IF w.needProvider THEN {ProviderWrite(w.req.provider)} ELSE {}
           newMapping == IF w.needMapping THEN {MappingWrite(w.req.provider)} ELSE {}
       IN  /\ newProvider \cap Pending(s, "data_providers") = {}
           /\ newMapping \cap Pending(s, "provider_instrument_mappings") = {}
           /\ \/ /\ newProvider \cap db["data_providers"] = {}
                 /\ newMapping \cap db["provider_instrument_mappings"] = {}
                 /\ Goto(s, "run", [Insert(s, "data_providers", newProvider) EXCEPT
                                      !["provider_instrument_mappings"] = newMapping], w)
              \/ /\ \/ newProvider \cap db["data_providers"] # {}
                    \/ newMapping \cap db["provider_instrument_mappings"] # {}
                 /\ Rollback(s)
    /\ UNCHANGED blobVars

(***************************************************************************)
(* Ingestion: the run, keyed by the request and the adapter's version.     *)
(***************************************************************************)
IdempotencyKey(req) ==
    [provider |-> req.provider, category |-> req.category, asOf |-> req.asOf,
     version |-> Adapters[req.provider].version]

PersistedPolicyError(status) ==
    CASE status = "NOT_ALLOWED" -> "PROVIDER_NOT_ALLOWED"
      [] status = "NEEDS_CREDENTIALS" -> "PROVIDER_CREDENTIALS_BLOCKED"
      [] status = "NEEDS_LICENSE_CONFIRMATION" -> "PROVIDER_LICENSE_BLOCKED"
      [] OTHER -> ""

CapabilityFor(category) == IF category = "SOURCE_DOCUMENTS" THEN "DOCUMENT_DOWNLOAD" ELSE category

\* Why the service blocks a request before it fetches, in its order.
BlockReason(s, req) ==
    LET provider == CHOOSE p \in GetProvider(s, req.provider) : TRUE
        adapter == Adapters[req.provider]
        capability == CapabilityFor(req.category)
    IN  IF GetActiveMapping(s, req.provider, req.asOf) = {} THEN "MAPPING_NOT_ACTIVE"
        ELSE IF PersistedPolicyError(provider.status) # "" THEN PersistedPolicyError(provider.status)
        ELSE IF capability \notin provider.capabilities THEN "PROVIDER_METADATA_MISMATCH"
        ELSE IF PersistedPolicyError(adapter.status) # "" THEN PersistedPolicyError(adapter.status)
        ELSE IF RegistryError(adapter, capability) # "" THEN RegistryError(adapter, capability)
        ELSE IF adapter.status # provider.status
                \/ adapter.capabilities # provider.capabilities THEN "PROVIDER_METADATA_MISMATCH"
        ELSE IF provider.type # "FIXTURE" THEN "PROVIDER_METADATA_MISMATCH"
        ELSE ""

\* A fixture answers with fixture markers, its own version and the category.
ValidEnvelope(env, req) ==
    /\ ~env.raises /\ env.exact
    /\ env.origin = "fixture"
    /\ env.version = Adapters[req.provider].version /\ env.category = req.category

NewRun(req, status, error) ==
    [key |-> IdempotencyKey(req), status |-> status, started |-> TRUE, completed |-> TRUE,
     requests |-> IF status = "BLOCKED" /\ error # "PROVIDER_BLOCKED" THEN 0 ELSE 1,
     received |-> 0, stored |-> 0, warnings |-> 0, error |-> error]

IngestRun(s) ==
    /\ At(s, "run")
    /\ LET w == sess[s].work
           key == IdempotencyKey(w.req)
           existing == {r \in Visible(s, "ingestion_runs") : r.key = key}
           block == BlockReason(s, w.req)
       IN  /\ \A r \in Pending(s, "ingestion_runs") : r.key # key
           /\ \/ /\ existing # {}
                 /\ \E r \in existing : Goto(s, "finish", sess[s].tx, [w EXCEPT !.req = r])
              \/ /\ existing = {} /\ block # ""
                 /\ LET run == NewRun(w.req, "BLOCKED", block)
                    IN  Goto(s, "finish", Insert(s, "ingestion_runs", {run}), [w EXCEPT !.req = run])
              \/ /\ existing = {} /\ block = ""
                 /\ \E env \in Adapters[w.req.provider].answers[w.req.category] :
                       LET run == NewRun(w.req, "FAIL", "PROVIDER_CONTRACT_FAILED")
                           running == [run EXCEPT !.status = "RUNNING", !.completed = FALSE,
                                                  !.requests = 0, !.error = ""]
                       IN  IF ValidEnvelope(env, w.req)
                           THEN Goto(s, "put", Insert(s, "ingestion_runs", {running}),
                                     [req |-> w.req, env |-> env])
                           ELSE Goto(s, "finish", Insert(s, "ingestion_runs", {run}),
                                     [w EXCEPT !.req = run])
    /\ UNCHANGED blobVars

(***************************************************************************)
(* Ingestion: the payload goes to blob storage first, then its rows to the *)
(* database in one savepoint.                                              *)
(***************************************************************************)
IngestPut(s) ==
    /\ At(s, "put") /\ io[s].op = "idle"
    /\ LET raw == sess[s].work.env.raw
       IN  \/ /\ ~ValidPut(raw)
              /\ Rollback(s) /\ UNCHANGED blobVars
           \/ /\ ValidPut(raw)
              /\ \E key \in Keys : BeginPut(s, key, raw)
              /\ UNCHANGED dataVars

DailyPriceBarWrite(rec) == rec.low >= 0 /\ rec.high >= rec.low
CorporateActionWrite(rec) == rec.cash >= 0
FinancialFactWrite(rec) ==
    /\ rec.quarter \in 0..4
    /\ rec.date = 0 \/ rec.start = 0 \/ rec.date >= rec.start
FilingMetadataWrite(rec) == rec.complete

\* Every record of the category must pass its contract.
ValidRecords(env) ==
    \A i \in DOMAIN env.records :
        LET rec == env.records[i]
        IN  /\ env.category \in SnapshotCategories
            /\ rec.type = RecordType[env.category]
            /\ CASE env.category = "DAILY_PRICES" -> DailyPriceBarWrite(rec)
                 [] env.category = "CORPORATE_ACTIONS" -> CorporateActionWrite(rec)
                 [] env.category = "FINANCIAL_FACTS" -> FinancialFactWrite(rec)
                 [] OTHER -> FilingMetadataWrite(rec)

QualityStatus(env) == env.quality
Unusable(env) == env.quality \in {"BLOCKED", "FAIL"}
Stored(env) == IF Unusable(env) THEN <<>> ELSE env.records

CompletedRun(req, env) ==
    [NewRun(req, QualityStatus(env),
            CASE env.quality = "BLOCKED" -> "PROVIDER_BLOCKED"
              [] env.quality = "FAIL" -> "PROVIDER_CONTRACT_FAILED"
              [] OTHER -> "")
        EXCEPT !.received = Len(env.records), !.stored = Len(Stored(env)), !.warnings = env.warnings]

RequestLogOf(run, env) ==
    [run |-> run, attempt |-> 1, cache |-> "NOT_APPLICABLE", size |-> env.raw.size, error |-> ""]
PayloadOf(run, env, uri) ==
    [run |-> run, uri |-> uri, inline |-> "", checksum |-> env.raw.bytes, size |-> env.raw.size,
     published |-> env.published, retrieved |-> env.retrieved]
RowsFrom(run, env) ==
    {[category |-> env.category, provider |-> run.provider, run |-> run, n |-> i,
      retrieved |-> env.retrieved, rec |-> Stored(env)[i]] : i \in DOMAIN Stored(env)}

\* _persist_attempt and the run's update, all or nothing.
PersistAttempt(s, req, env, uri) ==
    LET key == IdempotencyKey(req)
        tx == sess[s].tx
        base == [tx EXCEPT !["ingestion_runs"] = {CompletedRun(req, env)},
                           !["provider_request_logs"] = @ \cup {RequestLogOf(key, env)},
                           !["raw_payloads"] = @ \cup {PayloadOf(key, env, uri)}]
    IN  IF Stored(env) = <<>> THEN base
        ELSE [base EXCEPT ![RecordTables[env.category]] = @ \cup RowsFrom(key, env)]

\* The rows follow the blob; on any error the blob is deleted again.
IngestPersist(s) ==
    /\ At(s, "put") /\ io[s].op = "done"
    /\ LET w == sess[s].work
           uri == io[s].key
       IN  \/ /\ io[s].error # NoError
              /\ Rollback(s)
              /\ io' = [io EXCEPT ![s] = IdleIo] /\ UNCHANGED faults
           \/ /\ io[s].error = NoError /\ (Unusable(w.env) \/ ValidRecords(w.env))
              /\ Goto(s, "finish", PersistAttempt(s, w.req, w.env, uri),
                      [req |-> CompletedRun(w.req, w.env)])
              /\ io' = [io EXCEPT ![s] = IdleIo] /\ UNCHANGED faults
           \/ /\ io[s].error = NoError
              /\ \/ ~Unusable(w.env) /\ ~ValidRecords(w.env) /\ UNCHANGED faults
                 \/ Fault
              /\ Goto(s, "undo", sess[s].tx, w)
              /\ BeginDelete(s, uri)
    /\ UNCHANGED <<root, quarantine, written>>

\* The blob is gone, or its deletion failed and was ignored: the run is FAIL
\* and the command rolls back.
IngestUndone(s) ==
    /\ At(s, "undo") /\ io[s].op = "done"
    /\ Rollback(s)
    /\ io' = [io EXCEPT ![s] = IdleIo]
    /\ UNCHANGED <<root, quarantine, written, faults>>

\* The command commits every outcome but FAIL.
Commits(status) == status \in {"PASS", "PARTIAL", "BLOCKED"}

IngestFinish(s) ==
    /\ At(s, "finish")
    /\ IF Commits(sess[s].work.req.status) THEN Commit(s) ELSE Rollback(s)
    /\ UNCHANGED blobVars

(***************************************************************************)
(* Snapshots.                                                              *)
(***************************************************************************)
SnapshotsAt(rows, asOf) == {r \in rows : r.asOf = asOf}
LatestVersion(rows, asOf) ==
    IF SnapshotsAt(rows, asOf) = {} THEN 0 ELSE Max({r.version : r \in SnapshotsAt(rows, asOf)})

\* validate_categories: supported ones, each once, in the order of their values.
CategoryOrder == <<"CORPORATE_ACTIONS", "DAILY_PRICES", "FILING_METADATA", "FINANCIAL_FACTS">>
InCategoryOrder(categories) ==
    categories = SelectSeq(CategoryOrder, LAMBDA c : c \in ToSet(categories))
SnapshotBuildRequest(q) ==
    /\ q.categories # <<>> /\ ToSet(q.categories) \subseteq SnapshotCategories
    /\ InCategoryOrder(q.categories)

\* The version is the latest at the cutoff, or 1.
SnapshotStart(s, q) ==
    LET latest == LatestVersion(Visible(s, "data_snapshots"), q.asOf)
    IN  /\ SnapshotBuildRequest(q)
        /\ Start(s, "snapshot", "acquire",
                 [q |-> q, latest |-> latest, version |-> Max({latest, 1}), locks |-> {},
                  replay |-> {}, todo |-> q.categories, items |-> {}, warnings |-> {}])
        /\ SecurityResolved(s)

\* SELECT FOR UPDATE, or the insert, waits for who holds this version.
Locked(s, version, asOf) ==
    \E u \in Sessions \ {s} :
        /\ sess[u].cmd = "snapshot" /\ sess[u].work.q.asOf = asOf
        /\ version \in sess[u].work.locks

GetOrCreateSnapshot(s) ==
    /\ At(s, "acquire")
    /\ LET w == sess[s].work
       IN  /\ ~Locked(s, w.version, w.q.asOf)
           /\ Goto(s, "select", sess[s].tx,
                   [w EXCEPT !.locks = @ \cup {w.version},
                             !.replay = {r \in SnapshotsAt(db["data_snapshots"], w.q.asOf) :
                                            r.version = w.version}])
    /\ UNCHANGED blobVars

QueryCategory(s, q, category, providers) ==
    CASE category = "DAILY_PRICES" ->
            ListDailyHistory(s, q.asOf, q.asOf, ItemLimit + 1, providers)
      [] category = "CORPORATE_ACTIONS" -> ListCorporateActions(s, q.asOf, ItemLimit + 1, providers)
      [] category = "FINANCIAL_FACTS" -> ListFinancialFacts(s, q.asOf, ItemLimit + 1, providers)
      [] OTHER -> ListSourceDocuments(s, q.asOf, ItemLimit + 1, providers)

Eligible(row, category, asOf) ==
    /\ row.retrieved <= asOf /\ PublishedBy(row.rec, asOf)
    /\ category = "DAILY_PRICES" => row.rec.date <= asOf

EligibleRows(s, q, category, providers) ==
    {r \in QueryCategory(s, q, category, providers) : Eligible(r, category, q.asOf)}

\* The first preferred provider with evidence, or every provider.
CategoryCandidates(s, q, category) ==
    LET preferred == {i \in DOMAIN q.preference :
                         EligibleRows(s, q, category, {q.preference[i]}) # {}}
    IN  IF q.preference = <<>> THEN EligibleRows(s, q, category, DOMAIN Adapters)
        ELSE IF preferred = {} THEN {}
        ELSE EligibleRows(s, q, category, {q.preference[Min(preferred)]})

CategoryWarnings(q, category, eligible, kept) ==
    (IF q.preference # <<>> /\ eligible = {} THEN {<<"NO_PREFERRED_PROVIDER", category>>} ELSE {})
    \cup (IF Cardinality(eligible) > ItemLimit THEN {<<"TRUNCATED_CATEGORY", category>>} ELSE {})
    \cup (IF eligible = {} THEN {<<"MISSING_CATEGORY", category>>} ELSE {})
    \cup {<<"UNKNOWN_PUBLICATION", category, r.run, r.n>> : r \in {k \in kept : k.rec.published = 0}}

\* One category: a statement of its own, so others may commit in between.
SelectCategory(s) ==
    /\ At(s, "select") /\ sess[s].work.todo # <<>>
    /\ LET w == sess[s].work
           category == Head(w.todo)
           eligible == CategoryCandidates(s, w.q, category)
           kept == Newest(eligible, ItemLimit)
       IN  Goto(s, "select", sess[s].tx,
                [w EXCEPT !.todo = Tail(@), !.items = @ \cup kept,
                          !.warnings = @ \cup CategoryWarnings(w.q, category, eligible, kept)])
    /\ UNCHANGED blobVars

SnapshotStatus(w) == IF w.warnings # {} THEN "PARTIAL" ELSE "COMPLETE"
SnapshotChecksum(w) ==
    <<w.items, w.q.preference, w.q.asOf, w.q.categories, w.version, w.warnings>>

BuiltSnapshot(w) ==
    [asOf |-> w.q.asOf, version |-> w.version, status |-> SnapshotStatus(w),
     checksum |-> SnapshotChecksum(w), items |-> w.items]
FailedSnapshot(w) ==
    [asOf |-> w.q.asOf, version |-> w.version, status |-> "FAILED", checksum |-> <<>>, items |-> {}]

\* Mutant: whatever is stored under the version is the answer.
ReplayMatchesAlways(w, r) == r.status # "FAILED"

\* A stored snapshot is replayed only when its status, checksum and items
\* are those of this selection.
ReplayMatches(w, r) ==
    r.status = SnapshotStatus(w) /\ r.checksum = SnapshotChecksum(w) /\ r.items = w.items

\* build after the selection: replay, persist, fail, or the version
\* conflicts, in which case the command tries the next version once.
SnapshotBuild(s) ==
    /\ At(s, "select") /\ sess[s].work.todo = <<>>
    /\ LET w == sess[s].work
           building == [FailedSnapshot(w) EXCEPT !.status = "BUILDING"]
       IN  \/ /\ w.replay # {} /\ \A r \in w.replay : ReplayMatches(w, r)
              /\ Goto(s, "sealed", sess[s].tx, w) /\ NoFault
           \/ /\ \E r \in w.replay : ~ReplayMatches(w, r)
              /\ NoFault
              /\ IF w.latest = 0 \/ w.version # w.latest
                 THEN Rollback(s)
                 ELSE Goto(s, "acquire", sess[s].tx,
                           [w EXCEPT !.version = w.latest + 1, !.replay = {}, !.items = {},
                                     !.warnings = {}, !.todo = w.q.categories])
           \/ /\ w.replay = {}
              /\ \A i \in w.items : AcceptsSnapshotItem(building, i)
              /\ NoFault
              /\ Goto(s, "sealed", Insert(s, "data_snapshots", {BuiltSnapshot(w)}), w)
           \/ /\ w.replay = {}
              /\ \/ Fault
                 \/ NoFault /\ \E i \in w.items : ~AcceptsSnapshotItem(building, i)
              /\ Goto(s, "failed", Insert(s, "data_snapshots", {FailedSnapshot(w)}), w)
    /\ UNCHANGED <<root, quarantine, written, io>>

\* A persisted FAILED snapshot is committed before the error is raised.
SnapshotCommit(s) ==
    /\ At(s, "sealed") \/ At(s, "failed")
    /\ Commit(s)
    /\ UNCHANGED blobVars

DataStep(s) ==
    \/ \E req \in Requests : IngestStart(s, req)
    \/ IngestBootstrap(s) \/ IngestRun(s) \/ IngestPut(s)
    \/ IngestPersist(s) \/ IngestUndone(s) \/ IngestFinish(s)
    \/ \E q \in SnapshotRequests : SnapshotStart(s, q)
    \/ GetOrCreateSnapshot(s) \/ SelectCategory(s) \/ SnapshotBuild(s) \/ SnapshotCommit(s)
    \/ BlobStep(s) /\ UNCHANGED dataVars
    \/ Crash(s)

(***************************************************************************)
(* Properties.                                                             *)
(***************************************************************************)

\* The bytes of every committed raw payload can be read back from blob
\* storage and are the bytes that were checksummed, whatever other commands
\* write, roll back, delete or leave behind in the same directory.
CommittedPayloadReadable ==
    \A p \in db["raw_payloads"] :
        LET read == ReadVerified(p.uri) IN read.error = NoError /\ read.bytes = p.checksum

\* One of two providers comes before the other in a preference.
ComesBefore(preference, p, q) ==
    \E i, j \in DOMAIN preference : i < j /\ preference[i] = p /\ preference[j] = q

\* Of two versions for the same cutoff, categories and preference the later
\* one has lost no evidence, unless it was truncated or a provider that is
\* preferred had evidence in the meantime.
LaterLosesNothing(rows) ==
    \A r, q \in rows :
        /\ r.asOf = q.asOf /\ r.version < q.version
        /\ r.checksum # <<>> /\ q.checksum # <<>>
        /\ r.checksum[2] = q.checksum[2] /\ r.checksum[4] = q.checksum[4]
        /\ \A w \in q.checksum[6] : w[1] # "TRUNCATED_CATEGORY"
        => \A i \in r.items :
              \/ i \in q.items
              \/ \E k \in q.items : /\ k.category = i.category
                                    /\ ComesBefore(r.checksum[2], k.provider, i.provider)

\* What a snapshot command is about to report is exactly what it selected,
\* also when it replays a snapshot that another process stored; and a later
\* version loses nothing, whatever was ingested or built while it was made.
SnapshotVersionsAgree ==
    /\ \A s \in Sessions : At(s, "sealed") =>
          \E r \in Visible(s, "data_snapshots") :
              /\ r.asOf = sess[s].work.q.asOf /\ r.version = sess[s].work.version
              /\ r.items = sess[s].work.items
              /\ \A i \in r.items : i.retrieved <= r.asOf /\ i.rec.published <= r.asOf
    /\ LaterLosesNothing(db["data_snapshots"])
=============================================================================
