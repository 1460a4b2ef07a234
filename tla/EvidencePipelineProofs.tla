------------------------ MODULE EvidencePipelineProofs ------------------------
(***************************************************************************)
(* Proofs about the commands of EvidencePipeline.                          *)
(*                                                                         *)
(* A command writes a few tables and passes through a few states; Step     *)
(* says so of every action, and from it follows that what one command is   *)
(* about is left alone by the steps of the others.  On it rest six         *)
(* invariants: SeedInv, of the advisory lock of the security master's      *)
(* seed, PayloadInv, of the directory of blobs that concurrent ingestions  *)
(* share, VersionsInv, of snapshots and the rows they are made from,       *)
(* CitableInv, of documents, their passages and the searches of them,      *)
(* FactsInv, of normalized facts and the metrics made from them, and       *)
(* MasterInv, of queries that are resolved while the master is seeded.     *)
(***************************************************************************)
EXTENDS EvidencePipeline, FiniteSetTheorems, SequenceTheorems, TLAPS

(***************************************************************************)
(* Commands.                                                               *)
(***************************************************************************)

\* The states of a command between its start and its end.
Phase(cmd) ==
    IF cmd = "seed-master" THEN {"seed-lock", "seed-insert", "seed-done", "seed-refused"}
    ELSE IF cmd = "resolve" THEN {"lookups", "answer"}
    ELSE IF cmd = "ingest" THEN {"bootstrap", "run", "put", "undo", "finish"}
    ELSE IF cmd = "snapshot" THEN {"acquire", "select", "sealed", "failed"}
    ELSE IF cmd = "seed" THEN {"apply", "done"}
    ELSE IF cmd = "normalize" THEN {"write", "refused", "done"}
    ELSE IF cmd = "calculate" THEN {"lock", "done"}
    ELSE IF cmd = "register" THEN {"logical", "register", "version", "written"}
    ELSE IF cmd = "parse" THEN {"parse", "parsed", "written"}
    ELSE IF cmd = "build" THEN {"index", "written"}
    ELSE IF cmd = "search" THEN {"retrieve", "execute", "written"}
    ELSE {}

\* The tables it writes.
Writes(cmd) ==
    IF cmd = "seed-master" THEN {"security_master"}
    ELSE IF cmd = "ingest" THEN
        {"data_providers", "provider_instrument_mappings", "ingestion_runs",
         "provider_request_logs", "raw_payloads", "daily_price_bars", "corporate_actions",
         "provider_financial_facts", "source_documents"}
    ELSE IF cmd = "snapshot" THEN {"data_snapshots"}
    ELSE IF cmd = "seed" THEN {"canonical_financial_concepts", "formula_definitions"}
    ELSE IF cmd = "normalize" THEN {"normalized_financial_facts"}
    ELSE IF cmd = "calculate" THEN {"calculation_runs"}
    ELSE IF cmd = "register" THEN {"logical_documents", "document_versions"}
    ELSE IF cmd = "parse" THEN {"document_parse_runs", "document_chunks"}
    ELSE IF cmd = "build" THEN {"lexical_index_versions"}
    ELSE IF cmd = "search" THEN {"retrieval_runs"}
    ELSE {}

Transaction(tx, cmd) ==
    /\ DOMAIN tx = Tables
    /\ \A t \in Tables : t \notin Writes(cmd) => tx[t] = {}

SessionOK(x) ==
    /\ DOMAIN x = {"cmd", "pc", "tx", "work"}
    /\ x.cmd # "idle" => x.pc \in Phase(x.cmd)
    /\ Transaction(x.tx, x.cmd)

SessionsOK ==
    /\ DOMAIN sess = Sessions /\ DOMAIN db = Tables
    /\ \A s \in Sessions : SessionOK(sess[s])

\* A step of command c in session s, as the other commands see it.
Step(s, c) ==
    /\ c # "idle" /\ sess[s].cmd \in {"idle", c} /\ sess'[s].cmd \in {"idle", c}
    /\ DOMAIN sess' = Sessions
    /\ \A u \in Sessions : u # s => sess'[u] = sess[u]
    /\ SessionOK(sess'[s])
    /\ \/ db' = db
       \/ /\ sess[s].cmd = c /\ sess'[s] = IdleSession
          /\ db' = [t \in Tables |-> db[t] \cup sess[s].tx[t]]

LEMMA IdleSessionOK ==
    SessionOK(IdleSession) /\ IdleSession.cmd = "idle" /\ IdleSession.tx = EmptyTx
BY DEF SessionOK, IdleSession, Transaction, EmptyTx

LEMMA InitSessions == Init => SessionsOK
<1> SUFFICES ASSUME NEW before \in InitialStates, DataInit(before)
             PROVE  SessionsOK
    BY DEF Init
<1> QED BY IdleSessionOK, InitialAssumption DEF DataInit, SessionsOK

LEMMA StartStep ==
    ASSUME SessionsOK, NEW s \in Sessions, NEW c, NEW pc, NEW work, c # "idle", pc \in Phase(c),
           Start(s, c, pc, work)
    PROVE  /\ Step(s, c) /\ sess[s].cmd = "idle"
           /\ sess'[s] = [cmd |-> c, pc |-> pc, tx |-> EmptyTx, work |-> work]
           /\ db' = db /\ UNCHANGED blobVars
<1>1. sess'[s] = [cmd |-> c, pc |-> pc, tx |-> EmptyTx, work |-> work]
  BY DEF Start, SessionsOK
<1>2. SessionOK(sess'[s])
  BY <1>1 DEF SessionOK, Transaction, EmptyTx
<1> QED BY <1>1, <1>2 DEF Start, SessionsOK, Step

LEMMA GotoStep ==
    ASSUME SessionsOK, NEW s \in Sessions, NEW c, NEW pc, NEW tx, NEW work,
           c # "idle", sess[s].cmd = c, pc \in Phase(c), Transaction(tx, c), Goto(s, pc, tx, work)
    PROVE  /\ Step(s, c)
           /\ sess'[s].cmd = c /\ sess'[s].pc = pc /\ sess'[s].tx = tx /\ sess'[s].work = work
           /\ db' = db /\ commands' = commands
<1>1. /\ sess'[s].cmd = c /\ sess'[s].pc = pc /\ sess'[s].tx = tx /\ sess'[s].work = work
      /\ DOMAIN sess'[s] = {"cmd", "pc", "tx", "work"}
  BY DEF Goto, SessionsOK, SessionOK
<1>2. SessionOK(sess'[s])
  BY <1>1 DEF SessionOK
<1> QED BY <1>1, <1>2 DEF Goto, SessionsOK, Step

LEMMA RollbackStep ==
    ASSUME SessionsOK, NEW s \in Sessions, NEW c, c # "idle", sess[s].cmd = c, Rollback(s)
    PROVE  Step(s, c) /\ sess'[s] = IdleSession /\ db' = db
<1>1. sess'[s] = IdleSession
  BY DEF Rollback, EndCommand, SessionsOK
<1> QED BY <1>1, IdleSessionOK DEF Rollback, EndCommand, SessionsOK, Step

LEMMA CommitStep ==
    ASSUME SessionsOK, NEW s \in Sessions, NEW c, c # "idle", sess[s].cmd = c, Commit(s)
    PROVE  /\ Step(s, c) /\ sess'[s] = IdleSession
           /\ db' = [t \in Tables |-> db[t] \cup sess[s].tx[t]]
<1>1. sess'[s] = IdleSession
  BY DEF Commit, EndCommand, SessionsOK
<1> QED BY <1>1, IdleSessionOK DEF Commit, EndCommand, SessionsOK, Step

LEMMA InsertTransaction ==
    ASSUME SessionsOK, NEW s \in Sessions, NEW t \in Writes(sess[s].cmd), NEW rows
    PROVE  /\ Transaction(Insert(s, t, rows), sess[s].cmd)
           /\ Transaction(sess[s].tx, sess[s].cmd)
           /\ t \in Tables
           /\ Insert(s, t, rows)[t] = sess[s].tx[t] \cup rows
           /\ \A q \in Tables : q # t => Insert(s, t, rows)[q] = sess[s].tx[q]
<1>1. t \in Tables
  BY TablesAssumption DEF Writes
<1> QED BY <1>1 DEF Insert, Transaction, SessionsOK, SessionOK

\* A step leaves the sessions in order and the rows in their tables.
LEMMA StepKeepsSessions ==
    ASSUME SessionsOK, NEW s \in Sessions, NEW c, Step(s, c)
    PROVE  /\ SessionsOK'
           /\ \A t \in Tables : db[t] \subseteq db'[t]
<1>1. DOMAIN db' = Tables
  BY DEF SessionsOK, Step
<1>2. SessionsOK'
  BY <1>1 DEF SessionsOK, Step
<1>3. \A t \in Tables : db[t] \subseteq db'[t]
  BY DEF Step
<1> QED BY <1>2, <1>3

\* No table is written by two commands.
LEMMA WritesDisjoint ==
    ASSUME NEW c, NEW d, c # d
    PROVE  \A t \in Writes(d) : t \in Tables /\ t \notin Writes(c) /\ t \notin Writes("idle")
<1>1. \A t \in Writes(d) : t \in Tables /\ t \notin Writes("idle")
  BY TablesAssumption DEF Writes
<1>2. SUFFICES ASSUME NEW t \in Writes(d), t \in Writes(c) PROVE FALSE
  BY <1>1
<1>3. CASE d = "seed-master"
  BY <1>3, <1>2 DEF Writes
<1>4. CASE d = "ingest"
  BY <1>4, <1>2 DEF Writes
<1>5. CASE d = "snapshot"
  BY <1>5, <1>2 DEF Writes
<1>6. CASE d = "seed"
  BY <1>6, <1>2 DEF Writes
<1>7. CASE d = "normalize"
  BY <1>7, <1>2 DEF Writes
<1>8. CASE d = "calculate"
  BY <1>8, <1>2 DEF Writes
<1>9. CASE d = "register"
  BY <1>9, <1>2 DEF Writes
<1>10. CASE d = "parse"
  BY <1>10, <1>2 DEF Writes
<1>11. CASE d = "build"
  BY <1>11, <1>2 DEF Writes
<1>12. CASE d = "search"
  BY <1>12, <1>2 DEF Writes
<1> QED BY <1>2, <1>3, <1>4, <1>5, <1>6, <1>7, <1>8, <1>9, <1>10, <1>11, <1>12 DEF Writes

\* What another command is about is left alone.
LEMMA StepForeign ==
    ASSUME SessionsOK, NEW s \in Sessions, NEW c, NEW d, Step(s, c), d # c, d # "idle"
    PROVE  /\ \A u \in Sessions : sess[u].cmd = d \/ sess'[u].cmd = d => sess'[u] = sess[u]
           /\ \A t \in Writes(d) : db'[t] = db[t]
           /\ \A u \in Sessions : \A t \in Writes(d) : sess'[u].tx[t] # {} => sess'[u] = sess[u]
<1>1. \A u \in Sessions : sess[u].cmd = d \/ sess'[u].cmd = d => sess'[u] = sess[u]
  BY DEF Step
<1>2. \A t \in Writes(d) : t \in Tables /\ t \notin Writes(c) /\ t \notin Writes("idle")
  BY WritesDisjoint
<1>3. \A t \in Writes(d) : db'[t] = db[t]
  <2> SUFFICES ASSUME NEW t \in Writes(d) PROVE db'[t] = db[t]
      OBVIOUS
  <2>1. sess[s].tx[t] = {}
    BY <1>2 DEF Step, SessionsOK, SessionOK, Transaction
  <2> QED BY <1>2, <2>1 DEF Step, SessionsOK
<1>4. \A u \in Sessions : \A t \in Writes(d) : sess'[u].tx[t] # {} => sess'[u] = sess[u]
  BY <1>2 DEF Step, SessionOK, Transaction
<1> QED BY <1>1, <1>3, <1>4

(***************************************************************************)
(* The actions of each command.                                            *)
(***************************************************************************)

\* A command that only the database is about.
Quiet(s, c) == Step(s, c) /\ UNCHANGED blobVars

\* At a state of a command, that command runs.
LEMMA PhaseCommand ==
    ASSUME SessionsOK, NEW s \in Sessions, NEW pc, At(s, pc)
    PROVE  /\ sess[s].cmd # "idle" /\ sess[s].pc = pc /\ pc \in Phase(sess[s].cmd)
           /\ Transaction(sess[s].tx, sess[s].cmd)
BY DEF SessionsOK, SessionOK, At

LEMMA ResolveSteps ==
    ASSUME SessionsOK, NEW s \in Sessions,
           (\E q \in Queries : ResolveStart(s, q)) \/ ResolveLookups(s) \/ ResolveEnd(s)
    PROVE  Quiet(s, "resolve")
<1>1. CASE \E q \in Queries : ResolveStart(s, q)
  BY <1>1, StartStep DEF ResolveStart, Phase, Quiet
<1>2. CASE ResolveLookups(s)
  <2>1. sess[s].cmd = "resolve" /\ Transaction(sess[s].tx, "resolve")
    BY <1>2, PhaseCommand DEF ResolveLookups, Phase
  <2> QED BY <1>2, <2>1, GotoStep DEF ResolveLookups, Phase, Quiet
<1>3. CASE ResolveEnd(s)
  <2>1. sess[s].cmd = "resolve"
    BY <1>3, PhaseCommand DEF ResolveEnd, Phase
  <2> QED BY <1>3, <2>1, RollbackStep DEF ResolveEnd, Quiet
<1> QED BY <1>1, <1>2, <1>3

LEMMA SnapshotSteps ==
    ASSUME SessionsOK, NEW s \in Sessions,
           \/ \E q \in SnapshotRequests : SnapshotStart(s, q)
           \/ GetOrCreateSnapshot(s) \/ SelectCategory(s) \/ SnapshotBuild(s) \/ SnapshotCommit(s)
    PROVE  Step(s, "snapshot") /\ UNCHANGED <<root, quarantine, written, io>>
<1>1. CASE \E q \in SnapshotRequests : SnapshotStart(s, q)
  BY <1>1, StartStep DEF SnapshotStart, Phase, blobVars
<1>2. CASE GetOrCreateSnapshot(s)
  <2>1. sess[s].cmd = "snapshot" /\ Transaction(sess[s].tx, "snapshot")
    BY <1>2, PhaseCommand DEF GetOrCreateSnapshot, Phase
  <2> QED BY <1>2, <2>1, GotoStep DEF GetOrCreateSnapshot, Phase, blobVars
<1>3. CASE SelectCategory(s)
  <2>1. sess[s].cmd = "snapshot" /\ Transaction(sess[s].tx, "snapshot")
    BY <1>3, PhaseCommand DEF SelectCategory, Phase
  <2> QED BY <1>3, <2>1, GotoStep DEF SelectCategory, Phase, blobVars
<1>4. CASE SnapshotBuild(s)
  <2>1. sess[s].cmd = "snapshot" /\ Transaction(sess[s].tx, "snapshot")
    BY <1>4, PhaseCommand DEF SnapshotBuild, Phase
  <2>2. \A row : Transaction(Insert(s, "data_snapshots", {row}), "snapshot")
    BY <2>1, InsertTransaction DEF Writes
  <2>3. "sealed" \in Phase("snapshot") /\ "acquire" \in Phase("snapshot") /\ "failed" \in Phase("snapshot")
    BY DEF Phase
  <2>4. UNCHANGED <<root, quarantine, written, io>>
    BY <1>4 DEF SnapshotBuild
  <2>5. \/ Rollback(s)
        \/ \E pc \in Phase("snapshot") : \E tx, work : Goto(s, pc, tx, work) /\ Transaction(tx, "snapshot")
    BY <1>4, <2>1, <2>2, <2>3 DEF SnapshotBuild
  <2> QED BY <2>1, <2>4, <2>5, GotoStep, RollbackStep
<1>5. CASE SnapshotCommit(s)
  <2>1. sess[s].cmd = "snapshot"
    BY <1>5, PhaseCommand DEF SnapshotCommit, Phase
  <2> QED BY <1>5, <2>1, CommitStep DEF SnapshotCommit, blobVars
<1> QED BY <1>1, <1>2, <1>3, <1>4, <1>5

LEMMA FinancialsSteps ==
    ASSUME SessionsOK, NEW s \in Sessions, FinancialsStep(s)
    PROVE  \E c \in {"seed", "normalize", "calculate"} : Quiet(s, c)
<1>1. CASE SeedStart(s)
  BY <1>1, StartStep DEF SeedStart, Phase, Quiet
<1>2. CASE ApplyFinancialReferenceSeed(s)
  <2>1. sess[s].cmd = "seed" /\ Transaction(sess[s].tx, "seed")
    BY <1>2, PhaseCommand DEF ApplyFinancialReferenceSeed, Phase
  <2>2. \A f, g : Transaction([Insert(s, "formula_definitions", f) EXCEPT
                                  !["canonical_financial_concepts"] = g], "seed")
    <3> TAKE f, g
    <3>1. /\ Transaction(Insert(s, "formula_definitions", f), "seed")
          /\ "canonical_financial_concepts" \in Writes("seed")
      BY <2>1, InsertTransaction DEF Writes
    <3> QED BY <3>1 DEF Transaction
  <2>3. Rollback(s) \/ \E tx : Goto(s, "done", tx, <<>>) /\ Transaction(tx, "seed")
    BY <1>2, <2>2 DEF ApplyFinancialReferenceSeed
  <2>4. UNCHANGED blobVars
    BY <1>2 DEF ApplyFinancialReferenceSeed
  <2> QED BY <2>1, <2>3, <2>4, GotoStep, RollbackStep DEF Phase, Quiet
<1>3. CASE \E r \in db["data_snapshots"] : NormalizeStart(s, SnapshotKey(r))
  <2>1. \E work : Start(s, "normalize", "write", work)
    BY <1>3 DEF NormalizeStart
  <2> QED BY <2>1, StartStep DEF Phase, Quiet
<1>4. CASE \E r \in db["data_snapshots"] : CalculateStart(s, SnapshotKey(r))
  <2>1. \E work : Start(s, "calculate", "lock", work)
    BY <1>4 DEF CalculateStart
  <2> QED BY <2>1, StartStep DEF Phase, Quiet
<1>5. CASE NormalizeWrite(s)
  <2>1. sess[s].cmd = "normalize" /\ Transaction(sess[s].tx, "normalize")
    BY <1>5, PhaseCommand DEF NormalizeWrite
  <2>2. \A rows : Transaction(Insert(s, "normalized_financial_facts", rows), "normalize")
    BY <2>1, InsertTransaction DEF Writes
  <2>3. \E pc \in {"refused", "done"} : \E tx, work : Goto(s, pc, tx, work) /\ Transaction(tx, "normalize")
    BY <1>5, <2>1, <2>2 DEF NormalizeWrite
  <2>4. UNCHANGED blobVars
    BY <1>5 DEF NormalizeWrite
  <2> QED BY <2>1, <2>3, <2>4, GotoStep DEF Phase, Quiet
<1>6. CASE NormalizeRefused(s)
  <2>1. sess[s].cmd = "normalize"
    BY <1>6, PhaseCommand DEF NormalizeRefused, Phase
  <2> QED BY <1>6, <2>1, RollbackStep DEF NormalizeRefused, Quiet
<1>7. CASE CalculateSnapshot(s)
  <2>1. sess[s].cmd = "calculate" /\ Transaction(sess[s].tx, "calculate")
    BY <1>7, PhaseCommand DEF CalculateSnapshot, Phase
  <2>2. \A run : Transaction(Insert(s, "calculation_runs", {run}), "calculate")
    BY <2>1, InsertTransaction DEF Writes
  <2>3. Rollback(s) \/ \E tx, work : Goto(s, "done", tx, work) /\ Transaction(tx, "calculate")
    BY <1>7, <2>1, <2>2 DEF CalculateSnapshot
  <2>4. UNCHANGED blobVars
    BY <1>7 DEF CalculateSnapshot
  <2> QED BY <2>1, <2>3, <2>4, GotoStep, RollbackStep DEF Phase, Quiet
<1>8. CASE FinancialsCommit(s)
  BY <1>8, CommitStep DEF FinancialsCommit, Quiet
<1> QED BY <1>1, <1>2, <1>3, <1>4, <1>5, <1>6, <1>7, <1>8 DEF FinancialsStep

LEMMA KnowledgeSteps ==
    ASSUME SessionsOK, NEW s \in Sessions, KnowledgeStep(s)
    PROVE  \E c \in {"register", "parse", "build", "search"} : Quiet(s, c)
<1>1. CASE \E req \in VersionRequests : RegisterStart(s, req)
  <2>1. \E work : Start(s, "register", "logical", work)
    BY <1>1 DEF RegisterStart
  <2> QED BY <2>1, StartStep DEF Phase, Quiet
<1>2. CASE GetOrCreateLogicalDocument(s)
  <2>1. sess[s].cmd = "register" /\ Transaction(sess[s].tx, "register")
    BY <1>2, PhaseCommand DEF GetOrCreateLogicalDocument, Phase
  <2>2. \A row : Transaction(Insert(s, "logical_documents", {row}), "register")
    BY <2>1, InsertTransaction DEF Writes
  <2>3. Rollback(s) \/ \E tx, work : Goto(s, "register", tx, work) /\ Transaction(tx, "register")
    BY <1>2, <2>1, <2>2 DEF GetOrCreateLogicalDocument
  <2>4. UNCHANGED blobVars
    BY <1>2 DEF GetOrCreateLogicalDocument
  <2> QED BY <2>1, <2>3, <2>4, GotoStep, RollbackStep DEF Phase, Quiet
<1>3. CASE RegisterVersion(s)
  <2>1. sess[s].cmd = "register" /\ Transaction(sess[s].tx, "register")
    BY <1>3, PhaseCommand DEF RegisterVersion, Phase
  <2>2. \E pc \in {"written", "version"} : \E work : Goto(s, pc, sess[s].tx, work)
    BY <1>3 DEF RegisterVersion
  <2>3. UNCHANGED blobVars
    BY <1>3 DEF RegisterVersion
  <2> QED BY <2>1, <2>2, <2>3, GotoStep DEF Phase, Quiet
<1>4. CASE AcquireVersion(s)
  <2>1. sess[s].cmd = "register" /\ Transaction(sess[s].tx, "register")
    BY <1>4, PhaseCommand DEF AcquireVersion, Phase
  <2>2. \A row : Transaction(Insert(s, "document_versions", {row}), "register")
    BY <2>1, InsertTransaction DEF Writes
  <2>3. Rollback(s) \/ \E tx, work : Goto(s, "written", tx, work) /\ Transaction(tx, "register")
    BY <1>4, <2>1, <2>2 DEF AcquireVersion
  <2>4. UNCHANGED blobVars
    BY <1>4 DEF AcquireVersion
  <2> QED BY <2>1, <2>3, <2>4, GotoStep, RollbackStep DEF Phase, Quiet
<1>5. CASE \E v \in db["document_versions"], config \in ParserConfigs : ParseStart(s, v, config)
  <2>1. \E pc \in {"parsed", "written", "parse"} : \E work : Start(s, "parse", pc, work)
    BY <1>5 DEF ParseStart
  <2> QED BY <2>1, StartStep DEF Phase, Quiet
<1>6. CASE AcquireParseRun(s)
  <2>1. sess[s].cmd = "parse" /\ Transaction(sess[s].tx, "parse")
    BY <1>6, PhaseCommand DEF AcquireParseRun, Phase
  <2>2. \A run, chunks : Transaction([Insert(s, "document_parse_runs", {run}) EXCEPT
                                         !["document_chunks"] = @ \cup chunks], "parse")
    <3> TAKE run, chunks
    <3>1. /\ Transaction(Insert(s, "document_parse_runs", {run}), "parse")
          /\ "document_chunks" \in Writes("parse")
      BY <2>1, InsertTransaction DEF Writes
    <3> QED BY <3>1 DEF Transaction
  <2>3. \/ Rollback(s)
        \/ \E pc \in {"parsed", "written"} : \E tx, work : Goto(s, pc, tx, work) /\ Transaction(tx, "parse")
    BY <1>6, <2>1, <2>2 DEF AcquireParseRun
  <2>4. UNCHANGED blobVars
    BY <1>6 DEF AcquireParseRun
  <2> QED BY <2>1, <2>3, <2>4, GotoStep, RollbackStep DEF Phase, Quiet
<1>7. CASE ReuseParseRun(s)
  <2>1. sess[s].cmd = "parse" /\ Transaction(sess[s].tx, "parse")
    BY <1>7, PhaseCommand DEF ReuseParseRun, Phase
  <2> QED BY <1>7, <2>1, GotoStep, RollbackStep DEF ReuseParseRun, Phase, Quiet
<1>8. CASE \E q \in SearchRequests : BuildStart(s, Scope(q)) \/ SearchStart(s, q)
  <2>1. (\E work : Start(s, "build", "index", work)) \/ (\E work : Start(s, "search", "retrieve", work))
    BY <1>8 DEF BuildStart, SearchStart
  <2> QED BY <2>1, StartStep DEF Phase, Quiet
<1>9. CASE PersistLexicalIndex(s)
  <2>1. sess[s].cmd = "build" /\ Transaction(sess[s].tx, "build")
    BY <1>9, PhaseCommand DEF PersistLexicalIndex, Phase
  <2>2. \A row : Transaction(Insert(s, "lexical_index_versions", {row}), "build")
    BY <2>1, InsertTransaction DEF Writes
  <2>3. \E tx, work : Goto(s, "written", tx, work) /\ Transaction(tx, "build")
    BY <1>9, <2>1, <2>2 DEF PersistLexicalIndex
  <2>4. UNCHANGED blobVars
    BY <1>9 DEF PersistLexicalIndex
  <2> QED BY <2>1, <2>3, <2>4, GotoStep DEF Phase, Quiet
<1>10. CASE SearchRetrieve(s)
  <2>1. sess[s].cmd = "search" /\ Transaction(sess[s].tx, "search")
    BY <1>10, PhaseCommand DEF SearchRetrieve, Phase
  <2>2. \E pc \in {"written", "execute"} : \E work : Goto(s, pc, sess[s].tx, work)
    BY <1>10 DEF SearchRetrieve
  <2>3. UNCHANGED blobVars
    BY <1>10 DEF SearchRetrieve
  <2> QED BY <2>1, <2>2, <2>3, GotoStep DEF Phase, Quiet
<1>11. CASE SearchExecute(s)
  <2>1. sess[s].cmd = "search" /\ Transaction(sess[s].tx, "search")
    BY <1>11, PhaseCommand DEF SearchExecute, Phase
  <2>2. \A row : Transaction(Insert(s, "retrieval_runs", {row}), "search")
    BY <2>1, InsertTransaction DEF Writes
  <2>3. \E tx, work : Goto(s, "written", tx, work) /\ Transaction(tx, "search")
    BY <1>11, <2>1, <2>2 DEF SearchExecute
  <2>4. UNCHANGED blobVars
    BY <1>11 DEF SearchExecute
  <2> QED BY <2>1, <2>3, <2>4, GotoStep DEF Phase, Quiet
<1>12. CASE KnowledgeCommit(s)
  <2>1. sess[s].cmd \in {"register", "parse", "build", "search"}
    BY <1>12, PhaseCommand DEF KnowledgeCommit, Phase
  <2> QED BY <1>12, <2>1, CommitStep DEF KnowledgeCommit, Quiet
<1> QED BY <1>1, <1>2, <1>3, <1>4, <1>5, <1>6, <1>7, <1>8, <1>9, <1>10, <1>11, <1>12 DEF KnowledgeStep

LEMMA SeedMasterSteps ==
    ASSUME SessionsOK, NEW s \in Sessions,
           SeedMasterStart(s) \/ SeedMasterRead(s) \/ SeedMasterInsert(s) \/ SeedMasterEnd(s)
    PROVE  Quiet(s, "seed-master")
<1>1. CASE SeedMasterStart(s)
  BY <1>1, StartStep DEF SeedMasterStart, Phase, Quiet
<1>2. CASE SeedMasterRead(s)
  <2>1. sess[s].cmd = "seed-master" /\ Transaction(sess[s].tx, "seed-master")
    BY <1>2, PhaseCommand DEF SeedMasterRead, Phase
  <2>2. \E pc \in {"seed-refused", "seed-insert"} : \E work : Goto(s, pc, sess[s].tx, work)
    BY <1>2 DEF SeedMasterRead
  <2>3. UNCHANGED blobVars
    BY <1>2 DEF SeedMasterRead
  <2> QED BY <2>1, <2>2, <2>3, GotoStep DEF Phase, Quiet
<1>3. CASE SeedMasterInsert(s)
  <2>1. sess[s].cmd = "seed-master" /\ Transaction(sess[s].tx, "seed-master")
    BY <1>3, PhaseCommand DEF SeedMasterInsert, Phase
  <2>2. \A rows : Transaction(Insert(s, "security_master", rows), "seed-master")
    BY <2>1, InsertTransaction DEF Writes
  <2>3. \E pc \in {"seed-refused", "seed-done"} : \E tx, work :
            Goto(s, pc, tx, work) /\ Transaction(tx, "seed-master")
    BY <1>3, <2>1, <2>2 DEF SeedMasterInsert
  <2>4. UNCHANGED blobVars
    BY <1>3 DEF SeedMasterInsert
  <2> QED BY <2>1, <2>3, <2>4, GotoStep DEF Phase, Quiet
<1>4. CASE SeedMasterEnd(s)
  <2>1. sess[s].cmd = "seed-master"
    BY <1>4, PhaseCommand DEF SeedMasterEnd, Phase
  <2> QED BY <1>4, <2>1, CommitStep, RollbackStep DEF SeedMasterEnd, Quiet
<1> QED BY <1>1, <1>2, <1>3, <1>4

\* An ingestion works on a request that was made and an answer to it.
Asked ==
    \A s \in Sessions : sess[s].cmd = "ingest" =>
        /\ sess[s].pc \in {"bootstrap", "run", "put"} => sess[s].work.req \in Requests
        /\ sess[s].pc = "put" =>
              sess[s].work.env \in
                  Adapters[sess[s].work.req.provider].answers[sess[s].work.req.category]

\* Usable records are of a category that has a table.
LEMMA PersistTransaction ==
    ASSUME SessionsOK, NEW s \in Sessions, sess[s].cmd = "ingest", NEW req, NEW env, NEW uri,
           env.records \in Seq(ToSet(env.records)), Unusable(env) \/ ValidRecords(env)
    PROVE  /\ Transaction(PersistAttempt(s, req, env, uri), "ingest")
           /\ PersistAttempt(s, req, env, uri)["raw_payloads"]
                = sess[s].tx["raw_payloads"] \cup {PayloadOf(IdempotencyKey(req), env, uri)}
<1> DEFINE base == [sess[s].tx EXCEPT
                      !["ingestion_runs"] = {CompletedRun(req, env)},
                      !["provider_request_logs"] = @ \cup {RequestLogOf(IdempotencyKey(req), env)},
                      !["raw_payloads"] = @ \cup {PayloadOf(IdempotencyKey(req), env, uri)}]
<1>1. Transaction(sess[s].tx, "ingest")
  BY DEF SessionsOK, SessionOK
<1>2. /\ Transaction(base, "ingest")
      /\ base["raw_payloads"] = sess[s].tx["raw_payloads"] \cup {PayloadOf(IdempotencyKey(req), env, uri)}
  BY <1>1, TablesAssumption DEF Transaction, Writes
<1>3. CASE Stored(env) = <<>>
  BY <1>2, <1>3 DEF PersistAttempt
<1>4. CASE Stored(env) # <<>>
  <2>1. ~Unusable(env) /\ env.records # <<>>
    BY <1>4 DEF Stored
  <2>2. 1 \in DOMAIN env.records
    BY <2>1
  <2>3. env.category \in SnapshotCategories
    BY <2>1, <2>2 DEF ValidRecords
  <2>4. RecordTables[env.category] \in Writes("ingest") \ {"raw_payloads"}
    BY <2>3 DEF SnapshotCategories, DataCategories, RecordTables, Writes
  <2> HIDE DEF base
  <2>5. Transaction([base EXCEPT ![RecordTables[env.category]] = @ \cup RowsFrom(IdempotencyKey(req), env)],
                    "ingest")
    BY <1>2, <2>4 DEF Transaction
  <2>6. [base EXCEPT ![RecordTables[env.category]] = @ \cup RowsFrom(IdempotencyKey(req), env)]["raw_payloads"]
          = base["raw_payloads"]
    BY <1>2, <2>4, TablesAssumption DEF Transaction
  <2>7. PersistAttempt(s, req, env, uri)
          = [base EXCEPT ![RecordTables[env.category]] = @ \cup RowsFrom(IdempotencyKey(req), env)]
    BY <1>4 DEF PersistAttempt, base
  <2> QED BY <1>2, <2>5, <2>6, <2>7
<1> QED BY <1>3, <1>4

\* What a step of an ingestion leaves for the invariants to know.
LEMMA AskedStep ==
    ASSUME SessionsOK, Asked, NEW s \in Sessions, Step(s, "ingest"),
           sess'[s].cmd = "ingest" /\ sess'[s].pc \in {"bootstrap", "run", "put"} =>
               sess'[s].work.req \in Requests,
           sess'[s].cmd = "ingest" /\ sess'[s].pc = "put" =>
               sess'[s].work.env \in
                   Adapters[sess'[s].work.req.provider].answers[sess'[s].work.req.category]
    PROVE  Asked'
BY DEF Asked, Step

LEMMA IngestStartStep ==
    ASSUME SessionsOK, Asked, NEW s \in Sessions, NEW req \in Requests, IngestStart(s, req)
    PROVE  /\ Step(s, "ingest") /\ Asked' /\ UNCHANGED blobVars
           /\ sess[s].cmd = "idle" /\ sess'[s].pc = "bootstrap" /\ sess'[s].tx = EmptyTx
<1>1. PICK work : Start(s, "ingest", "bootstrap", work) /\ work.req = req
  BY DEF IngestStart
<1>2. /\ Step(s, "ingest") /\ sess[s].cmd = "idle" /\ UNCHANGED blobVars
      /\ sess'[s] = [cmd |-> "ingest", pc |-> "bootstrap", tx |-> EmptyTx, work |-> work]
  BY <1>1, StartStep DEF Phase
<1> QED BY <1>1, <1>2, AskedStep

LEMMA IngestBootstrapStep ==
    ASSUME SessionsOK, Asked, NEW s \in Sessions, IngestBootstrap(s)
    PROVE  /\ Step(s, "ingest") /\ Asked' /\ UNCHANGED blobVars /\ db' = db
           /\ sess[s].pc = "bootstrap" /\ sess[s].cmd = "ingest"
           /\ \/ sess'[s] = IdleSession
              \/ sess'[s].pc = "run" /\ sess'[s].tx["raw_payloads"] = sess[s].tx["raw_payloads"]
<1>1. /\ sess[s].cmd = "ingest" /\ Transaction(sess[s].tx, "ingest") /\ sess[s].pc = "bootstrap"
      /\ UNCHANGED blobVars
  BY PhaseCommand DEF IngestBootstrap, Phase
<1>2. \A new, mapped :
        LET tx == [Insert(s, "data_providers", new) EXCEPT !["provider_instrument_mappings"] = mapped]
        IN  Transaction(tx, "ingest") /\ tx["raw_payloads"] = sess[s].tx["raw_payloads"]
  <2> TAKE new, mapped
  <2>1. /\ Transaction(Insert(s, "data_providers", new), "ingest")
        /\ {"provider_instrument_mappings", "raw_payloads"} \subseteq Writes("ingest")
        /\ {"provider_instrument_mappings", "raw_payloads"} \subseteq Tables
        /\ Insert(s, "data_providers", new)["raw_payloads"] = sess[s].tx["raw_payloads"]
    BY <1>1, InsertTransaction, TablesAssumption DEF Writes
  <2> QED BY <2>1 DEF Transaction
<1>3. \/ Rollback(s)
      \/ \E tx : /\ Goto(s, "run", tx, sess[s].work) /\ Transaction(tx, "ingest")
                 /\ tx["raw_payloads"] = sess[s].tx["raw_payloads"]
  BY <1>2 DEF IngestBootstrap
<1>4. CASE Rollback(s)
  <2>1. Step(s, "ingest") /\ sess'[s] = IdleSession /\ db' = db
    BY <1>1, <1>4, RollbackStep
  <2> QED BY <1>1, <2>1, IdleSessionOK, AskedStep
<1>5. CASE \E tx : /\ Goto(s, "run", tx, sess[s].work) /\ Transaction(tx, "ingest")
                   /\ tx["raw_payloads"] = sess[s].tx["raw_payloads"]
  <2>1. PICK tx : /\ Goto(s, "run", tx, sess[s].work) /\ Transaction(tx, "ingest")
                  /\ tx["raw_payloads"] = sess[s].tx["raw_payloads"]
    BY <1>5
  <2>2. /\ Step(s, "ingest") /\ sess'[s].cmd = "ingest" /\ sess'[s].pc = "run" /\ db' = db
        /\ sess'[s].work = sess[s].work /\ sess'[s].tx = tx
    BY <1>1, <2>1, GotoStep DEF Phase
  <2>3. sess[s].work.req \in Requests
    BY <1>1 DEF Asked
  <2> QED BY <1>1, <2>1, <2>2, <2>3, AskedStep
<1> QED BY <1>3, <1>4, <1>5

LEMMA IngestRunStep ==
    ASSUME SessionsOK, Asked, NEW s \in Sessions, IngestRun(s)
    PROVE  /\ Step(s, "ingest") /\ Asked' /\ UNCHANGED blobVars /\ db' = db
           /\ sess[s].pc = "run" /\ sess[s].cmd = "ingest"
           /\ sess'[s].pc \in {"put", "finish"}
           /\ sess'[s].tx["raw_payloads"] = sess[s].tx["raw_payloads"]
<1>1. /\ sess[s].cmd = "ingest" /\ Transaction(sess[s].tx, "ingest") /\ sess[s].pc = "run"
      /\ UNCHANGED blobVars
  <2>1. At(s, "run") /\ UNCHANGED blobVars
    BY Zenon DEF IngestRun
  <2> QED BY <2>1, PhaseCommand DEF Phase
<1>2. \A run : /\ Transaction(Insert(s, "ingestion_runs", {run}), "ingest")
               /\ Insert(s, "ingestion_runs", {run})["raw_payloads"] = sess[s].tx["raw_payloads"]
  BY <1>1, InsertTransaction, TablesAssumption DEF Writes
<1>3. sess[s].work.req \in Requests
  BY <1>1 DEF Asked
<1> DEFINE Kept(tx) == Transaction(tx, "ingest") /\ tx["raw_payloads"] = sess[s].tx["raw_payloads"]
           Answer(env) == env \in Adapters[sess[s].work.req.provider].answers[sess[s].work.req.category]
<1>4. \/ \E tx, work : Kept(tx) /\ Goto(s, "finish", tx, work)
      \/ \E tx, env : /\ Kept(tx) /\ Answer(env)
                      /\ Goto(s, "put", tx, [req |-> sess[s].work.req, env |-> env])
  BY <1>1, <1>2, Zenon DEF IngestRun
<1>5. CASE \E tx, work : Kept(tx) /\ Goto(s, "finish", tx, work)
  <2>1. PICK tx, work : Kept(tx) /\ Goto(s, "finish", tx, work)
    BY <1>5
  <2>2. /\ Step(s, "ingest") /\ sess'[s].cmd = "ingest" /\ sess'[s].pc = "finish" /\ db' = db
        /\ sess'[s].tx = tx
    BY <1>1, <2>1, GotoStep DEF Phase
  <2> QED BY <1>1, <2>1, <2>2, AskedStep
<1>6. CASE \E tx, env : /\ Kept(tx) /\ Answer(env)
                        /\ Goto(s, "put", tx, [req |-> sess[s].work.req, env |-> env])
  <2>1. PICK tx, env : /\ Kept(tx) /\ Answer(env)
                       /\ Goto(s, "put", tx, [req |-> sess[s].work.req, env |-> env])
    BY <1>6
  <2>2. PICK work : work = [req |-> sess[s].work.req, env |-> env]
    OBVIOUS
  <2>3. /\ Step(s, "ingest") /\ sess'[s].cmd = "ingest" /\ sess'[s].pc = "put" /\ db' = db
        /\ sess'[s].tx = tx /\ sess'[s].work = work
    BY <1>1, <2>1, <2>2, GotoStep DEF Phase
  <2>4. Asked'
    BY <1>3, <2>1, <2>2, <2>3, AskedStep
  <2> QED BY <1>1, <2>1, <2>3, <2>4
<1> QED BY <1>4, <1>5, <1>6, Zenon

LEMMA IngestFinishStep ==
    ASSUME SessionsOK, Asked, NEW s \in Sessions, IngestFinish(s)
    PROVE  /\ Step(s, "ingest") /\ Asked' /\ UNCHANGED blobVars
           /\ sess[s].pc = "finish" /\ sess[s].cmd = "ingest" /\ sess'[s] = IdleSession
           /\ \/ db' = db
              \/ db' = [t \in Tables |-> db[t] \cup sess[s].tx[t]]
<1>1. sess[s].cmd = "ingest" /\ sess[s].pc = "finish" /\ UNCHANGED blobVars
  BY PhaseCommand DEF IngestFinish, Phase
<1>2. /\ Step(s, "ingest") /\ sess'[s] = IdleSession
      /\ \/ db' = db
         \/ db' = [t \in Tables |-> db[t] \cup sess[s].tx[t]]
  BY <1>1, CommitStep, RollbackStep DEF IngestFinish
<1> QED BY <1>1, <1>2, IdleSessionOK, AskedStep

LEMMA IngestPutStep ==
    ASSUME SessionsOK, Asked, NEW s \in Sessions, IngestPut(s)
    PROVE  /\ sess[s].pc = "put" /\ sess[s].cmd = "ingest" /\ io[s].op = "idle" /\ Asked'
           /\ \/ /\ Step(s, "ingest") /\ UNCHANGED blobVars /\ db' = db /\ sess'[s] = IdleSession
              \/ /\ ValidPut(sess[s].work.env.raw) /\ UNCHANGED dataVars
                 /\ \E key \in Keys : BeginPut(s, key, sess[s].work.env.raw)
<1>1. sess[s].cmd = "ingest" /\ sess[s].pc = "put" /\ io[s].op = "idle"
  BY PhaseCommand DEF IngestPut, Phase
<1>2. CASE Rollback(s) /\ UNCHANGED blobVars
  <2>1. Step(s, "ingest") /\ sess'[s] = IdleSession /\ db' = db
    BY <1>1, <1>2, RollbackStep
  <2> QED BY <1>1, <1>2, <2>1, IdleSessionOK, AskedStep
<1>3. CASE ~(Rollback(s) /\ UNCHANGED blobVars)
  <2>1. /\ ValidPut(sess[s].work.env.raw) /\ UNCHANGED dataVars
        /\ \E key \in Keys : BeginPut(s, key, sess[s].work.env.raw)
    BY <1>3 DEF IngestPut
  <2>2. Asked'
    BY <2>1 DEF Asked, dataVars
  <2> QED BY <1>1, <2>1, <2>2
<1> QED BY <1>2, <1>3

LEMMA IngestPersistStep ==
    ASSUME SessionsOK, Asked, NEW s \in Sessions, IngestPersist(s)
    PROVE  /\ sess[s].pc = "put" /\ sess[s].cmd = "ingest" /\ io[s].op = "done"
           /\ Step(s, "ingest") /\ Asked' /\ db' = db /\ UNCHANGED <<root, quarantine, written>>
           /\ \/ sess'[s] = IdleSession /\ io' = [io EXCEPT ![s] = IdleIo]
              \/ /\ io[s].error = NoError /\ io' = [io EXCEPT ![s] = IdleIo]
                 /\ sess'[s].pc = "finish"
                 /\ sess'[s].tx["raw_payloads"]
                      = sess[s].tx["raw_payloads"]
                          \cup {PayloadOf(IdempotencyKey(sess[s].work.req), sess[s].work.env, io[s].key)}
              \/ /\ io[s].error = NoError /\ BeginDelete(s, io[s].key)
                 /\ sess'[s].pc = "undo" /\ sess'[s].cmd = "ingest" /\ sess'[s].tx = sess[s].tx
<1>1. /\ sess[s].cmd = "ingest" /\ sess[s].pc = "put" /\ io[s].op = "done"
      /\ Transaction(sess[s].tx, "ingest") /\ UNCHANGED <<root, quarantine, written>>
  <2>1. At(s, "put") /\ io[s].op = "done" /\ UNCHANGED <<root, quarantine, written>>
    BY DEF IngestPersist
  <2> QED BY <2>1, PhaseCommand DEF Phase
<1>2. CASE Rollback(s) /\ io' = [io EXCEPT ![s] = IdleIo]
  <2>1. Step(s, "ingest") /\ sess'[s] = IdleSession /\ db' = db
    BY <1>1, <1>2, RollbackStep
  <2> QED BY <1>1, <1>2, <2>1, IdleSessionOK, AskedStep
<1>e. PICK env, req : env = sess[s].work.env /\ req = sess[s].work.req
  OBVIOUS
<1>3. CASE /\ io[s].error = NoError /\ (Unusable(env) \/ ValidRecords(env))
           /\ Goto(s, "finish", PersistAttempt(s, req, env, io[s].key), [req |-> CompletedRun(req, env)])
           /\ io' = [io EXCEPT ![s] = IdleIo]
  <2>1. env.records \in Seq(ToSet(env.records))
    BY <1>1, <1>e, AnswersAssumption DEF Asked
  <2>2. PICK tx, work : tx = PersistAttempt(s, req, env, io[s].key) /\ work = [req |-> CompletedRun(req, env)]
    OBVIOUS
  <2>3. /\ Transaction(tx, "ingest")
        /\ tx["raw_payloads"] = sess[s].tx["raw_payloads"] \cup {PayloadOf(IdempotencyKey(req), env, io[s].key)}
    <3>1. Unusable(env) \/ ValidRecords(env)
      BY <1>3
    <3>2. \A uri : /\ Transaction(PersistAttempt(s, req, env, uri), "ingest")
                  /\ PersistAttempt(s, req, env, uri)["raw_payloads"]
                       = sess[s].tx["raw_payloads"] \cup {PayloadOf(IdempotencyKey(req), env, uri)}
      BY <1>1, <2>1, <3>1, PersistTransaction
    <3> QED BY <2>2, <3>2, Zenon
  <2>4. /\ Step(s, "ingest") /\ sess'[s].cmd = "ingest" /\ sess'[s].pc = "finish" /\ db' = db
        /\ sess'[s].tx = tx
    <3>1. Goto(s, "finish", tx, work)
      BY <1>3, <2>2
    <3> QED BY <1>1, <2>3, <3>1, GotoStep DEF Phase
  <2>5. Asked'
    BY <2>4, AskedStep
  <2> QED BY <1>1, <1>e, <1>3, <2>3, <2>4, <2>5
<1>4. CASE io[s].error = NoError /\ Goto(s, "undo", sess[s].tx, sess[s].work) /\ BeginDelete(s, io[s].key)
  <2>1. PICK tx, work : tx = sess[s].tx /\ Goto(s, "undo", tx, work)
    BY <1>4
  <2>2. /\ Step(s, "ingest") /\ sess'[s].cmd = "ingest" /\ sess'[s].pc = "undo" /\ db' = db
        /\ sess'[s].tx = tx
    BY <1>1, <2>1, GotoStep DEF Phase
  <2>3. Asked'
    BY <2>2, AskedStep
  <2> QED BY <1>1, <1>4, <2>1, <2>2, <2>3
<1> QED BY <1>e, <1>2, <1>3, <1>4 DEF IngestPersist

LEMMA IngestUndoneStep ==
    ASSUME SessionsOK, Asked, NEW s \in Sessions, IngestUndone(s)
    PROVE  /\ sess[s].pc = "undo" /\ sess[s].cmd = "ingest" /\ io[s].op = "done"
           /\ Step(s, "ingest") /\ Asked' /\ db' = db /\ sess'[s] = IdleSession
           /\ io' = [io EXCEPT ![s] = IdleIo] /\ UNCHANGED <<root, quarantine, written>>
<1>1. /\ sess[s].cmd = "ingest" /\ sess[s].pc = "undo" /\ io[s].op = "done"
      /\ io' = [io EXCEPT ![s] = IdleIo] /\ UNCHANGED <<root, quarantine, written>>
  BY PhaseCommand DEF IngestUndone, Phase
<1>2. Step(s, "ingest") /\ sess'[s] = IdleSession /\ db' = db
  BY <1>1, RollbackStep DEF IngestUndone
<1> QED BY <1>1, <1>2, IdleSessionOK, AskedStep

LEMMA CrashStep ==
    ASSUME SessionsOK, NEW s \in Sessions, Crash(s)
    PROVE  /\ sess[s].cmd # "idle" /\ Step(s, sess[s].cmd) /\ db' = db /\ sess'[s] = IdleSession
           /\ io' = [io EXCEPT ![s] = IdleIo] /\ UNCHANGED <<root, quarantine, written>>
BY RollbackStep DEF Crash

(***************************************************************************)
(* Every step, sorted by what it is about.                                 *)
(***************************************************************************)
PipelineOK == SessionsOK /\ Asked

OtherCommands ==
    {"resolve", "snapshot", "seed", "normalize", "calculate", "register", "parse", "build", "search"}

SeedMasterAction(s) ==
    SeedMasterStart(s) \/ SeedMasterRead(s) \/ SeedMasterInsert(s) \/ SeedMasterEnd(s)
IngestAction(s) ==
    \/ \E req \in Requests : IngestStart(s, req)
    \/ IngestBootstrap(s) \/ IngestRun(s) \/ IngestPut(s)
    \/ IngestPersist(s) \/ IngestUndone(s) \/ IngestFinish(s)
OtherAction(s) ==
    \E c \in OtherCommands : Step(s, c) /\ UNCHANGED <<root, quarantine, written, io>>

LEMMA NextKinds ==
    ASSUME SessionsOK, Next
    PROVE  \E s \in Sessions :
               \/ SeedMasterAction(s) \/ IngestAction(s) \/ OtherAction(s) \/ Crash(s)
               \/ BlobStep(s) /\ UNCHANGED dataVars
<1>1. PICK s \in Sessions : SecuritiesStep(s) \/ DataStep(s) \/ FinancialsStep(s) \/ KnowledgeStep(s)
  BY DEF Next
<1>2. \A c : Quiet(s, c) /\ c \in OtherCommands => OtherAction(s)
  BY DEF Quiet, OtherAction, blobVars
<1>3. CASE SecuritiesStep(s)
  BY <1>2, <1>3, ResolveSteps DEF SecuritiesStep, SeedMasterAction, OtherCommands
<1>4. CASE DataStep(s)
  <2>1. CASE \/ \E q \in SnapshotRequests : SnapshotStart(s, q)
             \/ GetOrCreateSnapshot(s) \/ SelectCategory(s) \/ SnapshotBuild(s) \/ SnapshotCommit(s)
    BY <2>1, SnapshotSteps DEF OtherAction, OtherCommands
  <2> QED BY <1>4, <2>1 DEF DataStep, IngestAction
<1>5. CASE FinancialsStep(s)
  BY <1>2, <1>5, FinancialsSteps DEF OtherCommands
<1>6. CASE KnowledgeStep(s)
  BY <1>2, <1>6, KnowledgeSteps DEF OtherCommands
<1> QED BY <1>1, <1>3, <1>4, <1>5, <1>6

\* An ingestion keeps what it was asked while other commands step.
LEMMA AskedForeign ==
    ASSUME PipelineOK, NEW s \in Sessions, NEW c, Step(s, c), c # "ingest" \/ sess'[s] = IdleSession
    PROVE  Asked'
<1>1. \A u \in Sessions : sess'[u].cmd = "ingest" => sess'[u] = sess[u]
  BY IdleSessionOK DEF Step
<1> QED BY <1>1 DEF PipelineOK, Asked

LEMMA PipelineStep ==
    ASSUME PipelineOK, [Next]_vars
    PROVE  PipelineOK'
<1>1. CASE UNCHANGED vars
  BY <1>1 DEF PipelineOK, SessionsOK, Asked, vars, dataVars
<1>2. CASE Next
  <2> USE DEF PipelineOK
  <2>1. PICK s \in Sessions :
            \/ SeedMasterAction(s) \/ IngestAction(s) \/ OtherAction(s) \/ Crash(s)
            \/ BlobStep(s) /\ UNCHANGED dataVars
    BY <1>2, NextKinds
  <2>2. CASE SeedMasterAction(s)
    BY <2>2, SeedMasterSteps, StepKeepsSessions, AskedForeign DEF SeedMasterAction, Quiet
  <2>3. CASE IngestAction(s)
    <3>1. CASE IngestPut(s)
      <4>1. Asked' /\ (UNCHANGED dataVars \/ Step(s, "ingest"))
        BY <3>1, IngestPutStep
      <4> QED BY <4>1, StepKeepsSessions DEF SessionsOK, dataVars
    <3>2. CASE ~IngestPut(s)
      <4>1. Asked' /\ Step(s, "ingest")
        BY <2>3, <3>2, IngestStartStep, IngestBootstrapStep, IngestRunStep, IngestPersistStep,
           IngestUndoneStep, IngestFinishStep DEF IngestAction
      <4> QED BY <4>1, StepKeepsSessions
    <3> QED BY <3>1, <3>2
  <2>4. CASE OtherAction(s)
    BY <2>4, StepKeepsSessions, AskedForeign DEF OtherAction, OtherCommands
  <2>5. CASE Crash(s)
    BY <2>5, CrashStep, StepKeepsSessions, AskedForeign
  <2>6. CASE BlobStep(s) /\ UNCHANGED dataVars
    BY <2>6 DEF SessionsOK, Asked, dataVars
  <2> QED BY <2>1, <2>2, <2>3, <2>4, <2>5, <2>6
<1> QED BY <1>1, <1>2

LEMMA InitPipeline == Init => PipelineOK
<1> SUFFICES ASSUME NEW before \in InitialStates, DataInit(before), Init
             PROVE  PipelineOK
    BY DEF Init
<1> QED BY InitSessions, IdleSessionOK DEF PipelineOK, Asked, DataInit

(***************************************************************************)
(* The advisory lock of the seed.                                          *)
(***************************************************************************)
EditStored ==
    \E r \in db["security_master"] \ ToSet(Manifest), q \in ToSet(Manifest) : Collides(r, q)

Seeding(s) ==
    sess[s].cmd = "seed-master" =>
        /\ sess[s].pc # "seed-done" => sess[s].tx = EmptyTx
        /\ sess[s].pc = "seed-insert" => sess[s].work = ToSet(Manifest) \ db["security_master"]
        /\ sess[s].pc = "seed-refused" => EditStored

SeedLockExclusive ==
    \A s, u \in Sessions : HoldsSeedLock(s) /\ HoldsSeedLock(u) => s = u

SeedInv == SeedLockExclusive /\ \A s \in Sessions : Seeding(s)

LEMMA CollidesEither == \A r, q : Collides(r, q) => Collides(q, r)
BY DEF Collides

LEMMA ManifestRows ==
    ASSUME NEW r \in ToSet(Manifest), NEW q \in ToSet(Manifest), Collides(r, q)
    PROVE  r = q
BY ManifestAssumption DEF ToSet

\* A manifest that is refused meets a row that is not one of its own.
LEMMA ConflictMeansEdit ==
    ASSUME NEW stored, SeedConflict(stored)
    PROVE  \E r \in stored \ ToSet(Manifest), q \in ToSet(Manifest) : Collides(r, q)
<1>1. PICK i \in DOMAIN Manifest : ApplyManifest(stored)[i] = "CONFLICT"
  BY DEF SeedConflict, ApplyManifest, ToSet
<1> DEFINE before == stored \cup {Manifest[j] : j \in 1..(i - 1)}
           existing == {r \in before : Collides(r, Manifest[i])}
<1>2. ApplyRecord(before, Manifest[i]) = "CONFLICT"
  BY <1>1 DEF ApplyManifest
<1>3. /\ existing # {Manifest[i]}
      /\ existing # {} \/ ~(References(Manifest[i]) \subseteq {Id(r) : r \in before})
  BY <1>2 DEF ApplyRecord
<1>4. References(Manifest[i]) \subseteq {Id(r) : r \in before}
  BY ManifestAssumption
<1>5. PICK r \in existing : r # Manifest[i]
  BY <1>3, <1>4
<1>6. Manifest[i] \in ToSet(Manifest)
  BY DEF ToSet
<1>7. r \notin ToSet(Manifest)
  BY <1>5, <1>6, ManifestRows
<1>8. \A j \in 1..(i - 1) : Manifest[j] \in ToSet(Manifest)
  BY MasterAssumption DEF ToSet
<1> QED BY <1>5, <1>6, <1>7, <1>8

\* What a seed knows stays true while others step.
LEMMA SeedingKept ==
    ASSUME PipelineOK, SeedInv, NEW u \in Sessions, sess'[u] = sess[u],
           db["security_master"] \subseteq db'["security_master"],
           HoldsSeedLock(u) => db'["security_master"] = db["security_master"]
    PROVE  Seeding(u)'
<1>1. Seeding(u)
  BY DEF SeedInv
<1>2. EditStored => EditStored'
  BY DEF EditStored
<1>3. sess[u].cmd = "seed-master" /\ sess[u].pc = "seed-insert" => HoldsSeedLock(u)
  BY DEF HoldsSeedLock
<1> QED BY <1>1, <1>2, <1>3 DEF Seeding

\* The step of another command, or the end of a seed that changes nothing.
LEMMA SeedForeign ==
    ASSUME PipelineOK, SeedInv, NEW s \in Sessions, NEW c, Step(s, c),
           \/ c # "seed-master"
           \/ sess'[s] = IdleSession /\ db' = db
    PROVE  SeedInv'
<1>1. "security_master" \in Tables /\ "security_master" \in Writes("seed-master")
  BY TablesAssumption DEF Writes
<1>2. db'["security_master"] = db["security_master"]
  <2>1. CASE c # "seed-master"
    <3>1. \A t \in Writes("seed-master") : db'[t] = db[t]
      BY <2>1, StepForeign DEF PipelineOK
    <3> QED BY <1>1, <3>1
  <2> QED BY <2>1
<1>3. \A u \in Sessions : sess'[u].cmd = "seed-master" => sess'[u] = sess[u]
  BY IdleSessionOK DEF Step
<1>4. SeedLockExclusive'
  BY <1>3 DEF SeedInv, SeedLockExclusive, HoldsSeedLock
<1>5. ASSUME NEW u \in Sessions PROVE Seeding(u)'
  <2>1. CASE sess'[u].cmd = "seed-master"
    BY <1>2, <1>3, <2>1, SeedingKept
  <2>2. CASE sess'[u].cmd # "seed-master"
    BY <2>2 DEF Seeding
  <2> QED BY <2>1, <2>2
<1> QED BY <1>4, <1>5 DEF SeedInv

\* A step of the seed: the others are left as they were.
LEMMA SeedOwn ==
    ASSUME PipelineOK, SeedInv, NEW s \in Sessions, Step(s, "seed-master"), Seeding(s)',
           HoldsSeedLock(s)' => HoldsSeedLock(s) \/ AcquireSeedLock(s),
           db'["security_master"] # db["security_master"] => HoldsSeedLock(s)
    PROVE  SeedInv'
<1>1. \A u \in Sessions : u # s => sess'[u] = sess[u]
  BY DEF Step
<1>2. db["security_master"] \subseteq db'["security_master"]
  BY StepKeepsSessions, TablesAssumption DEF PipelineOK
<1>3. \A u \in Sessions : u # s => HoldsSeedLock(u)' = HoldsSeedLock(u)
  BY <1>1 DEF HoldsSeedLock
<1>4. ASSUME NEW u \in Sessions, NEW v \in Sessions, HoldsSeedLock(u)', HoldsSeedLock(v)'
      PROVE  u = v
  BY <1>3, <1>4 DEF SeedInv, SeedLockExclusive, AcquireSeedLock
<1>5. ASSUME NEW u \in Sessions, u # s PROVE Seeding(u)'
  <2>1. HoldsSeedLock(u) => db'["security_master"] = db["security_master"]
    BY <1>5 DEF SeedInv, SeedLockExclusive
  <2> QED BY <1>1, <1>2, <1>5, <2>1, SeedingKept
<1> QED BY <1>4, <1>5 DEF SeedInv, SeedLockExclusive

LEMMA SeedMasterKeeps ==
    ASSUME PipelineOK, SeedInv, NEW s \in Sessions, SeedMasterAction(s)
    PROVE  SeedInv'
<1>0. Step(s, "seed-master") /\ SessionsOK /\ Seeding(s)
  BY SeedMasterSteps DEF SeedMasterAction, Quiet, PipelineOK, SeedInv
<1>t. "security_master" \in Tables /\ "security_master" \in Writes("seed-master")
  BY TablesAssumption DEF Writes
<1>1. CASE SeedMasterStart(s)
  <2>1. /\ sess'[s].cmd = "seed-master" /\ sess'[s].pc = "seed-lock" /\ sess'[s].tx = EmptyTx
        /\ db' = db
    BY <1>0, <1>1 DEF SeedMasterStart, Start, SessionsOK
  <2> QED BY <1>0, <2>1, SeedOwn DEF Seeding, HoldsSeedLock
<1>2. CASE SeedMasterRead(s)
  <2>1. /\ sess[s].cmd = "seed-master" /\ sess[s].pc = "seed-lock" /\ AcquireSeedLock(s)
        /\ Transaction(sess[s].tx, "seed-master") /\ sess[s].tx = EmptyTx
    BY <1>0, <1>2, PhaseCommand DEF SeedMasterRead, Phase, Seeding
  <2>2. Visible(s, "security_master") = db["security_master"]
    BY <1>t, <2>1 DEF Visible, EmptyTx
  <2>3. CASE SeedConflict(db["security_master"])
    <3>1. PICK tx, work : tx = sess[s].tx /\ Goto(s, "seed-refused", tx, work)
      BY <1>2, <2>2, <2>3 DEF SeedMasterRead
    <3>2. sess'[s].pc = "seed-refused" /\ sess'[s].tx = sess[s].tx /\ db' = db
      BY <1>0, <2>1, <3>1, GotoStep DEF Phase
    <3>3. EditStored
      BY <2>3, ConflictMeansEdit DEF EditStored
    <3>4. EditStored'
      BY <3>2, <3>3 DEF EditStored
    <3> QED BY <1>0, <2>1, <3>2, <3>4, SeedOwn DEF Seeding
  <2>4. CASE ~SeedConflict(db["security_master"])
    <3>1. PICK tx, work : /\ tx = sess[s].tx /\ work = ToSet(Manifest) \ db["security_master"]
                          /\ Goto(s, "seed-insert", tx, work)
      BY <1>2, <2>2, <2>4 DEF SeedMasterRead
    <3>2. sess'[s].pc = "seed-insert" /\ sess'[s].tx = sess[s].tx /\ sess'[s].work = work /\ db' = db
      BY <1>0, <2>1, <3>1, GotoStep DEF Phase
    <3> QED BY <1>0, <2>1, <3>1, <3>2, SeedOwn DEF Seeding
  <2> QED BY <2>3, <2>4
<1>3. CASE SeedMasterInsert(s)
  <2>1. /\ sess[s].cmd = "seed-master" /\ sess[s].pc = "seed-insert" /\ HoldsSeedLock(s)
        /\ Transaction(sess[s].tx, "seed-master") /\ sess[s].tx = EmptyTx
        /\ sess[s].work = ToSet(Manifest) \ db["security_master"]
    BY <1>0, <1>3, PhaseCommand DEF SeedMasterInsert, Phase, Seeding, HoldsSeedLock
  <2>2. CASE \E r \in sess[s].work, q \in db["security_master"] : Collides(r, q)
    <3>1. PICK tx, work : tx = sess[s].tx /\ Goto(s, "seed-refused", tx, work)
      BY <1>3, <2>2 DEF SeedMasterInsert
    <3>2. sess'[s].pc = "seed-refused" /\ sess'[s].tx = sess[s].tx /\ db' = db
      BY <1>0, <2>1, <3>1, GotoStep DEF Phase
    <3>3. PICK r \in sess[s].work, q \in db["security_master"] : Collides(r, q)
      BY <2>2
    <3>4. q \notin ToSet(Manifest)
      BY <2>1, <3>3, ManifestRows
    <3>5. EditStored
      BY <2>1, <3>3, <3>4, CollidesEither DEF EditStored
    <3>6. EditStored'
      BY <3>2, <3>5 DEF EditStored
    <3> QED BY <1>0, <2>1, <3>2, <3>6, SeedOwn DEF Seeding
  <2>3. CASE ~(\E r \in sess[s].work, q \in db["security_master"] : Collides(r, q))
    <3>1. PICK tx, work : /\ tx = Insert(s, "security_master", sess[s].work)
                          /\ Goto(s, "seed-done", tx, work)
      BY <1>3, <2>3 DEF SeedMasterInsert
    <3>2. Transaction(tx, "seed-master")
      BY <1>0, <1>t, <2>1, <3>1, InsertTransaction
    <3>3. sess'[s].pc = "seed-done" /\ db' = db
      BY <1>0, <2>1, <3>1, <3>2, GotoStep DEF Phase
    <3> QED BY <1>0, <2>1, <3>3, SeedOwn DEF Seeding
  <2> QED BY <2>2, <2>3
<1>4. CASE SeedMasterEnd(s)
  <2>1. CASE At(s, "seed-done") /\ Commit(s)
    <3>1. sess[s].cmd = "seed-master" /\ HoldsSeedLock(s)
      BY <1>0, <2>1, PhaseCommand DEF Phase, HoldsSeedLock
    <3>2. sess'[s] = IdleSession
      BY <1>0, <2>1, <3>1, CommitStep
    <3>3. Seeding(s)' /\ ~HoldsSeedLock(s)'
      BY <3>2, IdleSessionOK DEF Seeding, HoldsSeedLock
    <3> QED BY <1>0, <3>1, <3>3, SeedOwn
  <2>2. CASE At(s, "seed-refused") /\ Rollback(s)
    <3>1. sess[s].cmd = "seed-master"
      BY <1>0, <2>2, PhaseCommand DEF Phase
    <3>2. sess'[s] = IdleSession /\ db' = db
      BY <1>0, <2>2, <3>1, RollbackStep
    <3> QED BY <1>0, <3>2, SeedForeign
  <2> QED BY <1>4, <2>1, <2>2 DEF SeedMasterEnd
<1> QED BY <1>1, <1>2, <1>3, <1>4 DEF SeedMasterAction

LEMMA SeedStep ==
    ASSUME PipelineOK, SeedInv, [Next]_vars
    PROVE  SeedInv'
<1> USE DEF PipelineOK
<1>1. CASE UNCHANGED dataVars
  BY <1>1 DEF SeedInv, SeedLockExclusive, HoldsSeedLock, Seeding, EditStored, dataVars
<1>2. CASE Next /\ ~UNCHANGED dataVars
  <2>1. PICK s \in Sessions :
            SeedMasterAction(s) \/ IngestAction(s) \/ OtherAction(s) \/ Crash(s)
    BY <1>2, NextKinds
  <2>2. CASE IngestAction(s)
    <3>1. Step(s, "ingest")
      BY <1>2, <2>2, IngestStartStep, IngestBootstrapStep, IngestRunStep, IngestPutStep, IngestPersistStep,
         IngestUndoneStep, IngestFinishStep DEF IngestAction
    <3> QED BY <3>1, SeedForeign
  <2>3. CASE OtherAction(s)
    BY <2>3, SeedForeign DEF OtherAction, OtherCommands
  <2>4. CASE Crash(s)
    BY <2>4, CrashStep, SeedForeign
  <2> QED BY <2>1, <2>2, <2>3, <2>4, SeedMasterKeeps
<1> QED BY <1>1, <1>2 DEF vars

\* The seed of the security master is refused only when a stored row that is
\* not one of the manifest's own collides with one of its rows, and then the
\* transaction holds nothing: no interleaving of seeds, crashes and other
\* commands refuses it (SqlAlchemySecurityMasterRepository.acquire_seed_lock,
\* SecurityMasterSeeder).
THEOREM SeedRefusal == Spec => []SeedRefusedOnlyByEdit
<1>1. Init => SeedInv
  <2> SUFFICES ASSUME NEW before \in InitialStates, DataInit(before)
               PROVE  SeedInv
      BY DEF Init
  <2>1. \A s \in Sessions : sess[s].cmd = "idle"
    BY IdleSessionOK DEF DataInit
  <2> QED BY <2>1 DEF SeedInv, SeedLockExclusive, HoldsSeedLock, Seeding
<1>2. PipelineOK /\ SeedInv /\ [Next]_vars => PipelineOK' /\ SeedInv'
  BY PipelineStep, SeedStep
<1>3. PipelineOK /\ SeedInv => SeedRefusedOnlyByEdit
  <2> SUFFICES ASSUME PipelineOK, SeedInv, NEW s \in Sessions, At(s, "seed-refused")
               PROVE  /\ sess[s].tx = EmptyTx
                      /\ \E r \in db["security_master"] \ ToSet(Manifest), q \in ToSet(Manifest) :
                             Collides(r, q)
      BY DEF SeedRefusedOnlyByEdit
  <2>1. /\ sess[s].cmd = "seed-master" /\ sess[s].pc = "seed-refused"
        /\ Transaction(sess[s].tx, "seed-master")
    BY PhaseCommand DEF Phase, PipelineOK
  <2>2. sess[s].tx = EmptyTx /\ EditStored
    BY <2>1 DEF SeedInv, Seeding
  <2> QED BY <2>2 DEF EditStored
<1> QED BY InitPipeline, <1>1, <1>2, <1>3, PTL DEF Spec

(***************************************************************************)
(* The directory of blobs.                                                 *)
(***************************************************************************)
IoFields == {"op", "step", "key", "put", "n", "temps", "published", "held", "moved", "error"}

\* The entries that a file operation publishes or removes.
OwnEntries(x) == {LocalEntry(x.put, x.key, "content"), LocalEntry(x.put, x.key, "sidecar")}

\* How the file operation of a session fits the state of its ingestion.
Occupied(s) ==
    /\ io[s].op = "idle" => io[s].put = 0
    /\ io[s].op # "idle" =>
          /\ sess[s].cmd = "ingest"
          /\ \/ sess[s].pc = "put" /\ io[s].op \in {"put", "done"}
             \/ sess[s].pc = "undo" /\ io[s].op \in {"delete", "done"}
          /\ io[s].put \in 1..Len(written) /\ written[io[s].put].key = io[s].key
          /\ sess[s].pc = "put" =>
                /\ written[io[s].put].data = sess[s].work.env.raw
                /\ sess[s].work.env.raw.size \in 0..MaxBlobBytes

\* How far it is.
Progress(s) ==
    LET x == io[s]
    IN  /\ x.op = "put" =>
              \/ x.step = "create" /\ x.n \in {1, 2} /\ x.error = NoError
              \/ /\ x.step = "link" /\ x.n \in {1, 2}
                 /\ x.n = 2 => LocalEntry(x.put, x.key, "content") \in root
              \/ x.step = "clean" /\ (x.error = NoError => OwnEntries(x) \subseteq root)
              \/ x.step = "rollback" /\ x.error # NoError
        /\ x.op = "done" /\ sess[s].pc = "put" /\ x.error = NoError => OwnEntries(x) \subseteq root
        /\ x.op = "delete" =>
              /\ x.held \in Seq(OwnEntries(x)) /\ x.moved \in Seq(OwnEntries(x))
              /\ x.step = "quarantine" => x.n \in 1..Len(x.held)

\* The blob of a payload is whole and no file operation is about it.
Safe(p) ==
    \E put \in 1..Len(written) :
        /\ WholeBlob(root, written, put, p.uri, p.checksum)
        /\ \A s \in Sessions : io[s].put # put

FilesOK ==
    /\ ValidDirectory(root, written) /\ DOMAIN io = Sessions
    /\ \A s \in Sessions : DOMAIN io[s] = IoFields /\ Occupied(s) /\ Progress(s)
    /\ \A s, u \in Sessions : s # u /\ io[s].put = io[u].put => io[s].put = 0

PayloadsStored ==
    /\ \A p \in db["raw_payloads"] : Safe(p)
    /\ \A s \in Sessions : \A p \in sess[s].tx["raw_payloads"] : Safe(p)

PayloadInv == FilesOK /\ PayloadsStored

\* A step keeps the invariant, and every safe blob with it.
PayloadsKept == PayloadInv' /\ \A p : Safe(p) => Safe(p)'

LEMMA ErrorsDiffer == "failed" # NoError /\ "exists" # NoError /\ "cleanup" # NoError
BY Zenon DEF NoError

LEMMA NamesDiffer ==
    /\ \A k, c, l, d : LocalName(k, c) = LocalName(l, d) => k = l /\ c = d
    /\ \A a, c, b, d : TemporaryName(a, c) = TemporaryName(b, d) => a = b /\ c = d
    /\ \A k, c, b, d : LocalName(k, c) # TemporaryName(b, d)
<1>1. \A k, c, l, d : LocalName(k, c) = LocalName(l, d) => k = l /\ c = d
  BY DEF LocalName
<1>2. \A a, c, b, d : TemporaryName(a, c) = TemporaryName(b, d) => a = b /\ c = d
  BY DEF TemporaryName
<1>3. \A k, c, b, d : LocalName(k, c) # TemporaryName(b, d)
  <2> SUFFICES ASSUME NEW k, NEW c, NEW b, NEW d, LocalName(k, c) = TemporaryName(b, d) PROVE FALSE
      OBVIOUS
  <2>1. DOMAIN LocalName(k, c) = {"key", "part"} /\ DOMAIN TemporaryName(b, d) = {"put", "part"}
    BY DEF LocalName, TemporaryName
  <2> QED BY <2>1
<1> QED BY <1>1, <1>2, <1>3

LEMMA EntryFields ==
    /\ \A put, key, part : /\ LocalEntry(put, key, part).name = LocalName(key, part)
                           /\ LocalEntry(put, key, part).inode.put = put
                           /\ LocalEntry(put, key, part).inode = [put |-> put, part |-> part]
    /\ \A put, part : /\ TemporaryEntry(put, part).name = TemporaryName(put, part)
                      /\ TemporaryEntry(put, part).inode.put = put
BY DEF LocalEntry, TemporaryEntry

LEMMA DirectoryLess ==
    ASSUME NEW less, ValidDirectory(root, written), less \subseteq root
    PROVE  ValidDirectory(less, written)
BY DEF ValidDirectory

LEMMA DirectoryMore ==
    ASSUME NEW e, ValidDirectory(root, written), ValidEntry(e, written),
           \A f \in root : f.name = e.name => f = e
    PROVE  ValidDirectory(root \cup {e}, written)
BY DEF ValidDirectory

\* A temporary name is only ever the name of its own put.
LEMMA TemporaryIsOwn ==
    ASSUME ValidDirectory(root, written), NEW put, NEW part, NEW f \in root,
           f.name = TemporaryName(put, part)
    PROVE  f = TemporaryEntry(put, part)
<1>1. PICK q \in 1..Len(written), r \in {"content", "sidecar"} :
          f \in {LocalEntry(q, written[q].key, r), TemporaryEntry(q, r)}
  BY DEF ValidDirectory, ValidEntry
<1>2. f = TemporaryEntry(q, r)
  BY <1>1, NamesDiffer, EntryFields
<1> QED BY <1>2, NamesDiffer, EntryFields

LEMMA LocalIsAlone ==
    ASSUME ValidDirectory(root, written), NEW put, NEW key, NEW part,
           LocalEntry(put, key, part) \in root
    PROVE  Named(LocalName(key, part)) = {LocalEntry(put, key, part)}
BY EntryFields DEF ValidDirectory, Named

\* A file operation of session s changes no entry of another put.
FileStep(s) ==
    /\ written' = written /\ ValidDirectory(root', written)
    /\ DOMAIN io' = Sessions /\ DOMAIN io'[s] = IoFields
    /\ \A u \in Sessions : u # s => io'[u] = io[u]
    /\ \A e \in root : e \notin root' => e.inode.put = io[s].put
    /\ io'[s].put = io[s].put /\ io'[s].key = io[s].key

LEMMA SafeKept ==
    ASSUME FilesOK, NEW s \in Sessions, FileStep(s), NEW p, Safe(p)
    PROVE  Safe(p)'
<1>1. PICK put \in 1..Len(written) :
          WholeBlob(root, written, put, p.uri, p.checksum) /\ \A u \in Sessions : io[u].put # put
  BY DEF Safe
<1>2. \A part \in {"content", "sidecar"} : LocalEntry(put, p.uri, part) \in root'
  BY <1>1, EntryFields DEF FileStep, WholeBlob
<1>3. WholeBlob(root', written', put, p.uri, p.checksum)
  BY <1>1, <1>2 DEF WholeBlob, FileStep
<1>4. \A u \in Sessions : io'[u].put # put
  BY <1>1 DEF FileStep
<1> QED BY <1>3, <1>4 DEF Safe, FileStep

\* Another session's file operation is not disturbed.
LEMMA OthersProgress ==
    ASSUME FilesOK, NEW s \in Sessions, FileStep(s), UNCHANGED dataVars, NEW u \in Sessions, u # s,
           io[s].op # "idle"
    PROVE  DOMAIN io'[u] = IoFields /\ Occupied(u)' /\ Progress(u)'
<1>1. io'[u] = io[u] /\ written' = written /\ sess' = sess
  BY DEF FileStep, dataVars
<1>2. DOMAIN io[u] = IoFields /\ Occupied(u) /\ Progress(u) /\ Occupied(s)
  BY DEF FilesOK
<1>3. io[u].put # io[s].put
  <2>1. io[s].put # 0
    BY <1>2 DEF Occupied
  <2> QED BY <2>1 DEF FilesOK
<1>4. \A part : LocalEntry(io[u].put, io[u].key, part) \in root
                  => LocalEntry(io[u].put, io[u].key, part) \in root'
  BY <1>3, EntryFields DEF FileStep
<1>5. OwnEntries(io[u]) \subseteq root => OwnEntries(io[u]) \subseteq root'
  BY <1>4 DEF OwnEntries
<1> QED BY <1>1, <1>2, <1>4, <1>5 DEF Occupied, Progress

LEMMA FileStepKeeps ==
    ASSUME PayloadInv, NEW s \in Sessions, FileStep(s), UNCHANGED dataVars,
           io[s].op # "idle", Occupied(s)', Progress(s)'
    PROVE  PayloadsKept
<1>1. FilesOK /\ PayloadsStored
  BY DEF PayloadInv
<1>2. \A p : Safe(p) => Safe(p)'
  BY <1>1, SafeKept
<1>3. PayloadsStored'
  BY <1>1, <1>2 DEF PayloadsStored, dataVars
<1>4. \A u \in Sessions : DOMAIN io'[u] = IoFields /\ Occupied(u)' /\ Progress(u)'
  BY <1>1, OthersProgress DEF FileStep
<1>5. \A v, u \in Sessions : v # u /\ io'[v].put = io'[u].put => io'[v].put = 0
  BY <1>1 DEF FilesOK, FileStep
<1>6. FilesOK'
  BY <1>4, <1>5 DEF FilesOK, FileStep
<1> QED BY <1>2, <1>3, <1>6 DEF PayloadInv, PayloadsKept

LEMMA OccupiedKept ==
    ASSUME FilesOK, NEW s \in Sessions, FileStep(s), UNCHANGED dataVars,
           \/ io[s].op = "put" /\ io'[s].op \in {"put", "done"}
           \/ io[s].op = "delete" /\ io'[s].op \in {"delete", "done"}
    PROVE  Occupied(s)'
BY DEF FilesOK, Occupied, FileStep, dataVars

LEMMA PutRunning ==
    ASSUME FilesOK, NEW s \in Sessions, io[s].op \in {"put", "delete"}
    PROVE  /\ DOMAIN io = Sessions /\ DOMAIN io[s] = IoFields /\ Progress(s)
           /\ io[s].put \in 1..Len(written) /\ written[io[s].put].key = io[s].key
           /\ sess[s].pc = IF io[s].op = "put" THEN "put" ELSE "undo"
           /\ ValidDirectory(root, written)
           /\ \A e \in OwnEntries(io[s]) : ValidEntry(e, written) /\ e.inode.put = io[s].put
<1>1. /\ DOMAIN io = Sessions /\ DOMAIN io[s] = IoFields /\ Progress(s) /\ Occupied(s)
      /\ ValidDirectory(root, written)
  BY DEF FilesOK
<1>2. /\ io[s].put \in 1..Len(written) /\ written[io[s].put].key = io[s].key
      /\ sess[s].pc = IF io[s].op = "put" THEN "put" ELSE "undo"
  BY <1>1 DEF Occupied
<1>3. \A e \in OwnEntries(io[s]) : ValidEntry(e, written) /\ e.inode.put = io[s].put
  BY <1>2, EntryFields DEF OwnEntries, ValidEntry
<1> QED BY <1>1, <1>2, <1>3

LEMMA UnlinkStep ==
    ASSUME NEW name, NEW put, NEW part, UnlinkExpected(name, [put |-> put, part |-> part])
    PROVE  root' \subseteq root /\ \A e \in root : e \notin root' => e.inode.put = put /\ e.name = name
<1>1. PICK inode : inode = [put |-> put, part |-> part] /\ inode.put = put
  OBVIOUS
<1>2. \A e \in root : e \notin root' => e.inode = inode /\ e.name = name
  BY <1>1 DEF UnlinkExpected, Named
<1>3. root' \subseteq root
  BY DEF UnlinkExpected, Named
<1> QED BY <1>1, <1>2, <1>3

LEMMA CreateTemporaryKeeps ==
    ASSUME PayloadInv, NEW s \in Sessions, CreateTemporary(s), UNCHANGED dataVars
    PROVE  PayloadsKept
<1>1. FilesOK /\ io[s].op = "put" /\ io[s].step = "create"
  BY DEF PayloadInv, CreateTemporary, AtStep
<1>2. /\ DOMAIN io = Sessions /\ DOMAIN io[s] = IoFields /\ Progress(s) /\ sess[s].pc = "put"
      /\ io[s].put \in 1..Len(written) /\ ValidDirectory(root, written)
  BY <1>1, PutRunning
<1>3. io[s].n \in {1, 2} /\ io[s].error = NoError
  BY <1>1, <1>2 DEF Progress
<1>4. PICK part \in {"content", "sidecar"} : part = Parts[io[s].n]
  BY <1>3 DEF Parts
<1>5. PICK entry : entry = TemporaryEntry(io[s].put, part)
  OBVIOUS
<1>6. ValidEntry(entry, written) /\ \A f \in root : f.name = entry.name => f = entry
  BY <1>2, <1>4, <1>5, TemporaryIsOwn, EntryFields DEF ValidEntry
<1>7. ValidDirectory(root \cup {entry}, written)
  BY <1>2, <1>6, DirectoryMore
<1>8. /\ root' \in {root, root \cup {entry}} /\ written' = written
      /\ DOMAIN io' = Sessions /\ \A u \in Sessions : u # s => io'[u] = io[u]
      /\ DOMAIN io'[s] = IoFields
      /\ io'[s].op = "put" /\ io'[s].put = io[s].put /\ io'[s].key = io[s].key
  BY <1>1, <1>2, <1>4, <1>5 DEF CreateTemporary, IoFields
<1>9. FileStep(s)
  BY <1>2, <1>7, <1>8 DEF FileStep
<1>10. \/ /\ io'[s].step = "create" /\ io'[s].n \in {1, 2} /\ io'[s].error = NoError
       \/ io'[s].step = "link" /\ io'[s].n = 1
       \/ io'[s].step = "clean" /\ io'[s].error = "failed"
  BY <1>1, <1>2, <1>3 DEF CreateTemporary, IoFields
<1>11. Progress(s)'
  BY <1>8, <1>10, ErrorsDiffer DEF Progress
<1>12. Occupied(s)'
  BY <1>1, <1>8, <1>9, OccupiedKept
<1> QED BY <1>1, <1>9, <1>11, <1>12, FileStepKeeps

LEMMA PublishLinkKeeps ==
    ASSUME PayloadInv, NEW s \in Sessions, PublishLink(s), UNCHANGED dataVars
    PROVE  PayloadsKept
<1>1. FilesOK /\ io[s].op = "put" /\ io[s].step = "link"
  BY DEF PayloadInv, PublishLink, AtStep
<1>2. /\ DOMAIN io = Sessions /\ DOMAIN io[s] = IoFields /\ Progress(s) /\ sess[s].pc = "put"
      /\ io[s].put \in 1..Len(written) /\ ValidDirectory(root, written)
      /\ \A e \in OwnEntries(io[s]) : ValidEntry(e, written) /\ e.inode.put = io[s].put
  BY <1>1, PutRunning
<1>3. io[s].n \in {1, 2} /\ (io[s].n = 2 => LocalEntry(io[s].put, io[s].key, "content") \in root)
  BY <1>1, <1>2 DEF Progress
<1>4. PICK part \in {"content", "sidecar"} :
          part = Parts[io[s].n] /\ part = IF io[s].n = 1 THEN "content" ELSE "sidecar"
  BY <1>3 DEF Parts
<1>5. PICK entry, name, link :
          /\ entry = LocalEntry(io[s].put, io[s].key, part) /\ entry \in OwnEntries(io[s])
          /\ name = LocalName(io[s].key, part)
          /\ link = Linked(name, [put |-> io[s].put, part |-> part])
  BY DEF OwnEntries
<1>6. \/ link.error = NoError /\ link.root = root \cup {entry} /\ Named(name) = {}
      \/ link.error = "exists" /\ link.root = root
  BY <1>5 DEF Linked, LocalEntry
<1>7. Named(name) = {} => ValidDirectory(root \cup {entry}, written)
  <2>1. Named(name) = {} => \A f \in root : f.name = entry.name => f = entry
    BY <1>5, EntryFields DEF Named
  <2> QED BY <1>2, <1>5, <2>1, DirectoryMore
<1>8. written' = written
  BY DEF PublishLink
<1>9. PICK error, n, step :
          /\ DOMAIN io' = Sessions /\ \A u \in Sessions : u # s => io'[u] = io[u]
          /\ DOMAIN io'[s] = IoFields
          /\ io'[s].op = "put" /\ io'[s].put = io[s].put /\ io'[s].key = io[s].key
          /\ io'[s].step = step /\ io'[s].error = error /\ io'[s].n = n
          /\ \/ root' = root /\ step = "clean" /\ error = "failed"
             \/ /\ root' = link.root /\ error = link.error /\ n = 2
                /\ step = IF link.error # NoError \/ io[s].n = 2 THEN "clean" ELSE "link"
  <2>1. \/ /\ io' = [io EXCEPT ![s] = [io[s] EXCEPT !.error = "failed", !.step = "clean"]]
           /\ root' = root
        \/ /\ \E published : io' = [io EXCEPT ![s] = [io[s] EXCEPT
                 !.published = published, !.error = link.error, !.n = 2,
                 !.step = IF link.error # NoError \/ io[s].n = 2 THEN "clean" ELSE "link"]]
           /\ root' = link.root
    BY <1>4, <1>5, Zenon DEF PublishLink
  <2>2. CASE /\ io' = [io EXCEPT ![s] = [io[s] EXCEPT !.error = "failed", !.step = "clean"]]
             /\ root' = root
    BY <1>1, <1>2, <2>2 DEF IoFields
  <2>3. CASE /\ \E published : io' = [io EXCEPT ![s] = [io[s] EXCEPT
                   !.published = published, !.error = link.error, !.n = 2,
                   !.step = IF link.error # NoError \/ io[s].n = 2 THEN "clean" ELSE "link"]]
             /\ root' = link.root
    <3>1. PICK published, step :
             /\ step = IF link.error # NoError \/ io[s].n = 2 THEN "clean" ELSE "link"
             /\ io' = [io EXCEPT ![s] = [io[s] EXCEPT !.published = published, !.error = link.error,
                                                     !.n = 2, !.step = step]]
      BY <2>3
    <3> QED BY <1>1, <1>2, <2>3, <3>1 DEF IoFields
  <2> QED BY <2>1, <2>2, <2>3
<1>10. \/ root' = root /\ step = "clean" /\ error # NoError
       \/ /\ Named(name) = {} /\ root' = root \cup {entry} /\ error = NoError /\ n = 2
          /\ step = IF io[s].n = 2 THEN "clean" ELSE "link"
  BY <1>6, <1>9, ErrorsDiffer
<1>11. FileStep(s)
  <2>1. ValidDirectory(root', written)
    BY <1>2, <1>7, <1>10
  <2>2. root \subseteq root'
    BY <1>10
  <2> QED BY <1>8, <1>9, <2>1, <2>2 DEF FileStep
<1>12. Progress(s)'
  <2>1. CASE root' = root /\ step = "clean" /\ error # NoError
    BY <1>9, <2>1 DEF Progress
  <2>2. CASE /\ root' = root \cup {entry} /\ n = 2
             /\ step = IF io[s].n = 2 THEN "clean" ELSE "link"
    BY <1>3, <1>4, <1>5, <1>9, <2>2 DEF Progress, OwnEntries
  <2> QED BY <1>10, <2>1, <2>2
<1>13. Occupied(s)'
  BY <1>1, <1>9, <1>11, OccupiedKept
<1> QED BY <1>1, <1>11, <1>12, <1>13, FileStepKeeps

LEMMA DiscardTemporaryKeeps ==
    ASSUME PayloadInv, NEW s \in Sessions, DiscardTemporary(s), UNCHANGED dataVars
    PROVE  PayloadsKept
<1>1. FilesOK /\ io[s].op = "put" /\ io[s].step = "clean"
  BY DEF PayloadInv, DiscardTemporary, AtStep
<1>2. /\ DOMAIN io = Sessions /\ DOMAIN io[s] = IoFields /\ Progress(s) /\ sess[s].pc = "put"
      /\ ValidDirectory(root, written)
  BY <1>1, PutRunning
<1>3. PICK part : UnlinkExpected(TemporaryName(io[s].put, part), [put |-> io[s].put, part |-> part])
  BY DEF DiscardTemporary
<1>4. /\ root' \subseteq root
      /\ \A e \in root : e \notin root' => e.inode.put = io[s].put /\ e.name = TemporaryName(io[s].put, part)
  BY <1>3, UnlinkStep
<1>5. /\ written' = written
      /\ DOMAIN io' = Sessions /\ \A u \in Sessions : u # s => io'[u] = io[u]
      /\ DOMAIN io'[s] = IoFields
      /\ io'[s].op = "put" /\ io'[s].put = io[s].put /\ io'[s].key = io[s].key
      /\ io'[s].step = "clean" /\ io'[s].error \in {io[s].error, "cleanup"}
  BY <1>1, <1>2 DEF DiscardTemporary, IoFields
<1>6. FileStep(s)
  BY <1>2, <1>4, <1>5, DirectoryLess DEF FileStep
<1>7. Progress(s)'
  <2>1. OwnEntries(io[s]) \subseteq root => OwnEntries(io[s]) \subseteq root'
    BY <1>4, NamesDiffer, EntryFields DEF OwnEntries
  <2>2. OwnEntries(io'[s]) = OwnEntries(io[s])
    BY <1>5 DEF OwnEntries
  <2>3. io[s].error = NoError => OwnEntries(io[s]) \subseteq root
    BY <1>1, <1>2 DEF Progress
  <2> QED BY <1>5, <2>1, <2>2, <2>3, ErrorsDiffer DEF Progress
<1>8. Occupied(s)'
  BY <1>1, <1>5, <1>6, OccupiedKept
<1> QED BY <1>1, <1>6, <1>7, <1>8, FileStepKeeps

LEMMA DoneFields ==
    ASSUME NEW s \in Sessions, NEW error
    PROVE  /\ DOMAIN Done(s, error) = IoFields /\ Done(s, error).op = "done"
           /\ Done(s, error).put = io[s].put /\ Done(s, error).key = io[s].key
           /\ Done(s, error).error = error
BY DEF Done, IdleIo, IoFields

LEMMA PutEndsKeeps ==
    ASSUME PayloadInv, NEW s \in Sessions, PutEnds(s), UNCHANGED dataVars
    PROVE  PayloadsKept
<1>1. FilesOK /\ io[s].op = "put" /\ io[s].step = "clean"
  BY DEF PayloadInv, PutEnds, AtStep
<1>2. /\ DOMAIN io = Sessions /\ DOMAIN io[s] = IoFields /\ Progress(s) /\ sess[s].pc = "put"
      /\ ValidDirectory(root, written)
  BY <1>1, PutRunning
<1>3. /\ written' = written /\ root' = root
      /\ DOMAIN io' = Sessions /\ \A u \in Sessions : u # s => io'[u] = io[u]
      /\ \/ io'[s] = Done(s, io[s].error)
         \/ io[s].error # NoError /\ io'[s] = [io[s] EXCEPT !.step = "rollback"]
  BY <1>2 DEF PutEnds
<1>4. /\ DOMAIN io'[s] = IoFields /\ io'[s].op \in {"put", "done"}
      /\ io'[s].put = io[s].put /\ io'[s].key = io[s].key /\ io'[s].error = io[s].error
      /\ io'[s].op = "put" => io'[s].step = "rollback" /\ io[s].error # NoError
  BY <1>1, <1>2, <1>3, DoneFields DEF IoFields
<1>5. FileStep(s)
  BY <1>2, <1>3, <1>4 DEF FileStep
<1>6. Progress(s)'
  <2>1. OwnEntries(io'[s]) = OwnEntries(io[s])
    BY <1>4 DEF OwnEntries
  <2>2. io[s].error = NoError => OwnEntries(io[s]) \subseteq root
    BY <1>1, <1>2 DEF Progress
  <2> QED BY <1>3, <1>4, <2>1, <2>2 DEF Progress
<1>7. Occupied(s)'
  BY <1>1, <1>4, <1>5, OccupiedKept
<1> QED BY <1>1, <1>5, <1>6, <1>7, FileStepKeeps

LEMMA RollBackPublishedKeeps ==
    ASSUME PayloadInv, NEW s \in Sessions, RollBackPublished(s), UNCHANGED dataVars
    PROVE  PayloadsKept
<1>1. FilesOK /\ io[s].op = "put" /\ io[s].step = "rollback"
  BY DEF PayloadInv, RollBackPublished, AtStep
<1>2. /\ DOMAIN io = Sessions /\ DOMAIN io[s] = IoFields /\ Progress(s) /\ sess[s].pc = "put"
      /\ ValidDirectory(root, written)
  BY <1>1, PutRunning
<1>3. PICK name, part : UnlinkExpected(name, [put |-> io[s].put, part |-> part])
  BY DEF RollBackPublished
<1>4. root' \subseteq root /\ \A e \in root : e \notin root' => e.inode.put = io[s].put
  BY <1>3, UnlinkStep
<1>5. io[s].error # NoError
  BY <1>1, <1>2 DEF Progress
<1>6. /\ written' = written
      /\ DOMAIN io' = Sessions /\ \A u \in Sessions : u # s => io'[u] = io[u]
      /\ \E error, left : /\ error # NoError
                          /\ \/ io'[s] = Done(s, error)
                             \/ io'[s] = [io[s] EXCEPT !.published = left, !.error = error]
  BY <1>2, <1>5, ErrorsDiffer DEF RollBackPublished
<1>7. /\ DOMAIN io'[s] = IoFields /\ io'[s].op \in {"put", "done"}
      /\ io'[s].put = io[s].put /\ io'[s].key = io[s].key /\ io'[s].error # NoError
      /\ io'[s].op = "put" => io'[s].step = "rollback"
  <2>1. PICK error, left : /\ error # NoError
                           /\ \/ io'[s] = Done(s, error)
                              \/ io'[s] = [io[s] EXCEPT !.published = left, !.error = error]
    BY <1>6
  <2>2. CASE io'[s] = Done(s, error)
    BY <2>1, <2>2, DoneFields
  <2>3. CASE io'[s] = [io[s] EXCEPT !.published = left, !.error = error]
    BY <1>1, <1>2, <2>1, <2>3 DEF IoFields
  <2> QED BY <2>1, <2>2, <2>3
<1>8. FileStep(s)
  BY <1>2, <1>4, <1>6, <1>7, DirectoryLess DEF FileStep
<1>9. Progress(s)'
  BY <1>7 DEF Progress
<1>10. Occupied(s)'
  BY <1>1, <1>7, <1>8, OccupiedKept
<1> QED BY <1>1, <1>8, <1>9, <1>10, FileStepKeeps

\* What a step of a delete leaves of it.
LEMMA DeleteProgress ==
    ASSUME PayloadInv, NEW s \in Sessions, io[s].op = "delete", FileStep(s), UNCHANGED dataVars,
           \/ io'[s].op = "done"
           \/ /\ io'[s].op = "delete" /\ io'[s].held = io[s].held
              /\ io'[s].moved \in Seq(OwnEntries(io[s]))
              /\ io'[s].step = "quarantine" => io'[s].n \in 1..Len(io[s].held)
    PROVE  PayloadsKept
<1>1. FilesOK /\ Progress(s) /\ sess[s].pc = "undo"
  BY PutRunning DEF PayloadInv, FilesOK
<1>2. OwnEntries(io'[s]) = OwnEntries(io[s])
  BY DEF OwnEntries, FileStep
<1>3. Progress(s)'
  BY <1>1, <1>2 DEF Progress, dataVars
<1>4. Occupied(s)'
  BY <1>1, OccupiedKept
<1> QED BY <1>3, <1>4, FileStepKeeps

LEMMA QuarantineEntryKeeps ==
    ASSUME PayloadInv, NEW s \in Sessions, QuarantineEntry(s), UNCHANGED dataVars
    PROVE  PayloadsKept
<1>1. FilesOK /\ io[s].op = "delete" /\ io[s].step = "quarantine"
  BY DEF PayloadInv, QuarantineEntry, AtStep
<1>2. /\ DOMAIN io = Sessions /\ DOMAIN io[s] = IoFields /\ Progress(s)
      /\ ValidDirectory(root, written)
      /\ \A e \in OwnEntries(io[s]) : ValidEntry(e, written) /\ e.inode.put = io[s].put
  BY <1>1, PutRunning
<1>3. /\ io[s].held \in Seq(OwnEntries(io[s])) /\ io[s].moved \in Seq(OwnEntries(io[s]))
      /\ io[s].n \in 1..Len(io[s].held)
  BY <1>1, <1>2 DEF Progress
<1>4. PICK entry \in OwnEntries(io[s]) : entry = io[s].held[io[s].n]
  BY <1>3
<1>5. Append(io[s].moved, entry) \in Seq(OwnEntries(io[s]))
  BY <1>3
<1>6. written' = written
  BY DEF QuarantineEntry
<1>7. PICK moved, n, step :
          /\ DOMAIN io' = Sessions /\ \A u \in Sessions : u # s => io'[u] = io[u]
          /\ DOMAIN io'[s] = IoFields
          /\ io'[s].op = "delete" /\ io'[s].put = io[s].put /\ io'[s].key = io[s].key
          /\ io'[s].held = io[s].held /\ io'[s].moved = moved /\ io'[s].n = n /\ io'[s].step = step
          /\ moved \in Seq(OwnEntries(io[s]))
          /\ step = "quarantine" => n \in 1..Len(io[s].held)
          /\ root' \in {root, root \ {entry}}
  <2>1. CASE /\ root' = root \ {entry}
             /\ io' = [io EXCEPT ![s] = [io[s] EXCEPT
                          !.moved = IF entry \in root THEN Append(io[s].moved, entry) ELSE io[s].moved,
                          !.n = io[s].n + 1,
                          !.step = IF io[s].n = Len(io[s].held) THEN "commit" ELSE "quarantine"]]
    <3>1. PICK moved, n, step :
             /\ moved = IF entry \in root THEN Append(io[s].moved, entry) ELSE io[s].moved
             /\ n = io[s].n + 1
             /\ step = IF io[s].n = Len(io[s].held) THEN "commit" ELSE "quarantine"
             /\ io' = [io EXCEPT ![s] = [io[s] EXCEPT !.moved = moved, !.n = n, !.step = step]]
      BY <2>1
    <3>2. moved \in Seq(OwnEntries(io[s])) /\ (step = "quarantine" => n \in 1..Len(io[s].held))
      <4>1. moved \in Seq(OwnEntries(io[s]))
        BY <1>3, <1>5, <3>1
      <4>2. Len(io[s].held) \in Nat
        BY <1>3
      <4> QED BY <1>3, <3>1, <4>1, <4>2
    <3>3. /\ DOMAIN io' = Sessions /\ \A u \in Sessions : u # s => io'[u] = io[u]
          /\ DOMAIN io'[s] = IoFields
          /\ io'[s].op = "delete" /\ io'[s].put = io[s].put /\ io'[s].key = io[s].key
          /\ io'[s].held = io[s].held /\ io'[s].moved = moved /\ io'[s].n = n /\ io'[s].step = step
      BY <1>1, <1>2, <3>1 DEF IoFields
    <3> QED BY <2>1, <3>2, <3>3
  <2>2. CASE /\ root' = root
             /\ io' = [io EXCEPT ![s] = [io[s] EXCEPT !.step = "restore", !.error = "cleanup"]]
    <3>1. /\ DOMAIN io' = Sessions /\ \A u \in Sessions : u # s => io'[u] = io[u]
          /\ DOMAIN io'[s] = IoFields
          /\ io'[s].op = "delete" /\ io'[s].put = io[s].put /\ io'[s].key = io[s].key
          /\ io'[s].held = io[s].held /\ io'[s].moved = io[s].moved /\ io'[s].n = io[s].n
          /\ io'[s].step = "restore"
      BY <1>1, <1>2, <2>2 DEF IoFields
    <3> QED BY <1>3, <2>2, <3>1
  <2>3. \/ /\ root' = root \ {io[s].held[io[s].n]}
           /\ io' = [io EXCEPT ![s] = [io[s] EXCEPT
                        !.moved = IF io[s].held[io[s].n] \in root
                                  THEN Append(io[s].moved, io[s].held[io[s].n]) ELSE io[s].moved,
                        !.n = io[s].n + 1,
                        !.step = IF io[s].n = Len(io[s].held) THEN "commit" ELSE "quarantine"]]
        \/ /\ root' = root
           /\ io' = [io EXCEPT ![s] = [io[s] EXCEPT !.step = "restore", !.error = "cleanup"]]
    BY Zenon DEF QuarantineEntry
  <2> QED BY <1>4, <2>1, <2>2, <2>3, Zenon
<1>8. FileStep(s)
  <2>1. root' \subseteq root /\ \A e \in root : e \notin root' => e = entry
    BY <1>7
  <2> QED BY <1>2, <1>6, <1>7, <2>1, DirectoryLess DEF FileStep
<1> QED BY <1>1, <1>7, <1>8, DeleteProgress

LEMMA RestoreQuarantinedKeeps ==
    ASSUME PayloadInv, NEW s \in Sessions, RestoreQuarantined(s), UNCHANGED dataVars
    PROVE  PayloadsKept
<1>1. FilesOK /\ io[s].op = "delete" /\ io[s].step = "restore" /\ written' = written
  BY DEF PayloadInv, RestoreQuarantined, AtStep
<1>2. /\ DOMAIN io = Sessions /\ DOMAIN io[s] = IoFields /\ Progress(s)
      /\ ValidDirectory(root, written)
      /\ \A e \in OwnEntries(io[s]) : ValidEntry(e, written) /\ e.inode.put = io[s].put
  BY <1>1, PutRunning
<1>3. io[s].moved \in Seq(OwnEntries(io[s]))
  BY <1>1, <1>2 DEF Progress
<1>4. CASE io[s].moved = <<>>
  <2>1. io' = [io EXCEPT ![s] = Done(s, "cleanup")] /\ root' = root
    BY <1>4 DEF RestoreQuarantined
  <2>2. FileStep(s) /\ io'[s].op = "done"
    BY <1>1, <1>2, <2>1, DoneFields DEF FileStep
  <2> QED BY <1>1, <2>2, DeleteProgress
<1>5. CASE io[s].moved # <<>>
  <2>1. Last(io[s].moved) \in OwnEntries(io[s]) /\ Front(io[s].moved) \in Seq(OwnEntries(io[s]))
    BY <1>3, <1>5 DEF Last, Front
  <2>2. PICK entry \in OwnEntries(io[s]) :
            /\ root' = IF Named(entry.name) = {} THEN root \cup {entry} ELSE root
            /\ io' = [io EXCEPT ![s].moved = Front(io[s].moved)]
    BY <1>5, <2>1 DEF RestoreQuarantined
  <2>3. ValidDirectory(root', written) /\ root \subseteq root'
    <3>1. Named(entry.name) = {} => \A f \in root : f.name = entry.name => f = entry
      BY DEF Named
    <3> QED BY <1>2, <2>2, <3>1, DirectoryMore
  <2>4. /\ DOMAIN io' = Sessions /\ \A u \in Sessions : u # s => io'[u] = io[u]
        /\ DOMAIN io'[s] = IoFields
        /\ io'[s].op = "delete" /\ io'[s].put = io[s].put /\ io'[s].key = io[s].key
        /\ io'[s].held = io[s].held /\ io'[s].moved = Front(io[s].moved) /\ io'[s].step = "restore"
    BY <1>1, <1>2, <2>2 DEF IoFields
  <2>5. FileStep(s)
    BY <1>1, <2>3, <2>4 DEF FileStep
  <2> QED BY <1>1, <2>1, <2>4, <2>5, DeleteProgress
<1> QED BY <1>4, <1>5

LEMMA CommitQuarantinedKeeps ==
    ASSUME PayloadInv, NEW s \in Sessions, CommitQuarantined(s), UNCHANGED dataVars
    PROVE  PayloadsKept
<1>1. /\ FilesOK /\ io[s].op = "delete" /\ io[s].step = "commit"
      /\ written' = written /\ root' = root
  BY DEF PayloadInv, CommitQuarantined, AtStep
<1>2. /\ DOMAIN io = Sessions /\ DOMAIN io[s] = IoFields /\ Progress(s)
      /\ ValidDirectory(root, written)
  BY <1>1, PutRunning
<1>3. io[s].moved \in Seq(OwnEntries(io[s]))
  BY <1>1, <1>2 DEF Progress
<1>4. CASE io[s].moved = <<>>
  <2>1. io' = [io EXCEPT ![s] = Done(s, NoError)]
    BY <1>4 DEF CommitQuarantined
  <2>2. FileStep(s) /\ io'[s].op = "done"
    BY <1>1, <1>2, <2>1, DoneFields DEF FileStep
  <2> QED BY <1>1, <2>2, DeleteProgress
<1>5. CASE io[s].moved # <<>>
  <2>1. Tail(io[s].moved) \in Seq(OwnEntries(io[s]))
    BY <1>3, <1>5, HeadTailProperties
  <2>2. \/ io' = [io EXCEPT ![s].moved = Tail(io[s].moved)]
        \/ io' = [io EXCEPT ![s] = [io[s] EXCEPT !.moved = Tail(io[s].moved), !.step = "restore"]]
    <3>1. \/ io' = [io EXCEPT ![s] = [io[s] EXCEPT !.moved = Tail(io[s].moved)]]
          \/ io' = [io EXCEPT ![s] = [io[s] EXCEPT !.moved = Tail(io[s].moved), !.step = "restore"]]
      BY <1>5, Zenon DEF CommitQuarantined
    <3> QED BY <3>1
  <2>3. /\ DOMAIN io' = Sessions /\ \A u \in Sessions : u # s => io'[u] = io[u]
        /\ DOMAIN io'[s] = IoFields
        /\ io'[s].op = "delete" /\ io'[s].put = io[s].put /\ io'[s].key = io[s].key
        /\ io'[s].held = io[s].held /\ io'[s].moved = Tail(io[s].moved)
        /\ io'[s].step \in {"commit", "restore"}
    BY <1>1, <1>2, <2>2 DEF IoFields
  <2>4. FileStep(s)
    BY <1>1, <1>2, <2>3 DEF FileStep
  <2> QED BY <1>1, <2>1, <2>3, <2>4, DeleteProgress
<1> QED BY <1>4, <1>5

LEMMA BlobStepKeeps ==
    ASSUME PayloadInv, NEW s \in Sessions, BlobStep(s), UNCHANGED dataVars
    PROVE  PayloadsKept
BY CreateTemporaryKeeps, PublishLinkKeeps, DiscardTemporaryKeeps, PutEndsKeeps,
   RollBackPublishedKeeps, QuarantineEntryKeeps, RestoreQuarantinedKeeps, CommitQuarantinedKeeps
   DEF BlobStep

LEMMA IdleFields ==
    DOMAIN IdleIo = IoFields /\ IdleIo.op = "idle" /\ IdleIo.put = 0
BY DEF IdleIo, IoFields

\* A step that leaves the directory alone and the session without a file
\* operation, as a command that is not an ingestion always is.
LEMMA DirectoryAlone ==
    ASSUME PipelineOK, PayloadInv, NEW s \in Sessions, NEW c, Step(s, c),
           UNCHANGED <<root, written>>,
           \/ io' = io /\ io[s].op = "idle"
           \/ io' = [io EXCEPT ![s] = IdleIo],
           \A p \in sess'[s].tx["raw_payloads"] : Safe(p)'
    PROVE  PayloadsKept
<1>1. FilesOK /\ PayloadsStored /\ "raw_payloads" \in Tables
  BY TablesAssumption DEF PayloadInv
<1>2. /\ DOMAIN io' = Sessions /\ \A u \in Sessions : u # s => io'[u] = io[u] /\ sess'[u] = sess[u]
      /\ DOMAIN io'[s] = IoFields /\ io'[s].op = "idle" /\ io'[s].put = 0
  BY <1>1, IdleFields DEF FilesOK, Occupied, Step
<1>3. ASSUME NEW p, Safe(p) PROVE Safe(p)'
  <2>1. PICK put \in 1..Len(written) :
            WholeBlob(root, written, put, p.uri, p.checksum) /\ \A u \in Sessions : io[u].put # put
    BY <1>3 DEF Safe
  <2>2. \A u \in Sessions : io'[u].put # put
    BY <1>2, <2>1
  <2> QED BY <2>1, <2>2 DEF Safe
<1>4. PayloadsStored'
  <2>1. \A p \in db'["raw_payloads"] : p \in db["raw_payloads"] \/ p \in sess[s].tx["raw_payloads"]
    BY <1>1 DEF Step
  <2>2. \A p \in db'["raw_payloads"] : Safe(p)'
    BY <1>1, <1>3, <2>1 DEF PayloadsStored
  <2>3. \A u \in Sessions : \A p \in sess'[u].tx["raw_payloads"] : Safe(p)'
    BY <1>1, <1>2, <1>3 DEF PayloadsStored
  <2> QED BY <2>2, <2>3 DEF PayloadsStored
<1>5. ASSUME NEW u \in Sessions
      PROVE  DOMAIN io'[u] = IoFields /\ Occupied(u)' /\ Progress(u)'
  <2>1. CASE u = s
    BY <1>2, <2>1 DEF Occupied, Progress
  <2>2. CASE u # s
    <3>1. DOMAIN io[u] = IoFields /\ Occupied(u) /\ Progress(u)
      BY <1>1 DEF FilesOK
    <3> QED BY <1>2, <2>2, <3>1 DEF Occupied, Progress
  <2> QED BY <2>1, <2>2
<1>6. \A v, u \in Sessions : v # u /\ io'[v].put = io'[u].put => io'[v].put = 0
  BY <1>1, <1>2 DEF FilesOK
<1>7. FilesOK'
  BY <1>1, <1>2, <1>5, <1>6 DEF FilesOK
<1> QED BY <1>3, <1>4, <1>7 DEF PayloadInv, PayloadsKept

LEMMA BeginPutKeeps ==
    ASSUME PipelineOK, PayloadInv, NEW s \in Sessions, NEW key,
           sess[s].cmd = "ingest", sess[s].pc = "put", ValidPut(sess[s].work.env.raw),
           BeginPut(s, key, sess[s].work.env.raw), UNCHANGED dataVars
    PROVE  PayloadsKept
<1>1. /\ FilesOK /\ PayloadsStored /\ io[s].op = "idle" /\ DOMAIN io = Sessions
      /\ ValidDirectory(root, written)
  BY DEF PayloadInv, FilesOK, BeginPut
<1>2. sess[s].work.env.raw.size \in 0..MaxBlobBytes
  BY AnswersAssumption, BlobAssumption DEF PipelineOK, Asked, ValidPut, ValidData
<1>3. PICK blob : blob = [key |-> key, data |-> sess[s].work.env.raw]
  OBVIOUS
<1>4. written' = Append(written, blob) /\ root' = root
  BY <1>3 DEF BeginPut
<1>5. PICK S : written \in Seq(S) /\ blob \in S
  <2>1. written \in Seq(ToSet(written) \cup {blob})
    BY <1>1 DEF ValidDirectory
  <2> QED BY <2>1
<1>6. /\ Len(written) \in Nat /\ Len(written') = Len(written) + 1
      /\ written'[Len(written) + 1] = blob
      /\ \A put \in 1..Len(written) : written'[put] = written[put]
      /\ written' \in Seq(S)
  BY <1>4, <1>5
<1>7. /\ DOMAIN io' = Sessions /\ \A u \in Sessions : u # s => io'[u] = io[u]
      /\ DOMAIN io'[s] = IoFields /\ io'[s].op = "put" /\ io'[s].step = "create"
      /\ io'[s].key = key /\ io'[s].put = Len(written) + 1 /\ io'[s].n = 1 /\ io'[s].error = NoError
  BY <1>1 DEF BeginPut, IdleIo, IoFields
<1>8. ValidDirectory(root', written')
  <2>1. written' \in Seq(ToSet(written'))
    <3>1. \A i \in 1..Len(written') : written'[i] \in ToSet(written')
      BY <1>6 DEF ToSet
    <3> QED BY <1>6, <3>1
  <2>2. \A e : ValidEntry(e, written) => ValidEntry(e, written')
    BY <1>6 DEF ValidEntry
  <2> QED BY <1>1, <1>4, <2>1, <2>2 DEF ValidDirectory
<1>9. ASSUME NEW p, Safe(p) PROVE Safe(p)'
  <2>1. PICK put \in 1..Len(written) :
            WholeBlob(root, written, put, p.uri, p.checksum) /\ \A u \in Sessions : io[u].put # put
    BY <1>9 DEF Safe
  <2>2. WholeBlob(root', written', put, p.uri, p.checksum) /\ put \in 1..Len(written')
    BY <1>4, <1>6, <2>1 DEF WholeBlob
  <2>3. \A u \in Sessions : io'[u].put # put
    BY <1>6, <1>7, <2>1
  <2> QED BY <2>2, <2>3 DEF Safe
<1>10. PayloadsStored'
  BY <1>1, <1>9 DEF PayloadsStored, dataVars
<1>11. ASSUME NEW u \in Sessions
       PROVE  DOMAIN io'[u] = IoFields /\ Occupied(u)' /\ Progress(u)'
  <2>1. CASE u = s
    <3>1. Progress(s)'
      BY <1>7 DEF Progress
    <3>2. Occupied(s)'
      BY <1>2, <1>3, <1>6, <1>7 DEF Occupied, dataVars
    <3> QED BY <1>7, <2>1, <3>1, <3>2
  <2>2. CASE u # s
    <3>1. DOMAIN io[u] = IoFields /\ Occupied(u) /\ Progress(u)
      BY <1>1 DEF FilesOK
    <3>2. Progress(u)'
      BY <1>4, <1>7, <2>2, <3>1 DEF Progress, dataVars
    <3>3. Occupied(u)'
      BY <1>6, <1>7, <2>2, <3>1 DEF Occupied, dataVars
    <3> QED BY <1>7, <2>2, <3>1, <3>2, <3>3
  <2> QED BY <2>1, <2>2
<1>12. \A v, u \in Sessions : v # u /\ io'[v].put = io'[u].put => io'[v].put = 0
  <2>1. \A u \in Sessions : io[u].put \in 0..Len(written)
    BY <1>1, <1>6 DEF FilesOK, Occupied
  <2> QED BY <1>1, <1>6, <1>7, <2>1 DEF FilesOK
<1>13. FilesOK'
  BY <1>7, <1>8, <1>11, <1>12 DEF FilesOK
<1> QED BY <1>9, <1>10, <1>13 DEF PayloadInv, PayloadsKept

\* A put that has ended well left a whole blob.
LEMMA PutIsWhole ==
    ASSUME FilesOK, NEW s \in Sessions, sess[s].pc = "put", io[s].op = "done", io[s].error = NoError
    PROVE  /\ WholeBlob(root, written, io[s].put, io[s].key, sess[s].work.env.raw.bytes)
           /\ io[s].put \in 1..Len(written)
<1>1. Occupied(s) /\ Progress(s)
  BY DEF FilesOK
<1>2. OwnEntries(io[s]) \subseteq root
  BY <1>1 DEF Progress
<1> QED BY <1>1, <1>2 DEF Occupied, OwnEntries, WholeBlob

LEMMA BeginDeleteKeeps ==
    ASSUME PipelineOK, PayloadInv, NEW s \in Sessions,
           sess[s].cmd = "ingest", sess[s].pc = "put", io[s].op = "done", io[s].error = NoError,
           BeginDelete(s, io[s].key), UNCHANGED <<root, written>>, db' = db,
           Step(s, "ingest"), sess'[s].pc = "undo", sess'[s].cmd = "ingest", sess'[s].tx = sess[s].tx
    PROVE  PayloadsKept
<1>1. /\ FilesOK /\ PayloadsStored /\ DOMAIN io = Sessions /\ Occupied(s)
      /\ ValidDirectory(root, written)
  BY DEF PayloadInv, FilesOK
<1>2. WholeBlob(root, written, io[s].put, io[s].key, sess[s].work.env.raw.bytes)
  BY <1>1, PutIsWhole
<1>3. PICK content, sidecar :
          /\ content = LocalEntry(io[s].put, io[s].key, "content")
          /\ sidecar = LocalEntry(io[s].put, io[s].key, "sidecar")
  OBVIOUS
<1>4. /\ HeldEntry(io[s].key, "content") = <<content>>
      /\ HeldEntry(io[s].key, "sidecar") = <<sidecar>>
  <2>1. /\ Named(LocalName(io[s].key, "content")) = {content}
        /\ Named(LocalName(io[s].key, "sidecar")) = {sidecar}
    BY <1>1, <1>2, <1>3, LocalIsAlone DEF WholeBlob
  <2>2. \A e : (CHOOSE f \in {e} : TRUE) = e
    OBVIOUS
  <2> QED BY <2>1, <2>2 DEF HeldEntry
<1>5. PICK held : held = <<content>> \o <<sidecar>>
  OBVIOUS
<1>6. held \in Seq({content, sidecar}) /\ Len(held) = 2 /\ held # <<>>
  BY <1>5
<1>7. io' = [io EXCEPT ![s] = [[IdleIo EXCEPT !.key = io[s].key, !.put = io[s].put] EXCEPT
                                   !.op = "delete", !.step = "quarantine", !.held = held]]
  BY <1>4, <1>5, <1>6 DEF BeginDelete
<1>8. /\ DOMAIN io' = Sessions /\ \A u \in Sessions : u # s => io'[u] = io[u] /\ sess'[u] = sess[u]
      /\ DOMAIN io'[s] = IoFields /\ io'[s].op = "delete" /\ io'[s].put = io[s].put
      /\ io'[s].key = io[s].key /\ io'[s].held = held /\ io'[s].moved = <<>> /\ io'[s].n = 1
  BY <1>1, <1>7 DEF IdleIo, IoFields, Step
<1>9. FileStep(s)
  BY <1>1, <1>8 DEF FileStep
<1>e. \A p : Safe(p) => Safe(p)'
  BY <1>1, <1>9, SafeKept
<1>10. PayloadsStored'
  BY <1>1, <1>8, <1>e DEF PayloadsStored
<1>11. ASSUME NEW u \in Sessions
       PROVE  DOMAIN io'[u] = IoFields /\ Occupied(u)' /\ Progress(u)'
  <2>1. CASE u = s
    <3>1. OwnEntries(io'[s]) = {content, sidecar}
      BY <1>3, <1>8 DEF OwnEntries
    <3>2. Progress(s)'
      BY <1>6, <1>8, <3>1 DEF Progress
    <3>3. Occupied(s)'
      BY <1>1, <1>8 DEF Occupied
    <3> QED BY <1>8, <2>1, <3>2, <3>3
  <2>2. CASE u # s
    <3>1. DOMAIN io[u] = IoFields /\ Occupied(u) /\ Progress(u)
      BY <1>1 DEF FilesOK
    <3> QED BY <1>8, <2>2, <3>1 DEF Occupied, Progress
  <2> QED BY <2>1, <2>2
<1>12. \A v, u \in Sessions : v # u /\ io'[v].put = io'[u].put => io'[v].put = 0
  BY <1>1, <1>8 DEF FilesOK
<1>13. FilesOK'
  BY <1>1, <1>8, <1>11, <1>12 DEF FilesOK
<1> QED BY <1>e, <1>10, <1>13 DEF PayloadInv, PayloadsKept

LEMMA IngestKeepsPayloads ==
    ASSUME PipelineOK, PayloadInv, NEW s \in Sessions, IngestAction(s)
    PROVE  PayloadsKept
<1>1. /\ SessionsOK /\ Asked /\ FilesOK /\ PayloadsStored /\ Occupied(s)
      /\ "raw_payloads" \in Tables
  BY TablesAssumption DEF PipelineOK, PayloadInv, FilesOK
<1>2. ASSUME UNCHANGED blobVars, Step(s, "ingest"), io[s].op = "idle",
             \/ sess'[s] = IdleSession
             \/ sess'[s].tx = EmptyTx
             \/ sess'[s].tx["raw_payloads"] = sess[s].tx["raw_payloads"]
      PROVE  PayloadsKept
  <2>1. \A p \in sess'[s].tx["raw_payloads"] : p \in sess[s].tx["raw_payloads"]
    BY <1>1, <1>2, IdleSessionOK DEF EmptyTx
  <2>2. \A p \in sess'[s].tx["raw_payloads"] : Safe(p)'
    BY <1>1, <1>2, <2>1 DEF PayloadsStored, Safe, blobVars
  <2> QED BY <1>2, <2>2, DirectoryAlone DEF blobVars
<1>3. CASE \E req \in Requests : IngestStart(s, req)
  <2>1. /\ UNCHANGED blobVars /\ Step(s, "ingest") /\ sess[s].cmd = "idle" /\ sess'[s].tx = EmptyTx
    BY <1>1, <1>3, IngestStartStep
  <2> QED BY <1>1, <1>2, <2>1 DEF Occupied
<1>4. CASE IngestBootstrap(s)
  <2>1. /\ UNCHANGED blobVars /\ Step(s, "ingest") /\ sess[s].pc = "bootstrap"
        /\ sess'[s] = IdleSession \/ sess'[s].tx["raw_payloads"] = sess[s].tx["raw_payloads"]
    BY <1>1, <1>4, IngestBootstrapStep
  <2> QED BY <1>1, <1>2, <2>1 DEF Occupied
<1>5. CASE IngestRun(s)
  <2>1. /\ UNCHANGED blobVars /\ Step(s, "ingest") /\ sess[s].pc = "run"
        /\ sess'[s].tx["raw_payloads"] = sess[s].tx["raw_payloads"]
    BY <1>1, <1>5, IngestRunStep
  <2> QED BY <1>1, <1>2, <2>1 DEF Occupied
<1>6. CASE IngestFinish(s)
  <2>1. UNCHANGED blobVars /\ Step(s, "ingest") /\ sess[s].pc = "finish" /\ sess'[s] = IdleSession
    BY <1>1, <1>6, IngestFinishStep
  <2> QED BY <1>1, <1>2, <2>1 DEF Occupied
<1>7. CASE IngestPut(s)
  <2>1. /\ sess[s].pc = "put" /\ sess[s].cmd = "ingest" /\ io[s].op = "idle"
        /\ \/ Step(s, "ingest") /\ UNCHANGED blobVars /\ sess'[s] = IdleSession
           \/ /\ ValidPut(sess[s].work.env.raw) /\ UNCHANGED dataVars
              /\ \E key \in Keys : BeginPut(s, key, sess[s].work.env.raw)
    BY <1>1, <1>7, IngestPutStep
  <2> QED BY <1>2, <2>1, BeginPutKeeps
<1>8. CASE IngestUndone(s)
  <2>1. /\ Step(s, "ingest") /\ sess'[s] = IdleSession
        /\ io' = [io EXCEPT ![s] = IdleIo] /\ UNCHANGED <<root, written>>
    BY <1>1, <1>8, IngestUndoneStep
  <2>2. sess'[s].tx["raw_payloads"] = {}
    BY <1>1, <2>1, IdleSessionOK DEF EmptyTx
  <2> QED BY <2>1, <2>2, DirectoryAlone
<1>9. CASE IngestPersist(s)
  <2>1. /\ sess[s].pc = "put" /\ sess[s].cmd = "ingest" /\ io[s].op = "done"
        /\ Step(s, "ingest") /\ db' = db /\ UNCHANGED <<root, written>>
    BY <1>1, <1>9, IngestPersistStep
  <2>2. CASE sess'[s] = IdleSession /\ io' = [io EXCEPT ![s] = IdleIo]
    <3>1. sess'[s].tx["raw_payloads"] = {}
      BY <1>1, <2>2, IdleSessionOK DEF EmptyTx
    <3> QED BY <2>1, <2>2, <3>1, DirectoryAlone
  <2>3. CASE /\ io[s].error = NoError /\ io' = [io EXCEPT ![s] = IdleIo]
             /\ sess'[s].tx["raw_payloads"]
                  = sess[s].tx["raw_payloads"]
                      \cup {PayloadOf(IdempotencyKey(sess[s].work.req), sess[s].work.env, io[s].key)}
    <3>1. PICK new : /\ new.uri = io[s].key /\ new.checksum = sess[s].work.env.raw.bytes
                     /\ sess'[s].tx["raw_payloads"] = sess[s].tx["raw_payloads"] \cup {new}
      BY <2>3 DEF PayloadOf
    <3>2. /\ DOMAIN io = Sessions
          /\ \A u \in Sessions : io'[u].put = IF u = s THEN 0 ELSE io[u].put
      BY <1>1, <2>3, IdleFields DEF FilesOK
    <3>3. Safe(new)'
      <4>1. /\ WholeBlob(root, written, io[s].put, new.uri, new.checksum)
            /\ io[s].put \in 1..Len(written)
        BY <1>1, <2>1, <2>3, <3>1, PutIsWhole
      <4>2. \A u \in Sessions : io'[u].put # io[s].put
        BY <1>1, <3>2, <4>1 DEF FilesOK
      <4> QED BY <2>1, <4>1, <4>2 DEF Safe
    <3>4. \A p \in sess[s].tx["raw_payloads"] : Safe(p)'
      <4>1. SUFFICES ASSUME NEW p \in sess[s].tx["raw_payloads"] PROVE Safe(p)'
        OBVIOUS
      <4>2. PICK put \in 1..Len(written) :
                /\ WholeBlob(root, written, put, p.uri, p.checksum)
                /\ \A u \in Sessions : io[u].put # put
        BY <1>1, <4>1 DEF PayloadsStored, Safe
      <4>3. \A u \in Sessions : io'[u].put # put
        BY <3>2, <4>2
      <4> QED BY <2>1, <4>2, <4>3 DEF Safe
    <3>5. \A p \in sess'[s].tx["raw_payloads"] : Safe(p)'
      BY <3>1, <3>3, <3>4
    <3> QED BY <2>1, <2>3, <3>5, DirectoryAlone
  <2>4. CASE /\ io[s].error = NoError /\ BeginDelete(s, io[s].key)
             /\ sess'[s].pc = "undo" /\ sess'[s].cmd = "ingest" /\ sess'[s].tx = sess[s].tx
    BY <2>1, <2>4, BeginDeleteKeeps
  <2> QED BY <1>1, <1>9, <2>2, <2>3, <2>4, IngestPersistStep
<1> QED BY <1>3, <1>4, <1>5, <1>6, <1>7, <1>8, <1>9 DEF IngestAction

\* A command that is not an ingestion has no file operation and no payload.
LEMMA OtherKeepsPayloads ==
    ASSUME PipelineOK, PayloadInv, NEW s \in Sessions, NEW c, Step(s, c), c # "ingest",
           UNCHANGED <<root, written, io>>
    PROVE  PayloadsKept
<1>1. io[s].op = "idle"
  BY DEF PayloadInv, FilesOK, Occupied, Step
<1>2. "raw_payloads" \in Tables /\ "raw_payloads" \in Writes("ingest")
  BY TablesAssumption DEF Writes
<1>3. "raw_payloads" \notin Writes(c) /\ "raw_payloads" \notin Writes("idle")
  BY <1>2, WritesDisjoint
<1>4. sess'[s].tx["raw_payloads"] = {}
  BY <1>2, <1>3 DEF Step, SessionOK, Transaction
<1> QED BY <1>1, <1>4, DirectoryAlone

LEMMA PayloadStep ==
    ASSUME PipelineOK, PayloadInv, [Next]_vars
    PROVE  PayloadsKept
<1>1. CASE UNCHANGED vars
  BY <1>1 DEF PayloadsKept, PayloadInv, FilesOK, PayloadsStored, Safe, Occupied, Progress, OwnEntries,
              ValidDirectory, WholeBlob, vars, blobVars, dataVars
<1>2. CASE Next
  <2>1. PICK s \in Sessions :
            \/ SeedMasterAction(s) \/ IngestAction(s) \/ OtherAction(s) \/ Crash(s)
            \/ BlobStep(s) /\ UNCHANGED dataVars
    BY <1>2, NextKinds DEF PipelineOK
  <2>2. CASE SeedMasterAction(s)
    BY <2>2, SeedMasterSteps, OtherKeepsPayloads DEF SeedMasterAction, Quiet, PipelineOK, blobVars
  <2>3. CASE OtherAction(s)
    BY <2>3, OtherKeepsPayloads DEF OtherAction, OtherCommands
  <2>4. CASE Crash(s)
    <3>1. /\ Step(s, sess[s].cmd) /\ sess'[s] = IdleSession
          /\ io' = [io EXCEPT ![s] = IdleIo] /\ UNCHANGED <<root, written>>
      BY <2>4, CrashStep DEF PipelineOK
    <3>2. sess'[s].tx["raw_payloads"] = {}
      BY <3>1, IdleSessionOK, TablesAssumption DEF EmptyTx
    <3> QED BY <3>1, <3>2, DirectoryAlone
  <2> QED BY <2>1, <2>2, <2>3, <2>4, IngestKeepsPayloads, BlobStepKeeps
<1> QED BY <1>1, <1>2

LEMMA InitPayloads == Init => PayloadInv
<1> SUFFICES ASSUME NEW before \in InitialStates, DataInit(before)
             PROVE  PayloadInv
    BY DEF Init
<1>1. /\ root = before.root /\ written = before.written /\ db = before.db
      /\ \A s \in Sessions : io[s] = IdleIo /\ sess[s] = IdleSession
      /\ DOMAIN io = Sessions
  BY DEF DataInit, BlobInit
<1>2. \A s \in Sessions : DOMAIN io[s] = IoFields /\ io[s].op = "idle" /\ io[s].put = 0
  BY <1>1, IdleFields
<1>3. FilesOK
  BY <1>1, <1>2, InitialAssumption DEF FilesOK, Occupied, Progress
<1>4. \A s \in Sessions : sess[s].tx["raw_payloads"] = {}
  BY <1>1, IdleSessionOK, TablesAssumption DEF EmptyTx
<1>5. \A p \in db["raw_payloads"] : Safe(p)
  <2> SUFFICES ASSUME NEW p \in db["raw_payloads"] PROVE Safe(p)
      OBVIOUS
  <2>1. PICK put \in DOMAIN before.written :
            WholeBlob(before.root, before.written, put, p.uri, p.checksum)
    BY <1>1, InitialAssumption
  <2>2. put \in 1..Len(written) /\ WholeBlob(root, written, put, p.uri, p.checksum)
    BY <1>1, <2>1 DEF WholeBlob
  <2> QED BY <1>2, <2>2 DEF Safe
<1> QED BY <1>3, <1>4, <1>5 DEF PayloadInv, PayloadsStored

\* A whole blob reads back as the bytes that were put.
LEMMA WholeReads ==
    ASSUME ValidDirectory(root, written), NEW put, NEW key, NEW bytes,
           WholeBlob(root, written, put, key, bytes)
    PROVE  ReadVerified(key).error = NoError /\ ReadVerified(key).bytes = bytes
<1>1. PICK content, sidecar :
          /\ content = LocalEntry(put, key, "content") /\ sidecar = LocalEntry(put, key, "sidecar")
  OBVIOUS
<1>2. /\ Named(LocalName(key, "content")) = {content}
      /\ Named(LocalName(key, "sidecar")) = {sidecar}
  BY <1>1, LocalIsAlone DEF WholeBlob
<1>3. content.inode.put = put /\ sidecar.inode.put = put
  BY <1>1, EntryFields
<1>4. InodeUnder(key, "content").put = put /\ InodeUnder(key, "sidecar").put = put
  BY <1>2, <1>3 DEF InodeUnder
<1>5. Exists(key) = "present"
  <2>1. Parts[1] = "content" /\ Parts[2] = "sidecar"
    BY DEF Parts
  <2>2. 1 \in 1..2 /\ 2 \in 1..2
    OBVIOUS
  <2>3. PairExists(key)[1] /\ PairExists(key)[2]
    <3>1. Named(LocalName(key, Parts[1])) # {} /\ Named(LocalName(key, Parts[2])) # {}
      BY <1>2, <2>1
    <3> QED BY <2>2, <3>1, Zenon DEF PairExists
  <2> QED BY <2>3 DEF Exists
<1>6. /\ Sidecar(put).uri = key /\ Sidecar(put).checksum = bytes
      /\ Sidecar(put).size = written[put].data.size /\ written[put].data.bytes = bytes
      /\ ~(written[put].data.size > MaxBlobBytes)
  BY BlobAssumption DEF Sidecar, WholeBlob
<1>7. ReadVerified(key) = [error |-> NoError, bytes |-> bytes]
  BY <1>4, <1>5, <1>6 DEF ReadVerified
<1> QED BY <1>7

\* Every committed raw payload reads back as the bytes that were checksummed:
\* no interleaving of puts, rollbacks, deletes, faults and crashes in the
\* shared directory loses or tears the blob of a payload whose row is
\* committed (LocalBlobStorage.put and delete, DataIngestionService).
THEOREM PayloadsReadable == Spec => []CommittedPayloadReadable
<1>1. PipelineOK /\ PayloadInv /\ [Next]_vars => PipelineOK' /\ PayloadInv'
  BY PipelineStep, PayloadStep DEF PayloadsKept
<1>2. PayloadInv => CommittedPayloadReadable
  <2> SUFFICES ASSUME PayloadInv, NEW p \in db["raw_payloads"]
               PROVE  ReadVerified(p.uri).error = NoError /\ ReadVerified(p.uri).bytes = p.checksum
      BY DEF CommittedPayloadReadable
  <2>1. ValidDirectory(root, written) /\ Safe(p)
    BY DEF PayloadInv, FilesOK, PayloadsStored
  <2>2. PICK put : WholeBlob(root, written, put, p.uri, p.checksum)
    BY <2>1 DEF Safe
  <2> QED BY <2>1, <2>2, WholeReads
<1> QED BY InitPipeline, InitPayloads, <1>1, <1>2, PTL DEF Spec

(***************************************************************************)
(* Finite sets: a smallest member of a family, the newest rows, the        *)
(* greatest version.                                                       *)
(***************************************************************************)
LEMMA SmallestMember ==
    ASSUME NEW F, IsFiniteSet(F), NEW T, T \subseteq SUBSET F, T # {}
    PROVE  \E x \in T : \A y \in T : y \subseteq x => y = x
<1>1. IsWellFoundedOn(StrictSubsetOrdering(F), SUBSET F)
  BY FS_StrictSubsetOrderingWellFounded, FS_FiniteSubsetsOfFinite
<1>2. PICK x \in T : \A y \in T : <<y, x>> \notin StrictSubsetOrdering(F)
  BY <1>1, WFMin
<1> QED BY <1>2 DEF StrictSubsetOrdering

LEMMA LeastNumber ==
    ASSUME NEW F, IsFiniteSet(F), F # {}, \A i \in F : i \in Int
    PROVE  \E m \in F : \A i \in F : m <= i
<1> DEFINE Below(x) == {i \in F : i < x}
           T == {Below(x) : x \in F}
<1>1. PICK least \in T : \A y \in T : y \subseteq least => y = least
  <2>1. T \subseteq SUBSET F /\ T # {}
    OBVIOUS
  <2> HIDE DEF T
  <2> QED BY <2>1, SmallestMember
<1>2. PICK m \in F : least = Below(m)
  OBVIOUS
<1>3. \A i \in F : m <= i
  <2> SUFFICES ASSUME NEW i \in F, i < m PROVE FALSE
      OBVIOUS
  <2>1. Below(i) \subseteq Below(m) /\ i \in Below(m) /\ i \notin Below(i)
    OBVIOUS
  <2> QED BY <1>1, <1>2, <2>1
<1> QED BY <1>3

\* Rows that can be put in order.
Dated(F) == \A r \in F : r.rec.date \in Nat /\ r.retrieved \in Nat

LEMMA OldestExists ==
    ASSUME NEW F, IsFiniteSet(F), F # {}, Dated(F)
    PROVE  \E m \in F : \A r \in F : NoNewer(r, m)
<1> DEFINE Older(x) == {q \in F : ~NoNewer(q, x)}
           T == {Older(x) : x \in F}
<1>1. PICK least \in T : \A y \in T : y \subseteq least => y = least
  <2>1. T \subseteq SUBSET F /\ T # {}
    OBVIOUS
  <2> HIDE DEF T
  <2> QED BY <2>1, SmallestMember
<1>2. PICK m \in F : least = Older(m)
  OBVIOUS
<1>3. \A r \in F : NoNewer(r, m)
  <2> SUFFICES ASSUME NEW r \in F, ~NoNewer(r, m) PROVE FALSE
      OBVIOUS
  <2>1. Older(r) \subseteq Older(m)
    BY DEF NoNewer, Dated
  <2>2. r \in Older(m) /\ r \notin Older(r)
    BY DEF NoNewer, Dated
  <2> QED BY <1>1, <1>2, <2>1, <2>2
<1> QED BY <1>3

LEMMA NewestExists ==
    ASSUME NEW F, IsFiniteSet(F), Dated(F), NEW k \in Nat, k <= Cardinality(F)
    PROVE  \E top \in kSubset(k, F) : \A r \in top, q \in F \ top : NoNewer(r, q)
<1> DEFINE Top(x) == \A r \in x, q \in F \ x : NoNewer(r, q)
           T == {x \in SUBSET F : Cardinality(x) >= k /\ Top(x)}
<1>1. PICK top \in T : \A y \in T : y \subseteq top => y = top
  <2>1. T \subseteq SUBSET F /\ F \in T
    BY FS_CardinalityType
  <2> HIDE DEF T
  <2> QED BY <2>1, SmallestMember
<1>2. IsFiniteSet(top) /\ Cardinality(top) \in Nat /\ Dated(top)
  BY FS_Subset, FS_CardinalityType DEF Dated
<1>3. CASE Cardinality(top) # k
  <2>1. top # {}
    BY <1>2, <1>3, FS_EmptySet
  <2>2. PICK m \in top : \A r \in top : NoNewer(r, m)
    BY <1>2, <2>1, OldestExists
  <2>3. Cardinality(top \ {m}) = Cardinality(top) - 1
    BY <1>2, FS_RemoveElement
  <2>4. Top(top \ {m})
    BY <2>2
  <2>5. top \ {m} \in T
    BY <1>2, <1>3, <2>3, <2>4
  <2> QED BY <1>1, <2>5
<1> QED BY <1>3 DEF kSubset

\* Newest takes everything or, of too many rows, as many as it may.
LEMMA NewestRows ==
    ASSUME NEW F, IsFiniteSet(F), Dated(F), NEW k \in Nat
    PROVE  /\ Newest(F, k) \subseteq F /\ IsFiniteSet(Newest(F, k))
           /\ Cardinality(F) <= k => Newest(F, k) = F
           /\ Cardinality(F) > k => Cardinality(Newest(F, k)) = k
<1>1. Cardinality(F) \in Nat
  BY FS_CardinalityType
<1>2. CASE Cardinality(F) <= k
  BY <1>1, <1>2 DEF Newest
<1>3. CASE Cardinality(F) > k
  <2>1. \E top \in kSubset(k, F) : \A r \in top, q \in F \ top : NoNewer(r, q)
    BY <1>1, <1>3, NewestExists
  <2>2. Newest(F, k) \in kSubset(k, F)
    BY <1>1, <1>3, <2>1 DEF Newest
  <2> QED BY <1>1, <1>3, <2>2, FS_Subset DEF kSubset
<1> QED BY <1>1, <1>2, <1>3

\* The latest version is that of a stored snapshot.
LEMMA LatestStored ==
    ASSUME NEW rows, IsFiniteSet(rows), NEW asOf, \A r \in rows : r.version \in Nat \ {0}
    PROVE  /\ LatestVersion(rows, asOf) \in Nat
           /\ SnapshotsAt(rows, asOf) # {} =>
                \E r \in SnapshotsAt(rows, asOf) : r.version = LatestVersion(rows, asOf)
<1> DEFINE F == SnapshotsAt(rows, asOf)
           Above(x) == {q \in F : q.version > x.version}
           T == {Above(x) : x \in F}
<1> CASE F # {}
  <2>1. IsFiniteSet(F) /\ F \subseteq rows
    BY FS_Subset DEF SnapshotsAt
  <2>2. PICK least \in T : \A y \in T : y \subseteq least => y = least
    <3>1. T \subseteq SUBSET F /\ T # {}
      OBVIOUS
    <3> HIDE DEF T, F
    <3> QED BY <2>1, <3>1, SmallestMember
  <2>3. PICK m \in F : least = Above(m)
    OBVIOUS
  <2>4. \A r \in F : m.version >= r.version
    <3> SUFFICES ASSUME NEW r \in F, r.version > m.version PROVE FALSE
        BY <2>1
    <3>1. Above(r) \subseteq Above(m) /\ r \in Above(m) /\ r \notin Above(r)
      BY <2>1
    <3> QED BY <2>2, <2>3, <3>1
  <2> DEFINE V == {r.version : r \in F}
  <2>5. LatestVersion(rows, asOf) = Max(V)
    BY DEF LatestVersion
  <2>6. m.version \in V /\ \A y \in V : m.version >= y
    BY <2>4
  <2> HIDE DEF V
  <2>7. Max(V) \in V
    BY <2>6 DEF Max
  <2> QED BY <2>1, <2>5, <2>7 DEF V
<1> CASE F = {}
  BY DEF LatestVersion
<1> QED OBVIOUS

(***************************************************************************)
(* The versions of the snapshots at one cutoff.                            *)
(*                                                                         *)
(* A version is built under its lock, by a command that found every        *)
(* earlier version committed; so no earlier version can appear while it    *)
(* selects, and it sees every row that they were made of.                  *)
(***************************************************************************)
Committed(d, asOf, v) == \E p \in d["data_snapshots"] : p.asOf = asOf /\ p.version = v

SnapshotFields == {"q", "latest", "version", "locks", "replay", "todo", "items", "warnings"}

\* An earlier version of what a command builds.
Precedes(r, w) ==
    /\ r.asOf = w.q.asOf /\ r.version < w.version /\ r.checksum # <<>>
    /\ r.checksum[2] = w.q.preference /\ r.checksum[4] = w.q.categories

Truncated(w) == \E x \in w.warnings : x[1] = "TRUNCATED_CATEGORY"

\* An item is selected again, or gave way to a preferred provider.
Retained(i, w) ==
    \/ i \in w.items
    \/ \E k \in w.items : /\ k.category = i.category
                          /\ ComesBefore(w.q.preference, k.provider, i.provider)

\* The selection so far: what it holds was stored, and of every earlier
\* version it has what belongs to the categories that it is done with.
Selection(d, w) ==
    /\ \A i \in w.items : ValidItem(d, i, w.q.asOf, ToSet(w.q.categories), w.q.preference)
    /\ \A r \in d["data_snapshots"] : Precedes(r, w) =>
          \A i \in r.items : i.category \in ToSet(w.todo) \/ Truncated(w) \/ Retained(i, w)

\* The version is locked, and is stored or still free.
Allocated(d, w) ==
    /\ w.version \in w.locks
    /\ \A r \in w.replay : /\ r \in d["data_snapshots"]
                           /\ r.asOf = w.q.asOf /\ r.version = w.version
    /\ w.replay = {} => ~Committed(d, w.q.asOf, w.version)

Requested(d, w) ==
    /\ DOMAIN w = SnapshotFields
    /\ w.q \in SnapshotRequests /\ ToSet(w.q.categories) \subseteq SnapshotCategories
    /\ w.latest \in Nat /\ w.version \in Nat \ {0}
    /\ \A v \in 1..(w.version - 1) : Committed(d, w.q.asOf, v)

\* What a snapshot command has locked, selected and written.
Building(d, x) ==
    x.cmd = "snapshot" =>
        /\ Requested(d, x.work)
        /\ x.pc = "acquire" =>
              /\ x.tx["data_snapshots"] = {}
              /\ x.work.todo = x.work.q.categories /\ x.work.items = {}
        /\ x.pc # "acquire" => Allocated(d, x.work) /\ Selection(d, x.work)
        /\ x.pc = "select" =>
              /\ x.tx["data_snapshots"] = {}
              /\ x.work.todo \in Seq(ToSet(x.work.q.categories))
        /\ x.pc = "sealed" =>
              /\ x.work.todo = <<>>
              /\ \/ x.work.replay = {} /\ x.tx["data_snapshots"] = {BuiltSnapshot(x.work)}
                 \/ /\ x.work.replay # {} /\ x.tx["data_snapshots"] = {}
                    /\ \A r \in x.work.replay : r.items = x.work.items
        /\ x.pc = "failed" =>
              x.work.replay = {} /\ x.tx["data_snapshots"] = {FailedSnapshot(x.work)}

LocksExclusive ==
    \A s, u \in Sessions :
        /\ s # u /\ sess[s].cmd = "snapshot" /\ sess[u].cmd = "snapshot"
        /\ sess[s].work.q.asOf = sess[u].work.q.asOf
        => sess[s].work.locks \cap sess[u].work.locks = {}

\* The rows of a transaction: none of them has a body, and a fact is one
\* that can come.
IngestedRows(tx, category) ==
    /\ ValidRows(tx, category)
    /\ category = "FINANCIAL_FACTS" => tx[RecordTables[category]] \subseteq FactRows
    /\ category = "FILING_METADATA" =>
          \A r \in tx[RecordTables[category]] : r.rec.status # "AVAILABLE"

VersionsInv ==
    /\ ValidEvidence(db) /\ LaterLosesNothing(db["data_snapshots"])
    /\ LocksExclusive
    /\ \A s \in Sessions : Building(db, sess[s])
    /\ \A s \in Sessions : \A category \in SnapshotCategories : IngestedRows(sess[s].tx, category)

LEMMA EvidenceTables ==
    \A c \in SnapshotCategories : RecordTables[c] \in Writes("ingest") /\ RecordTables[c] \in Tables
BY TablesAssumption DEF SnapshotCategories, DataCategories, RecordTables, Writes

LEMMA SnapshotTable == "data_snapshots" \in Tables /\ "data_snapshots" \in Writes("snapshot")
BY TablesAssumption DEF Writes

LEMMA ItemKept ==
    ASSUME NEW d, NEW e, \A t \in Tables : d[t] \subseteq e[t],
           NEW i, NEW asOf, NEW categories, NEW preference,
           ValidItem(d, i, asOf, categories, preference)
    PROVE  ValidItem(e, i, asOf, categories, preference)
BY EvidenceTables DEF ValidItem

\* Only an ingestion has rows of its own.
LEMMA NoRows ==
    ASSUME NEW x, SessionOK(x), x.cmd # "ingest", NEW category \in SnapshotCategories
    PROVE  IngestedRows(x.tx, category)
<1>1. x.tx[RecordTables[category]] = {}
  BY EvidenceTables, WritesDisjoint DEF SessionOK, Transaction
<1> QED BY <1>1, FS_EmptySet DEF IngestedRows, ValidRows

LEMMA RowsTogether ==
    ASSUME NEW d, NEW e, NEW f, NEW category, ValidRows(d, category), ValidRows(e, category),
           f[RecordTables[category]] = d[RecordTables[category]] \cup e[RecordTables[category]]
    PROVE  ValidRows(f, category)
BY FS_Union DEF ValidRows

LEMMA RowsSame ==
    ASSUME NEW d, NEW f, NEW category, ValidRows(d, category),
           f[RecordTables[category]] = d[RecordTables[category]]
    PROVE  /\ ValidRows(f, category)
           /\ IngestedRows(d, category) => IngestedRows(f, category)
BY DEF IngestedRows, ValidRows

\* Rows that are added leave the snapshots what they were.
LEMMA EvidenceGrows ==
    ASSUME SessionsOK, VersionsInv, NEW s \in Sessions, NEW c, Step(s, c),
           db'["data_snapshots"] = db["data_snapshots"]
    PROVE  /\ ValidEvidence(db') /\ LaterLosesNothing(db'["data_snapshots"])
           /\ \A x : Building(db, x) => Building(db', x)
<1>1. \A t \in Tables : db[t] \subseteq db'[t]
  BY StepKeepsSessions
<1>2. \A i, asOf, categories, preference :
          ValidItem(db, i, asOf, categories, preference) => ValidItem(db', i, asOf, categories, preference)
  BY <1>1, ItemKept
<1>3. \A x : Building(db, x) => Building(db', x)
  BY <1>2 DEF Building, Requested, Allocated, Selection, Committed
<1>4. \A r : ValidSnapshot(db, r) => ValidSnapshot(db', r)
  BY <1>2 DEF ValidSnapshot
<1>5. \A category \in SnapshotCategories : ValidRows(db', category)
  <2> TAKE category \in SnapshotCategories
  <2>1. ValidRows(db, category) /\ ValidRows(sess[s].tx, category)
    BY DEF VersionsInv, ValidEvidence, IngestedRows
  <2>2. \/ db'[RecordTables[category]] = db[RecordTables[category]]
        \/ db'[RecordTables[category]] = db[RecordTables[category]] \cup sess[s].tx[RecordTables[category]]
    BY EvidenceTables DEF Step
  <2> QED BY <2>1, <2>2, RowsTogether, RowsSame
<1> QED BY <1>3, <1>4, <1>5 DEF VersionsInv, ValidEvidence

\* A step of another command.
LEMMA VersionsForeign ==
    ASSUME SessionsOK, VersionsInv, NEW s \in Sessions, NEW c, Step(s, c), c # "snapshot",
           \A category \in SnapshotCategories : IngestedRows(sess'[s].tx, category)
    PROVE  VersionsInv'
<1>1. /\ \A u \in Sessions : sess[u].cmd = "snapshot" \/ sess'[u].cmd = "snapshot" => sess'[u] = sess[u]
      /\ db'["data_snapshots"] = db["data_snapshots"]
  BY StepForeign, SnapshotTable
<1>2. /\ ValidEvidence(db') /\ LaterLosesNothing(db'["data_snapshots"])
      /\ \A x : Building(db, x) => Building(db', x)
  BY <1>1, EvidenceGrows
<1>3. \A u \in Sessions : Building(db', sess'[u])
  <2> TAKE u \in Sessions
  <2>1. CASE sess'[u].cmd = "snapshot"
    BY <1>1, <1>2, <2>1 DEF VersionsInv
  <2> QED BY <2>1 DEF Building
<1>4. LocksExclusive'
  <2>1. LocksExclusive
    BY DEF VersionsInv
  <2> QED BY <1>1, <2>1 DEF LocksExclusive
<1>5. \A u \in Sessions : \A category \in SnapshotCategories : IngestedRows(sess'[u].tx, category)
  BY DEF Step, VersionsInv
<1> QED BY <1>2, <1>3, <1>4, <1>5 DEF VersionsInv

\* The rows of one answer.
LEMMA AnswerRows ==
    ASSUME NEW env, env.records \in Seq(ToSet(env.records)), env.retrieved \in Nat,
           \A i \in DOMAIN env.records :
              /\ env.records[i].date \in Nat
              /\ env.category = "FILING_METADATA" => env.records[i].status # "AVAILABLE",
           NEW run
    PROVE  /\ IsFiniteSet(RowsFrom(run, env))
           /\ \A r \in RowsFrom(run, env) :
                 /\ r.category = env.category /\ r.retrieved \in Nat /\ r.rec.date \in Nat
                 /\ env.category = "FILING_METADATA" => r.rec.status # "AVAILABLE"
<1>1. PICK st : st = Stored(env)
  OBVIOUS
<1>2. /\ st \in Seq(ToSet(env.records))
      /\ \A i \in DOMAIN st :
            /\ st[i].date \in Nat
            /\ env.category = "FILING_METADATA" => st[i].status # "AVAILABLE"
      /\ DOMAIN st = 1..Len(st) /\ Len(st) \in Nat
  <2>1. CASE Unusable(env)
    <3>1. st = <<>>
      BY <1>1, <2>1 DEF Stored
    <3> QED BY <3>1
  <2>2. CASE ~Unusable(env)
    <3>1. st = env.records
      BY <1>1, <2>2 DEF Stored
    <3> QED BY <3>1
  <2> QED BY <2>1, <2>2
<1> DEFINE row(i) == [category |-> env.category, provider |-> run.provider, run |-> run, n |-> i,
                      retrieved |-> env.retrieved, rec |-> st[i]]
           f == [i \in 1..Len(st) |-> row(i)]
<1>3. RowsFrom(run, env) = {row(i) : i \in 1..Len(st)}
  BY <1>1, <1>2 DEF RowsFrom
<1>4. f \in Surjection(1..Len(st), RowsFrom(run, env))
  BY <1>3 DEF Surjection
<1>5. IsFiniteSet(RowsFrom(run, env))
  <2>1. Len(st) \in Int
    BY <1>2
  <2>2. IsFiniteSet(1..Len(st))
    BY <2>1, FS_Interval
  <2> HIDE DEF f
  <2> QED BY <1>4, <2>2, FS_Surjection
<1> QED BY <1>2, <1>3, <1>5

\* A fact of an answer is a fact that can come.
LEMMA ComingRows ==
    ASSUME NEW req \in Requests, NEW env \in Adapters[req.provider].answers[req.category],
           NEW r \in RowsFrom(IdempotencyKey(req), env), r.category = "FINANCIAL_FACTS"
    PROVE  r \in FactRows
<1>1. r \in AnswerRowsOf(req)
  BY DEF AnswerRowsOf
<1> QED BY <1>1 DEF FactRows

\* What an ingestion writes of an answer.
LEMMA PersistRows ==
    ASSUME SessionsOK, NEW s \in Sessions, sess[s].cmd = "ingest", NEW uri,
           NEW req \in Requests, NEW env \in Adapters[req.provider].answers[req.category],
           env.records \in Seq(ToSet(env.records)), env.retrieved \in Nat,
           \A i \in DOMAIN env.records :
              /\ env.records[i].date \in Nat
              /\ env.category = "FILING_METADATA" => env.records[i].status # "AVAILABLE",
           Unusable(env) \/ ValidRecords(env),
           NEW category \in SnapshotCategories, IngestedRows(sess[s].tx, category)
    PROVE  IngestedRows(PersistAttempt(s, req, env, uri), category)
<1> DEFINE base == [sess[s].tx EXCEPT
                      !["ingestion_runs"] = {CompletedRun(req, env)},
                      !["provider_request_logs"] = @ \cup {RequestLogOf(IdempotencyKey(req), env)},
                      !["raw_payloads"] = @ \cup {PayloadOf(IdempotencyKey(req), env, uri)}]
           table == RecordTables[category]
<1>1. Transaction(sess[s].tx, "ingest")
  BY DEF SessionsOK, SessionOK
<1>2. /\ table \in {"daily_price_bars", "corporate_actions", "provider_financial_facts", "source_documents"}
      /\ table \in Tables
  BY EvidenceTables DEF SnapshotCategories, DataCategories, RecordTables
<1>3. DOMAIN base = Tables /\ base[table] = sess[s].tx[table]
  BY <1>1, <1>2 DEF Transaction
<1>4. IngestedRows(base, category)
  BY <1>3, RowsSame DEF IngestedRows
<1>5. CASE Stored(env) = <<>>
  BY <1>4, <1>5 DEF PersistAttempt
<1>6. CASE Stored(env) # <<>>
  <2>1. ~Unusable(env) /\ env.records # <<>>
    BY <1>6 DEF Stored
  <2>2. 1 \in DOMAIN env.records
    BY <2>1
  <2>3. env.category \in SnapshotCategories
    BY <2>1, <2>2 DEF ValidRecords
  <2> DEFINE rows == RowsFrom(IdempotencyKey(req), env)
  <2>4. PersistAttempt(s, req, env, uri) = [base EXCEPT ![RecordTables[env.category]] = @ \cup rows]
    BY <1>6 DEF PersistAttempt
  <2>5. /\ IsFiniteSet(rows)
        /\ \A r \in rows :
              /\ r.category = env.category /\ r.retrieved \in Nat /\ r.rec.date \in Nat
              /\ env.category = "FILING_METADATA" => r.rec.status # "AVAILABLE"
    BY AnswerRows
  <2>8. env.category = "FINANCIAL_FACTS" => rows \subseteq FactRows
    BY <2>5, ComingRows
  <2> HIDE DEF base, rows
  <2>6. CASE category = env.category
    <3>1. PersistAttempt(s, req, env, uri)[table] = base[table] \cup rows
      BY <1>2, <1>3, <2>4, <2>6
    <3>2. /\ IsFiniteSet(base[table])
          /\ \A r \in base[table] :
                /\ r.category = category /\ r.retrieved \in Nat /\ r.rec.date \in Nat
                /\ category = "FILING_METADATA" => r.rec.status # "AVAILABLE"
                /\ category = "FINANCIAL_FACTS" => r \in FactRows
      BY <1>4 DEF IngestedRows, ValidRows
    <3>3. IsFiniteSet(base[table] \cup rows)
      BY <2>5, <3>2, FS_Union
    <3> QED BY <2>5, <2>6, <2>8, <3>1, <3>2, <3>3 DEF IngestedRows, ValidRows
  <2>7. CASE category # env.category
    <3>1. table # RecordTables[env.category]
      BY <2>3, <2>7 DEF SnapshotCategories, DataCategories, RecordTables
    <3>2. PersistAttempt(s, req, env, uri)[table] = base[table]
      BY <1>2, <1>3, <2>4, <3>1
    <3> QED BY <1>4, <3>2, RowsSame DEF IngestedRows
  <2> QED BY <2>6, <2>7
<1> QED BY <1>5, <1>6

LEMMA EmptyRows == \A category \in SnapshotCategories : IngestedRows(EmptyTx, category)
BY NoRows, IdleSessionOK

\* Every step of an ingestion.
LEMMA IngestRows ==
    ASSUME SessionsOK, Asked, NEW s \in Sessions, IngestAction(s), NEW category \in SnapshotCategories,
           IngestedRows(sess[s].tx, category)
    PROVE  IngestedRows(sess'[s].tx, category)
<1> DEFINE table == RecordTables[category]
<1>1. /\ table \in {"daily_price_bars", "corporate_actions", "provider_financial_facts", "source_documents"}
      /\ table \in Tables
  BY EvidenceTables DEF SnapshotCategories, DataCategories, RecordTables
<1>2. CASE \E req \in Requests : IngestStart(s, req)
  BY <1>2, IngestStartStep, EmptyRows
<1>3. CASE IngestBootstrap(s)
  <2>1. /\ At(s, "bootstrap")
        /\ \/ Rollback(s)
           \/ \E new, mapped :
                 Goto(s, "run", [Insert(s, "data_providers", new) EXCEPT
                                   !["provider_instrument_mappings"] = mapped], sess[s].work)
    BY <1>3 DEF IngestBootstrap
  <2>2. sess[s].cmd = "ingest" /\ Transaction(sess[s].tx, "ingest")
    BY <2>1, PhaseCommand DEF Phase
  <2>3. CASE Rollback(s)
    BY <2>2, <2>3, RollbackStep, EmptyRows, IdleSessionOK
  <2>4. ASSUME NEW new, NEW mapped,
               Goto(s, "run", [Insert(s, "data_providers", new) EXCEPT
                                 !["provider_instrument_mappings"] = mapped], sess[s].work)
        PROVE  IngestedRows(sess'[s].tx, category)
    <3>1. sess'[s].tx = [Insert(s, "data_providers", new) EXCEPT
                           !["provider_instrument_mappings"] = mapped]
      BY <2>4 DEF Goto, SessionsOK, SessionOK
    <3>2. /\ DOMAIN Insert(s, "data_providers", new) = Tables
          /\ Insert(s, "data_providers", new)[table] = sess[s].tx[table]
      BY <1>1, <2>2 DEF Insert, Transaction
    <3>3. sess'[s].tx[table] = sess[s].tx[table]
      BY <1>1, <3>1, <3>2
    <3> QED BY <3>3, RowsSame DEF IngestedRows
  <2> QED BY <2>1, <2>3, <2>4
<1>4. CASE IngestRun(s)
  <2>1. /\ At(s, "run")
        /\ \E pc, work : \/ Goto(s, pc, sess[s].tx, work)
                         \/ \E run : Goto(s, pc, Insert(s, "ingestion_runs", {run}), work)
    BY <1>4, Zenon DEF IngestRun
  <2>2. sess[s].cmd = "ingest" /\ Transaction(sess[s].tx, "ingest")
    BY <2>1, PhaseCommand DEF Phase
  <2>3. \A pc, tx, work : Goto(s, pc, tx, work) => sess'[s].tx = tx
    BY DEF Goto, SessionsOK, SessionOK
  <2>4. \A run : Insert(s, "ingestion_runs", {run})[table] = sess[s].tx[table]
    BY <1>1, <2>2 DEF Insert, Transaction
  <2>5. sess'[s].tx[table] = sess[s].tx[table]
    BY <2>1, <2>3, <2>4
  <2> QED BY <2>5, RowsSame DEF IngestedRows
<1>5. CASE IngestPut(s)
  BY <1>5, IngestPutStep, EmptyRows, IdleSessionOK DEF dataVars
<1>6. CASE IngestPersist(s)
  <2>1. sess[s].cmd = "ingest" /\ sess[s].pc = "put"
    BY <1>6, IngestPersistStep
  <2>2. PICK req, env : /\ req = sess[s].work.req /\ env = sess[s].work.env
                        /\ req \in Requests
                        /\ env \in Adapters[req.provider].answers[req.category]
    BY <2>1, Zenon DEF Asked
  <2>3. /\ env.records \in Seq(ToSet(env.records)) /\ env.retrieved \in Nat
        /\ \A i \in DOMAIN env.records :
              /\ env.records[i].date \in Nat
              /\ env.category = "FILING_METADATA" => env.records[i].status # "AVAILABLE"
    BY <2>2, AnswersAssumption, Zenon
  <2>4. \/ Rollback(s)
        \/ Goto(s, "undo", sess[s].tx, sess[s].work)
        \/ /\ Unusable(env) \/ ValidRecords(env)
           /\ \E uri, work : Goto(s, "finish", PersistAttempt(s, req, env, uri), work)
    BY <1>6, <2>2 DEF IngestPersist
  <2>5. \A pc, tx, work : Goto(s, pc, tx, work) => sess'[s].tx = tx
    BY DEF Goto, SessionsOK, SessionOK
  <2>6. CASE Rollback(s)
    BY <2>1, <2>6, RollbackStep, EmptyRows, IdleSessionOK
  <2>7. CASE Goto(s, "undo", sess[s].tx, sess[s].work)
    <3>1. PICK tx, work : tx = sess[s].tx /\ Goto(s, "undo", tx, work)
      BY <2>7
    <3>2. sess'[s].tx = tx
      BY <2>5, <3>1
    <3> QED BY <3>1, <3>2
  <2>8. CASE /\ Unusable(env) \/ ValidRecords(env)
             /\ \E uri, work : Goto(s, "finish", PersistAttempt(s, req, env, uri), work)
    <3>1. PICK uri, work : Goto(s, "finish", PersistAttempt(s, req, env, uri), work)
      BY <2>8
    <3>2. sess'[s].tx = PersistAttempt(s, req, env, uri)
      BY <2>5, <3>1, Zenon
    <3> QED BY <2>1, <2>2, <2>3, <2>8, <3>2, PersistRows, Zenon
  <2> QED BY <2>4, <2>6, <2>7, <2>8, Zenon
<1>7. CASE IngestUndone(s) \/ IngestFinish(s)
  BY <1>7, IngestUndoneStep, IngestFinishStep, EmptyRows, IdleSessionOK
<1> QED BY <1>2, <1>3, <1>4, <1>5, <1>6, <1>7 DEF IngestAction

(***************************************************************************)
(* Selection.                                                              *)
(***************************************************************************)

\* The rows that a category may take from some providers.
Pool(q, category, providers) ==
    {r \in db[RecordTables[category]] :
        /\ r.provider \in providers /\ r.retrieved <= q.asOf /\ PublishedBy(r.rec, q.asOf)
        /\ category = "DAILY_PRICES" => r.rec.date <= q.asOf}

LEMMA PoolRows ==
    ASSUME NEW q, NEW category \in SnapshotCategories, NEW providers, ValidRows(db, category)
    PROVE  /\ IsFiniteSet(Pool(q, category, providers)) /\ Dated(Pool(q, category, providers))
           /\ \A r \in Pool(q, category, providers) : r.category = category
BY FS_Subset DEF Pool, Dated, ValidRows

\* The query and the filter of a category find its pool, but for the limit.
LEMMA EligibleIsPool ==
    ASSUME SessionsOK, NEW s \in Sessions, sess[s].cmd = "snapshot", NEW q,
           NEW category \in SnapshotCategories, NEW providers, ValidRows(db, category)
    PROVE  EligibleRows(s, q, category, providers) = Newest(Pool(q, category, providers), ItemLimit + 1)
<1>1. PICK pool : pool = Pool(q, category, providers)
  OBVIOUS
<1>2. Visible(s, RecordTables[category]) = db[RecordTables[category]]
  <2>1. sess[s].tx[RecordTables[category]] = {}
    BY EvidenceTables, WritesDisjoint DEF SessionsOK, SessionOK, Transaction
  <2> QED BY <2>1 DEF Visible
<1>3. QueryCategory(s, q, category, providers) = Newest(pool, ItemLimit + 1)
  <2>1. CASE category = "DAILY_PRICES"
    <3>1. {r \in RowsOf(s, "DAILY_PRICES", q.asOf, providers) : r.rec.date <= q.asOf} = pool
      BY <1>1, <1>2, <2>1 DEF RowsOf, Pool
    <3>2. QueryCategory(s, q, category, providers)
            = ListDailyHistory(s, q.asOf, q.asOf, ItemLimit + 1, providers)
      BY <2>1, Zenon DEF QueryCategory
    <3> QED BY <3>1, <3>2 DEF ListDailyHistory
  <2>2. CASE category # "DAILY_PRICES"
    <3>1. RowsOf(s, category, q.asOf, providers) = pool
      BY <1>1, <1>2, <2>2 DEF RowsOf, Pool
    <3>2. CASE category = "CORPORATE_ACTIONS"
      <4>1. QueryCategory(s, q, category, providers)
              = ListCorporateActions(s, q.asOf, ItemLimit + 1, providers)
        BY <3>2, Zenon DEF QueryCategory
      <4> QED BY <3>1, <3>2, <4>1 DEF ListCorporateActions
    <3>3. CASE category = "FINANCIAL_FACTS"
      <4>1. QueryCategory(s, q, category, providers)
              = ListFinancialFacts(s, q.asOf, ItemLimit + 1, providers)
        BY <3>3, Zenon DEF QueryCategory
      <4> QED BY <3>1, <3>3, <4>1 DEF ListFinancialFacts
    <3>4. CASE category = "FILING_METADATA"
      <4>1. QueryCategory(s, q, category, providers)
              = ListSourceDocuments(s, q.asOf, ItemLimit + 1, providers)
        BY <3>4, Zenon DEF QueryCategory
      <4> QED BY <3>1, <3>4, <4>1 DEF ListSourceDocuments
    <3> QED BY <2>2, <3>2, <3>3, <3>4 DEF SnapshotCategories, DataCategories
  <2> QED BY <2>1, <2>2
<1>4. Newest(pool, ItemLimit + 1) \subseteq pool
  BY <1>1, PoolRows, NewestRows, DataAssumption
<1>5. \A r \in pool : Eligible(r, category, q.asOf)
  BY <1>1 DEF Pool, Eligible
<1> QED BY <1>1, <1>3, <1>4, <1>5 DEF EligibleRows

\* The candidates are the newest of one pool: that of every provider, or of
\* the first preferred one that has rows.
LEMMA CandidatesOfPool ==
    ASSUME SessionsOK, NEW s \in Sessions, sess[s].cmd = "snapshot", NEW q,
           NEW category \in SnapshotCategories, ValidRows(db, category),
           q.preference \in Seq(ToSet(q.preference))
    PROVE  \/ /\ q.preference = <<>>
              /\ CategoryCandidates(s, q, category)
                   = Newest(Pool(q, category, DOMAIN Adapters), ItemLimit + 1)
           \/ /\ q.preference # <<>> /\ CategoryCandidates(s, q, category) = {}
              /\ \A i \in DOMAIN q.preference : Pool(q, category, {q.preference[i]}) = {}
           \/ /\ q.preference # <<>>
              /\ \E n \in DOMAIN q.preference :
                    /\ CategoryCandidates(s, q, category)
                         = Newest(Pool(q, category, {q.preference[n]}), ItemLimit + 1)
                    /\ Pool(q, category, {q.preference[n]}) # {}
                    /\ \A i \in DOMAIN q.preference : i < n => Pool(q, category, {q.preference[i]}) = {}
<1> DEFINE of(providers) == Pool(q, category, providers)
           preferred == {i \in DOMAIN q.preference : EligibleRows(s, q, category, {q.preference[i]}) # {}}
<1>1. \A providers : EligibleRows(s, q, category, providers) = Newest(of(providers), ItemLimit + 1)
  BY EligibleIsPool
<1>2. \A providers : Newest(of(providers), ItemLimit + 1) = {} <=> of(providers) = {}
  <2> TAKE providers
  <2>1. PICK pool : pool = of(providers)
    OBVIOUS
  <2>2. IsFiniteSet(pool) /\ Dated(pool) /\ ItemLimit + 1 \in Nat \ {0} /\ Cardinality(pool) \in Nat
    <3>1. IsFiniteSet(pool) /\ Dated(pool)
      BY <2>1, PoolRows
    <3>2. ItemLimit + 1 \in Nat \ {0}
      <4>1. ItemLimit \in Nat
        BY DataAssumption
      <4> QED BY <4>1
    <3> QED BY <3>1, <3>2, FS_CardinalityType
  <2>3. /\ Newest(pool, ItemLimit + 1) \subseteq pool
        /\ Cardinality(pool) <= ItemLimit + 1 => Newest(pool, ItemLimit + 1) = pool
        /\ Cardinality(pool) > ItemLimit + 1 => Cardinality(Newest(pool, ItemLimit + 1)) = ItemLimit + 1
    BY <2>2, NewestRows
  <2>4. Newest(pool, ItemLimit + 1) = {} => pool = {}
    <3> SUFFICES ASSUME Newest(pool, ItemLimit + 1) = {} PROVE pool = {}
        OBVIOUS
    <3>1. Cardinality(Newest(pool, ItemLimit + 1)) = 0
      BY FS_EmptySet
    <3> QED BY <2>2, <2>3, <3>1
  <2> QED BY <2>1, <2>3, <2>4
<1>3. CASE q.preference = <<>>
  BY <1>1, <1>3 DEF CategoryCandidates
<1>4. CASE q.preference # <<>> /\ preferred = {}
  BY <1>1, <1>2, <1>4 DEF CategoryCandidates
<1>5. CASE q.preference # <<>> /\ preferred # {}
  <2>1. DOMAIN q.preference = 1..Len(q.preference) /\ Len(q.preference) \in Nat
    OBVIOUS
  <2>2. PICK n \in preferred : \A i \in preferred : n <= i
    <3>1. IsFiniteSet(DOMAIN q.preference)
      BY <2>1, FS_Interval
    <3>2. /\ preferred \in SUBSET DOMAIN q.preference /\ preferred # {}
          /\ \A i \in preferred : i \in Int
      <4>1. \A i \in DOMAIN q.preference : i \in Int
        BY <2>1
      <4> QED BY <1>5, <4>1
    <3> HIDE DEF preferred
    <3>3. IsFiniteSet(preferred)
      BY <3>1, <3>2, FS_Subset
    <3> QED BY <3>2, <3>3, LeastNumber
  <2>3. Min(preferred) \in preferred /\ \A i \in preferred : Min(preferred) <= i
    <3> HIDE DEF preferred
    <3> QED BY <2>2 DEF Min
  <2>4. CategoryCandidates(s, q, category) = EligibleRows(s, q, category, {q.preference[Min(preferred)]})
    BY <1>5 DEF CategoryCandidates
  <2>5. \A i \in DOMAIN q.preference : i < Min(preferred) => i \notin preferred
    <3>1. \A i \in DOMAIN q.preference : i \in Int
      BY <2>1
    <3>2. Min(preferred) \in Int
      BY <2>3, <3>1
    <3> HIDE DEF preferred
    <3> QED BY <2>3, <3>1, <3>2
  <2>6. PICK m : m = Min(preferred)
    OBVIOUS
  <2>7. m \in DOMAIN q.preference /\ EligibleRows(s, q, category, {q.preference[m]}) # {}
    BY <2>3, <2>6
  <2>8. \A i \in DOMAIN q.preference :
            i < m => EligibleRows(s, q, category, {q.preference[i]}) = {}
    BY <2>5, <2>6
  <2>9. CategoryCandidates(s, q, category) = EligibleRows(s, q, category, {q.preference[m]})
    BY <2>4, <2>6
  <2> HIDE DEF preferred
  <2>10. Pool(q, category, {q.preference[m]}) # {}
    BY <1>1, <1>2, <2>7
  <2>11. \A i \in DOMAIN q.preference : i < m => Pool(q, category, {q.preference[i]}) = {}
    BY <1>1, <1>2, <2>8
  <2>12. CategoryCandidates(s, q, category)
            = Newest(Pool(q, category, {q.preference[m]}), ItemLimit + 1)
    BY <1>1, <2>9
  <2> QED BY <1>5, <2>7, <2>10, <2>11, <2>12
<1> QED BY <1>3, <1>4, <1>5

\* Without truncation the whole pool is kept.
LEMMA PoolKept ==
    ASSUME NEW pool, IsFiniteSet(pool), Dated(pool), NEW eligible, NEW kept,
           eligible = Newest(pool, ItemLimit + 1), kept = Newest(eligible, ItemLimit)
    PROVE  kept \subseteq pool /\ (~(Cardinality(eligible) > ItemLimit) => kept = pool)
<1>1. ItemLimit \in Nat /\ ItemLimit + 1 \in Nat
  <2>1. ItemLimit \in Nat
    BY DataAssumption
  <2> QED BY <2>1
<1>2. /\ eligible \subseteq pool /\ IsFiniteSet(eligible)
      /\ Cardinality(pool) <= ItemLimit + 1 => eligible = pool
      /\ Cardinality(pool) > ItemLimit + 1 => Cardinality(eligible) = ItemLimit + 1
  BY <1>1, NewestRows
<1>3. Dated(eligible) /\ Cardinality(eligible) \in Nat /\ Cardinality(pool) \in Nat
  BY <1>2, FS_CardinalityType DEF Dated
<1>4. /\ kept \subseteq eligible
      /\ Cardinality(eligible) <= ItemLimit => kept = eligible
  BY <1>1, <1>2, <1>3, NewestRows
<1> QED BY <1>1, <1>2, <1>3, <1>4

\* What one category contributes is stored, and it is all that was stored for
\* it unless it was truncated or a preferred provider has rows.
LEMMA CategorySelected ==
    ASSUME SessionsOK, NEW s \in Sessions, sess[s].cmd = "snapshot", NEW q,
           q.preference \in Seq(ToSet(q.preference)),
           NEW category \in SnapshotCategories, ValidRows(db, category),
           NEW categories, category \in categories,
           NEW eligible, eligible = CategoryCandidates(s, q, category),
           NEW kept, kept = Newest(eligible, ItemLimit)
    PROVE  /\ \A i \in kept : /\ ValidItem(db, i, q.asOf, categories, q.preference)
                              /\ i.category = category
           /\ \A i : /\ ValidItem(db, i, q.asOf, categories, q.preference) /\ i.category = category
                     /\ ~(Cardinality(eligible) > ItemLimit)
                     => \/ i \in kept
                        \/ \E k \in kept : /\ k.category = category
                                           /\ ComesBefore(q.preference, k.provider, i.provider)
<1>1. \A providers :
          /\ IsFiniteSet(Pool(q, category, providers)) /\ Dated(Pool(q, category, providers))
          /\ \A r \in Pool(q, category, providers) : r.category = category
  BY PoolRows
<1>2. \A providers : eligible = Newest(Pool(q, category, providers), ItemLimit + 1) =>
          /\ kept \subseteq Pool(q, category, providers)
          /\ ~(Cardinality(eligible) > ItemLimit) => kept = Pool(q, category, providers)
  BY <1>1, PoolKept
<1>3. \A providers : \A i \in Pool(q, category, providers) :
          providers \subseteq (IF q.preference = <<>> THEN DOMAIN Adapters ELSE ToSet(q.preference)) =>
              ValidItem(db, i, q.asOf, categories, q.preference) /\ i.category = category
  BY <1>1 DEF Pool, ValidItem, PublishedBy
<1>4. \A i, providers :
          /\ ValidItem(db, i, q.asOf, categories, q.preference) /\ i.category = category
          /\ i.provider \in providers
          => i \in Pool(q, category, providers)
  BY DEF Pool, ValidItem, PublishedBy
<1>5. CASE /\ q.preference = <<>>
           /\ eligible = Newest(Pool(q, category, DOMAIN Adapters), ItemLimit + 1)
  <2>1. \A i : ValidItem(db, i, q.asOf, categories, q.preference) => i.provider \in DOMAIN Adapters
    BY <1>5 DEF ValidItem
  <2>2. \A i \in kept : ValidItem(db, i, q.asOf, categories, q.preference) /\ i.category = category
    BY <1>2, <1>3, <1>5
  <2> QED BY <1>2, <1>4, <1>5, <2>1, <2>2
<1>6. CASE /\ q.preference # <<>> /\ eligible = {}
           /\ \A n \in DOMAIN q.preference : Pool(q, category, {q.preference[n]}) = {}
  <2>1. kept = {}
    <3>1. ItemLimit \in Nat
      BY DataAssumption
    <3> QED BY <1>6, <3>1, FS_EmptySet DEF Newest
  <2>2. \A i : ~(ValidItem(db, i, q.asOf, categories, q.preference) /\ i.category = category)
    <3> SUFFICES ASSUME NEW i, ValidItem(db, i, q.asOf, categories, q.preference), i.category = category
                 PROVE  FALSE
        OBVIOUS
    <3>1. i.provider \in ToSet(q.preference)
      BY <1>6 DEF ValidItem
    <3>2. PICK n \in DOMAIN q.preference : i.provider = q.preference[n]
      BY <3>1 DEF ToSet
    <3>3. i \in Pool(q, category, {q.preference[n]})
      BY <1>4, <3>2
    <3> QED BY <1>6, <3>3
  <2> QED BY <2>1, <2>2
<1>7. ASSUME q.preference # <<>>, NEW n \in DOMAIN q.preference,
             eligible = Newest(Pool(q, category, {q.preference[n]}), ItemLimit + 1),
             Pool(q, category, {q.preference[n]}) # {},
             \A m \in DOMAIN q.preference : m < n => Pool(q, category, {q.preference[m]}) = {}
      PROVE  /\ \A i \in kept : /\ ValidItem(db, i, q.asOf, categories, q.preference)
                                /\ i.category = category
             /\ \A i : /\ ValidItem(db, i, q.asOf, categories, q.preference) /\ i.category = category
                       /\ ~(Cardinality(eligible) > ItemLimit)
                       => \/ i \in kept
                          \/ \E k \in kept : /\ k.category = category
                                             /\ ComesBefore(q.preference, k.provider, i.provider)
  <2>1. PICK pool : pool = Pool(q, category, {q.preference[n]})
    OBVIOUS
  <2>2. kept \subseteq pool /\ (~(Cardinality(eligible) > ItemLimit) => kept = pool)
    BY <1>2, <1>7, <2>1
  <2>3. \A i \in pool : /\ ValidItem(db, i, q.asOf, categories, q.preference) /\ i.category = category
                        /\ i.provider = q.preference[n]
    <3>1. {q.preference[n]} \subseteq ToSet(q.preference)
      BY DEF ToSet
    <3>2. \A i \in pool : i.provider = q.preference[n]
      BY <2>1 DEF Pool
    <3> QED BY <1>3, <1>7, <2>1, <3>1, <3>2
  <2>4. ASSUME NEW i, ValidItem(db, i, q.asOf, categories, q.preference), i.category = category,
               ~(Cardinality(eligible) > ItemLimit), i \notin kept
        PROVE  \E k \in kept : k.category = category /\ ComesBefore(q.preference, k.provider, i.provider)
    <3>1. i.provider \in ToSet(q.preference)
      BY <1>7, <2>4 DEF ValidItem
    <3>2. PICK m \in DOMAIN q.preference : i.provider = q.preference[m]
      BY <3>1 DEF ToSet
    <3>3. i \in Pool(q, category, {q.preference[m]})
      BY <1>4, <2>4, <3>2
    <3>4. m # n
      BY <2>1, <2>2, <2>4, <3>3
    <3>5. n < m
      <4>1. n \in Int /\ m \in Int
        OBVIOUS
      <4>2. ~(m < n)
        BY <1>7, <3>3
      <4> QED BY <3>4, <4>1, <4>2
    <3>6. PICK k \in pool : TRUE
      BY <1>7, <2>1
    <3>7. k \in kept /\ k.category = category /\ k.provider = q.preference[n]
      BY <2>2, <2>3, <2>4, <3>6
    <3>8. ComesBefore(q.preference, k.provider, i.provider)
      BY <3>2, <3>5, <3>7 DEF ComesBefore
    <3> QED BY <3>7, <3>8
  <2> QED BY <2>2, <2>3, <2>4
<1>8. \/ /\ q.preference = <<>>
         /\ eligible = Newest(Pool(q, category, DOMAIN Adapters), ItemLimit + 1)
      \/ /\ q.preference # <<>> /\ eligible = {}
         /\ \A n \in DOMAIN q.preference : Pool(q, category, {q.preference[n]}) = {}
      \/ /\ q.preference # <<>>
         /\ \E n \in DOMAIN q.preference :
               /\ eligible = Newest(Pool(q, category, {q.preference[n]}), ItemLimit + 1)
               /\ Pool(q, category, {q.preference[n]}) # {}
               /\ \A m \in DOMAIN q.preference : m < n => Pool(q, category, {q.preference[m]}) = {}
  BY CandidatesOfPool
<1> QED BY <1>5, <1>6, <1>7, <1>8

(***************************************************************************)
(* The steps of a snapshot command.                                        *)
(***************************************************************************)

\* The locks of one session are its own.
LocksApart(s, x) ==
    x.cmd = "snapshot" =>
        \A u \in Sessions :
            u # s /\ sess[u].cmd = "snapshot" /\ sess[u].work.q.asOf = x.work.q.asOf =>
                x.work.locks \cap sess[u].work.locks = {}

LEMMA BuildingStep ==
    ASSUME SessionsOK, VersionsInv, NEW s \in Sessions, Step(s, "snapshot"), db' = db,
           Building(db, sess'[s]), LocksApart(s, sess'[s])
    PROVE  VersionsInv'
<1>1. \A u \in Sessions : u # s => sess'[u] = sess[u]
  BY DEF Step
<1>2. \A u \in Sessions : Building(db', sess'[u])
  BY <1>1 DEF VersionsInv
<1>3. LocksExclusive'
  <2> SUFFICES ASSUME NEW a \in Sessions, NEW b \in Sessions, a # b,
                      sess'[a].cmd = "snapshot", sess'[b].cmd = "snapshot",
                      sess'[a].work.q.asOf = sess'[b].work.q.asOf
               PROVE  sess'[a].work.locks \cap sess'[b].work.locks = {}
      BY DEF LocksExclusive
  <2>1. CASE a = s
    BY <1>1, <2>1 DEF LocksApart
  <2>2. CASE b = s
    BY <1>1, <2>2 DEF LocksApart
  <2>3. CASE a # s /\ b # s
    BY <1>1, <2>3 DEF VersionsInv, LocksExclusive
  <2> QED BY <2>1, <2>2, <2>3
<1>4. \A u \in Sessions : \A category \in SnapshotCategories : IngestedRows(sess'[u].tx, category)
  <2> TAKE u \in Sessions
  <2> TAKE category \in SnapshotCategories
  <2>1. CASE u = s
    <3>1. SessionOK(sess'[s]) /\ sess'[s].cmd # "ingest"
      BY DEF Step
    <3> QED BY <2>1, <3>1, NoRows
  <2>2. CASE u # s
    BY <1>1, <2>2 DEF VersionsInv
  <2> QED BY <2>1, <2>2
<1> QED BY <1>2, <1>3, <1>4 DEF VersionsInv

LEMMA AtLeastOne ==
    ASSUME NEW n \in Nat
    PROVE  Max({n, 1}) = IF n = 0 THEN 1 ELSE n
<1>1. \E x \in {n, 1} : \A y \in {n, 1} : x >= y
  OBVIOUS
<1>2. Max({n, 1}) \in {n, 1} /\ \A y \in {n, 1} : Max({n, 1}) >= y
  BY <1>1 DEF Max
<1> QED BY <1>2

LEMMA SnapshotStartKeeps ==
    ASSUME SessionsOK, VersionsInv, NEW s \in Sessions, NEW q \in SnapshotRequests, SnapshotStart(s, q)
    PROVE  VersionsInv'
<1>1. PICK latest : latest = LatestVersion(Visible(s, "data_snapshots"), q.asOf)
  OBVIOUS
<1>2. PICK work : work = [q |-> q, latest |-> latest, version |-> Max({latest, 1}), locks |-> {},
                          replay |-> {}, todo |-> q.categories, items |-> {}, warnings |-> {}]
  OBVIOUS
<1>3. Start(s, "snapshot", "acquire", work) /\ SnapshotBuildRequest(q)
  BY <1>1, <1>2 DEF SnapshotStart
<1>4. /\ Step(s, "snapshot") /\ sess[s].cmd = "idle" /\ db' = db
      /\ sess'[s] = [cmd |-> "snapshot", pc |-> "acquire", tx |-> EmptyTx, work |-> work]
  BY <1>3, StartStep DEF Phase
<1>5. Visible(s, "data_snapshots") = db["data_snapshots"]
  <2>1. sess[s].tx["data_snapshots"] = {}
    BY <1>4, SnapshotTable, WritesDisjoint DEF SessionsOK, SessionOK, Transaction
  <2> QED BY <2>1 DEF Visible
<1>6. /\ IsFiniteSet(db["data_snapshots"])
      /\ \A r \in db["data_snapshots"] : ValidSnapshot(db, r) /\ r.version \in Nat \ {0}
  BY DEF VersionsInv, ValidEvidence, ValidSnapshot
<1>7. /\ latest \in Nat
      /\ SnapshotsAt(db["data_snapshots"], q.asOf) # {} =>
            \E r \in SnapshotsAt(db["data_snapshots"], q.asOf) : r.version = latest
  BY <1>1, <1>5, <1>6, LatestStored
<1>8. \A v \in 1..(Max({latest, 1}) - 1) : Committed(db, q.asOf, v)
  <2> SUFFICES ASSUME NEW v \in 1..(Max({latest, 1}) - 1) PROVE Committed(db, q.asOf, v)
      OBVIOUS
  <2>1. latest # 0 /\ v \in 1..latest
    BY <1>7, AtLeastOne
  <2>2. SnapshotsAt(db["data_snapshots"], q.asOf) # {}
    BY <1>1, <1>5, <2>1 DEF LatestVersion
  <2>3. PICK r \in db["data_snapshots"] : r.asOf = q.asOf /\ r.version = latest
    BY <1>7, <2>2 DEF SnapshotsAt
  <2>4. \A n \in 1..r.version : \E p \in db["data_snapshots"] : p.asOf = r.asOf /\ p.version = n
    BY <1>6 DEF ValidSnapshot
  <2> QED BY <2>1, <2>3, <2>4 DEF Committed
<1>9. Building(db, sess'[s])
  <2>1. Max({latest, 1}) \in Nat \ {0}
    BY <1>7, AtLeastOne
  <2>2. Requested(db, work)
    <3>1. /\ work.q = q /\ work.latest = latest /\ work.version = Max({latest, 1})
          /\ DOMAIN work = SnapshotFields
      BY <1>2 DEF SnapshotFields
    <3> QED BY <1>3, <1>7, <1>8, <2>1, <3>1 DEF Requested, SnapshotBuildRequest
  <2>3. EmptyTx["data_snapshots"] = {}
    BY SnapshotTable DEF EmptyTx
  <2>4. work.todo = work.q.categories /\ work.items = {}
    BY <1>2
  <2> QED BY <1>4, <2>2, <2>3, <2>4 DEF Building
<1>10. LocksApart(s, sess'[s])
  BY <1>2, <1>4 DEF LocksApart
<1> QED BY <1>4, <1>9, <1>10, BuildingStep

LEMMA GetOrCreateKeeps ==
    ASSUME SessionsOK, VersionsInv, NEW s \in Sessions, GetOrCreateSnapshot(s)
    PROVE  VersionsInv'
<1>1. /\ sess[s].cmd = "snapshot" /\ sess[s].pc = "acquire" /\ Transaction(sess[s].tx, "snapshot")
      /\ At(s, "acquire")
  BY PhaseCommand DEF GetOrCreateSnapshot, Phase
<1>2. PICK w : w = sess[s].work
  OBVIOUS
<1>3. Requested(db, w) /\ sess[s].tx["data_snapshots"] = {} /\ w.todo = w.q.categories /\ w.items = {}
  BY <1>1, <1>2 DEF VersionsInv, Building
<1> DEFINE replay == {r \in SnapshotsAt(db["data_snapshots"], w.q.asOf) : r.version = w.version}
<1>4. PICK v : v = [w EXCEPT !.locks = @ \cup {w.version}, !.replay = replay]
  OBVIOUS
<1>5. /\ DOMAIN v = SnapshotFields /\ v.q = w.q /\ v.latest = w.latest /\ v.version = w.version
      /\ v.todo = w.todo /\ v.items = w.items /\ v.locks = w.locks \cup {w.version} /\ v.replay = replay
  BY <1>3, <1>4 DEF Requested, SnapshotFields
<1>6. ~Locked(s, w.version, w.q.asOf) /\ Goto(s, "select", sess[s].tx, v)
  BY <1>2, <1>4 DEF GetOrCreateSnapshot
<1>7. /\ Step(s, "snapshot") /\ db' = db /\ sess'[s].cmd = "snapshot" /\ sess'[s].pc = "select"
      /\ sess'[s].tx = sess[s].tx /\ sess'[s].work = v
  <2>1. PICK tx : tx = sess[s].tx
    OBVIOUS
  <2> QED BY <1>1, <1>6, <2>1, GotoStep DEF Phase
<1>8. Requested(db, v)
  BY <1>3, <1>5 DEF Requested
<1>9. Allocated(db, v)
  <2>1. \A r \in v.replay : r \in db["data_snapshots"] /\ r.asOf = v.q.asOf /\ r.version = v.version
    BY <1>5 DEF SnapshotsAt
  <2>2. v.replay = {} => ~Committed(db, v.q.asOf, v.version)
    BY <1>5 DEF SnapshotsAt, Committed
  <2> QED BY <1>5, <2>1, <2>2 DEF Allocated
<1>10. Selection(db, v)
  <2>1. \A r \in db["data_snapshots"] : Precedes(r, v) =>
            \A i \in r.items : i.category \in ToSet(v.todo)
    <3> SUFFICES ASSUME NEW r \in db["data_snapshots"], Precedes(r, v), NEW i \in r.items
                 PROVE  i.category \in ToSet(v.todo)
        OBVIOUS
    <3>1. ValidItem(db, i, r.asOf, ToSet(r.checksum[4]), r.checksum[2])
      BY DEF VersionsInv, ValidEvidence, ValidSnapshot, Precedes
    <3> QED BY <1>3, <1>5, <3>1 DEF ValidItem, Precedes
  <2> QED BY <1>3, <1>5, <2>1 DEF Selection
<1>11. v.todo \in Seq(ToSet(v.q.categories))
  BY <1>3, <1>5, SnapshotAssumption DEF Requested
<1>12. Building(db, sess'[s])
  BY <1>3, <1>7, <1>8, <1>9, <1>10, <1>11 DEF Building
<1>13. LocksApart(s, sess'[s])
  <2> SUFFICES ASSUME NEW u \in Sessions, u # s, sess[u].cmd = "snapshot",
                      sess[u].work.q.asOf = w.q.asOf
               PROVE  v.locks \cap sess[u].work.locks = {}
      BY <1>5, <1>7 DEF LocksApart
  <2>1. w.version \notin sess[u].work.locks
    BY <1>6 DEF Locked
  <2>2. w.locks \cap sess[u].work.locks = {}
    BY <1>1, <1>2 DEF VersionsInv, LocksExclusive
  <2> QED BY <1>5, <2>1, <2>2
<1> QED BY <1>7, <1>12, <1>13, BuildingStep

LEMMA SelectCategoryKeeps ==
    ASSUME SessionsOK, VersionsInv, NEW s \in Sessions, SelectCategory(s)
    PROVE  VersionsInv'
<1>1. /\ sess[s].cmd = "snapshot" /\ sess[s].pc = "select" /\ Transaction(sess[s].tx, "snapshot")
      /\ sess[s].work.todo # <<>>
  <2>1. At(s, "select") /\ sess[s].work.todo # <<>>
    BY DEF SelectCategory
  <2> QED BY <2>1, PhaseCommand DEF Phase
<1>2. PICK w : w = sess[s].work
  OBVIOUS
<1>3. /\ Requested(db, w) /\ Allocated(db, w) /\ Selection(db, w)
      /\ sess[s].tx["data_snapshots"] = {} /\ w.todo \in Seq(ToSet(w.q.categories)) /\ w.todo # <<>>
  BY <1>1, <1>2 DEF VersionsInv, Building
<1>4. PICK category, eligible, kept :
          /\ category = Head(w.todo) /\ eligible = CategoryCandidates(s, w.q, category)
          /\ kept = Newest(eligible, ItemLimit)
  OBVIOUS
<1>5. PICK more : more = CategoryWarnings(w.q, category, eligible, kept)
  OBVIOUS
<1>6. PICK v : v = [w EXCEPT !.todo = Tail(@), !.items = @ \cup kept, !.warnings = @ \cup more]
  OBVIOUS
<1>7. /\ DOMAIN v = SnapshotFields /\ v.q = w.q /\ v.latest = w.latest /\ v.version = w.version
      /\ v.locks = w.locks /\ v.replay = w.replay
      /\ v.todo = Tail(w.todo) /\ v.items = w.items \cup kept /\ v.warnings = w.warnings \cup more
  BY <1>3, <1>6 DEF Requested, SnapshotFields
<1>8. Goto(s, "select", sess[s].tx, v)
  BY <1>2, <1>4, <1>5, <1>6 DEF SelectCategory
<1>9. /\ Step(s, "snapshot") /\ db' = db /\ sess'[s].cmd = "snapshot" /\ sess'[s].pc = "select"
      /\ sess'[s].tx = sess[s].tx /\ sess'[s].work = v
  <2>1. PICK tx : tx = sess[s].tx
    OBVIOUS
  <2> QED BY <1>1, <1>8, <2>1, GotoStep DEF Phase
<1>10. /\ category \in ToSet(w.q.categories) /\ category \in SnapshotCategories
       /\ Tail(w.todo) \in Seq(ToSet(w.q.categories))
       /\ \A c \in ToSet(w.todo) : c = category \/ c \in ToSet(Tail(w.todo))
  <2>1. /\ category \in ToSet(w.q.categories) /\ Tail(w.todo) \in Seq(ToSet(w.q.categories))
    <3>1. PICK todo, set : todo = w.todo /\ set = ToSet(w.q.categories)
      OBVIOUS
    <3>2. Head(todo) \in set /\ Tail(todo) \in Seq(set)
      BY <1>3, <3>1, HeadTailProperties
    <3> QED BY <1>4, <3>1, <3>2
  <2>2. \A c \in ToSet(w.todo) : c = category \/ c \in ToSet(Tail(w.todo))
    <3> TAKE c \in ToSet(w.todo)
    <3>1. PICK n \in DOMAIN w.todo : c = w.todo[n]
      BY DEF ToSet
    <3>2. CASE n = 1
      BY <1>3, <1>4, <3>1, <3>2
    <3>3. CASE n # 1
      <4>1. n - 1 \in DOMAIN Tail(w.todo) /\ Tail(w.todo)[n - 1] = w.todo[n]
        BY <1>3, <3>1, <3>3
      <4> QED BY <3>1, <4>1 DEF ToSet
    <3> QED BY <3>2, <3>3
  <2> QED BY <1>3, <2>1, <2>2 DEF Requested
<1>11. /\ \A i \in kept : /\ ValidItem(db, i, w.q.asOf, ToSet(w.q.categories), w.q.preference)
                          /\ i.category = category
       /\ \A i : /\ ValidItem(db, i, w.q.asOf, ToSet(w.q.categories), w.q.preference)
                 /\ i.category = category /\ ~(Cardinality(eligible) > ItemLimit)
                 => \/ i \in kept
                    \/ \E k \in kept : /\ k.category = category
                                       /\ ComesBefore(w.q.preference, k.provider, i.provider)
  <2>1. PICK q, categories : q = w.q /\ categories = ToSet(w.q.categories)
    OBVIOUS
  <2>2. q.preference \in Seq(ToSet(q.preference)) /\ ValidRows(db, category)
    BY <1>3, <1>10, <2>1, SnapshotAssumption DEF Requested, VersionsInv, ValidEvidence
  <2>3. category \in categories /\ eligible = CategoryCandidates(s, q, category)
    BY <1>4, <1>10, <2>1
  <2>4. /\ \A i \in kept : ValidItem(db, i, q.asOf, categories, q.preference) /\ i.category = category
        /\ \A i : /\ ValidItem(db, i, q.asOf, categories, q.preference) /\ i.category = category
                  /\ ~(Cardinality(eligible) > ItemLimit)
                  => \/ i \in kept
                     \/ \E k \in kept : /\ k.category = category
                                        /\ ComesBefore(q.preference, k.provider, i.provider)
    BY <1>1, <1>4, <1>10, <2>2, <2>3, CategorySelected
  <2> QED BY <2>1, <2>4
<1>12. Cardinality(eligible) > ItemLimit => Truncated(v)
  <2> SUFFICES ASSUME Cardinality(eligible) > ItemLimit PROVE Truncated(v)
      OBVIOUS
  <2>1. <<"TRUNCATED_CATEGORY", category>> \in more
    BY <1>5 DEF CategoryWarnings
  <2>2. PICK x : x = <<"TRUNCATED_CATEGORY", category>>
    OBVIOUS
  <2>3. x \in v.warnings /\ x[1] = "TRUNCATED_CATEGORY"
    BY <1>7, <2>1, <2>2
  <2> QED BY <2>3 DEF Truncated
<1>13. Selection(db, v)
  <2>1. \A i \in v.items : ValidItem(db, i, v.q.asOf, ToSet(v.q.categories), v.q.preference)
    BY <1>3, <1>7, <1>11 DEF Selection
  <2>2. ASSUME NEW r \in db["data_snapshots"], Precedes(r, v), NEW i \in r.items,
               i.category \notin ToSet(v.todo), ~Truncated(v)
        PROVE  Retained(i, v)
    <3>1. Precedes(r, w) /\ ~Truncated(w)
      BY <1>7, <2>2 DEF Precedes, Truncated
    <3>2. i.category \in ToSet(w.todo) \/ Retained(i, w)
      BY <1>3, <3>1 DEF Selection
    <3>3. CASE Retained(i, w)
      BY <1>7, <3>3 DEF Retained
    <3>4. CASE i.category \in ToSet(w.todo)
      <4>1. i.category = category
        BY <1>7, <1>10, <2>2, <3>4
      <4>2. ValidItem(db, i, w.q.asOf, ToSet(w.q.categories), w.q.preference)
        <5>1. ValidItem(db, i, r.asOf, ToSet(r.checksum[4]), r.checksum[2])
          BY <3>1 DEF VersionsInv, ValidEvidence, ValidSnapshot, Precedes
        <5> QED BY <3>1, <5>1 DEF Precedes
      <4>3. ~(Cardinality(eligible) > ItemLimit)
        BY <1>12, <2>2
      <4>4. \/ i \in kept
            \/ \E k \in kept : /\ k.category = category
                               /\ ComesBefore(w.q.preference, k.provider, i.provider)
        BY <1>11, <4>1, <4>2, <4>3
      <4> QED BY <1>7, <4>1, <4>4 DEF Retained
    <3> QED BY <3>2, <3>3, <3>4
  <2> QED BY <2>1, <2>2 DEF Selection
<1>14. Requested(db, v) /\ Allocated(db, v) /\ v.todo \in Seq(ToSet(v.q.categories))
  BY <1>3, <1>7, <1>10 DEF Requested, Allocated
<1>15. Building(db, sess'[s])
  BY <1>3, <1>9, <1>13, <1>14 DEF Building
<1>16. LocksApart(s, sess'[s])
  <2>1. v.q.asOf = sess[s].work.q.asOf /\ v.locks = sess[s].work.locks
    BY <1>2, <1>7
  <2> QED BY <1>1, <1>9, <2>1 DEF LocksApart, VersionsInv, LocksExclusive
<1> QED BY <1>9, <1>15, <1>16, BuildingStep

LEMMA SnapshotBuildKeeps ==
    ASSUME SessionsOK, VersionsInv, NEW s \in Sessions, SnapshotBuild(s)
    PROVE  VersionsInv'
<1>1. /\ sess[s].cmd = "snapshot" /\ sess[s].pc = "select" /\ Transaction(sess[s].tx, "snapshot")
      /\ sess[s].work.todo = <<>>
  <2>1. At(s, "select") /\ sess[s].work.todo = <<>>
    BY DEF SnapshotBuild
  <2> QED BY <2>1, PhaseCommand DEF Phase
<1>2. PICK w : w = sess[s].work
  OBVIOUS
<1>3. /\ Requested(db, w) /\ Allocated(db, w) /\ Selection(db, w)
      /\ sess[s].tx["data_snapshots"] = {} /\ w.todo = <<>>
  BY <1>1, <1>2 DEF VersionsInv, Building
<1>4. \A row : /\ Transaction(Insert(s, "data_snapshots", {row}), "snapshot")
               /\ Insert(s, "data_snapshots", {row})["data_snapshots"] = {row}
  BY <1>1, <1>3, InsertTransaction, SnapshotTable
<1>5. \A pc, tx, work :
          /\ pc \in {"acquire", "sealed", "failed"} /\ Transaction(tx, "snapshot") /\ Goto(s, pc, tx, work)
          => /\ Step(s, "snapshot") /\ db' = db /\ sess'[s].cmd = "snapshot" /\ sess'[s].pc = pc
             /\ sess'[s].tx = tx /\ sess'[s].work = work
  BY <1>1, GotoStep DEF Phase
<1>6. ASSUME NEW v, sess'[s].work = v, v.q = w.q, v.locks = w.locks
      PROVE  LocksApart(s, sess'[s])
  <2>1. v.q.asOf = sess[s].work.q.asOf /\ v.locks = sess[s].work.locks
    BY <1>2, <1>6
  <2> QED BY <1>1, <1>6, <2>1 DEF LocksApart, VersionsInv, LocksExclusive
<1>7. CASE /\ w.replay # {} /\ \A r \in w.replay : ReplayMatches(w, r)
           /\ Goto(s, "sealed", sess[s].tx, w)
  <2>1. /\ Step(s, "snapshot") /\ db' = db /\ sess'[s].cmd = "snapshot" /\ sess'[s].pc = "sealed"
        /\ sess'[s].tx = sess[s].tx /\ sess'[s].work = w
    BY <1>1, <1>5, <1>7
  <2>2. \A r \in w.replay : r.items = w.items
    BY <1>7 DEF ReplayMatches
  <2>3. Building(db, sess'[s])
    BY <1>3, <1>7, <2>1, <2>2 DEF Building
  <2> QED BY <1>6, <2>1, <2>3, BuildingStep
<1>8. CASE Rollback(s)
  <2>1. Step(s, "snapshot") /\ db' = db /\ sess'[s] = IdleSession
    BY <1>1, <1>8, RollbackStep
  <2>2. Building(db, sess'[s]) /\ LocksApart(s, sess'[s])
    BY <2>1, IdleSessionOK DEF Building, LocksApart
  <2> QED BY <2>1, <2>2, BuildingStep
<1> DEFINE next == [w EXCEPT !.version = w.latest + 1, !.replay = {}, !.items = {},
                             !.warnings = {}, !.todo = w.q.categories]
<1>9. CASE w.version = w.latest /\ w.replay # {} /\ Goto(s, "acquire", sess[s].tx, next)
  <2>1. PICK v : v = next
    OBVIOUS
  <2>2. /\ DOMAIN v = SnapshotFields /\ v.q = w.q /\ v.latest = w.latest /\ v.version = w.latest + 1
        /\ v.locks = w.locks /\ v.todo = v.q.categories /\ v.items = {}
    BY <1>3, <2>1 DEF Requested, SnapshotFields
  <2>3. /\ Step(s, "snapshot") /\ db' = db /\ sess'[s].cmd = "snapshot" /\ sess'[s].pc = "acquire"
        /\ sess'[s].tx = sess[s].tx /\ sess'[s].work = v
    <3> HIDE DEF next
    <3> QED BY <1>1, <1>5, <1>9, <2>1
  <2>4. Committed(db, w.q.asOf, w.latest)
    BY <1>3, <1>9 DEF Allocated, Committed
  <2>5. \A n \in 1..(v.version - 1) : Committed(db, v.q.asOf, n)
    <3> SUFFICES ASSUME NEW n \in 1..(v.version - 1) PROVE Committed(db, v.q.asOf, n)
        OBVIOUS
    <3>1. w.latest \in Nat /\ v.version - 1 = w.latest
      BY <1>3, <2>2 DEF Requested
    <3>2. n = w.latest \/ n \in 1..(w.version - 1)
      BY <1>9, <3>1
    <3> QED BY <1>3, <2>2, <2>4, <3>2 DEF Requested
  <2>6. Requested(db, v)
    BY <1>3, <2>2, <2>5 DEF Requested
  <2>7. Building(db, sess'[s])
    BY <1>3, <2>2, <2>3, <2>6 DEF Building
  <2> QED BY <1>6, <2>2, <2>3, <2>7, BuildingStep
<1>10. CASE w.replay = {} /\ Goto(s, "sealed", Insert(s, "data_snapshots", {BuiltSnapshot(w)}), w)
  <2>1. PICK tx : /\ tx = Insert(s, "data_snapshots", {BuiltSnapshot(w)}) /\ Transaction(tx, "snapshot")
                  /\ tx["data_snapshots"] = {BuiltSnapshot(w)}
    BY <1>4
  <2>2. /\ Step(s, "snapshot") /\ db' = db /\ sess'[s].cmd = "snapshot" /\ sess'[s].pc = "sealed"
        /\ sess'[s].tx = tx /\ sess'[s].work = w
    BY <1>5, <1>10, <2>1
  <2>3. Building(db, sess'[s])
    BY <1>3, <1>10, <2>1, <2>2 DEF Building
  <2> QED BY <1>6, <2>2, <2>3, BuildingStep
<1>11. CASE w.replay = {} /\ Goto(s, "failed", Insert(s, "data_snapshots", {FailedSnapshot(w)}), w)
  <2>1. PICK tx : /\ tx = Insert(s, "data_snapshots", {FailedSnapshot(w)}) /\ Transaction(tx, "snapshot")
                  /\ tx["data_snapshots"] = {FailedSnapshot(w)}
    BY <1>4
  <2>2. /\ Step(s, "snapshot") /\ db' = db /\ sess'[s].cmd = "snapshot" /\ sess'[s].pc = "failed"
        /\ sess'[s].tx = tx /\ sess'[s].work = w
    BY <1>5, <1>11, <2>1
  <2>3. Building(db, sess'[s])
    BY <1>3, <1>11, <2>1, <2>2 DEF Building
  <2> QED BY <1>6, <2>2, <2>3, BuildingStep
<1> QED BY <1>2, <1>7, <1>8, <1>9, <1>10, <1>11 DEF SnapshotBuild

\* A version is committed when every earlier one is and before any later one.
LEMMA SnapshotCommitKeeps ==
    ASSUME SessionsOK, VersionsInv, NEW s \in Sessions, SnapshotCommit(s)
    PROVE  VersionsInv'
<1>1. /\ sess[s].cmd = "snapshot" /\ sess[s].pc \in {"sealed", "failed"} /\ Commit(s)
      /\ Transaction(sess[s].tx, "snapshot")
  <2>1. (At(s, "sealed") \/ At(s, "failed")) /\ Commit(s)
    BY DEF SnapshotCommit
  <2> QED BY <2>1, PhaseCommand DEF Phase
<1>2. /\ Step(s, "snapshot") /\ sess'[s] = IdleSession
      /\ db' = [t \in Tables |-> db[t] \cup sess[s].tx[t]]
  BY <1>1, CommitStep
<1>3. PICK w : w = sess[s].work
  OBVIOUS
<1>4. Requested(db, w) /\ Allocated(db, w) /\ Selection(db, w)
  BY <1>1, <1>3 DEF VersionsInv, Building
<1>5. PICK added : added = sess[s].tx["data_snapshots"]
  OBVIOUS
<1>6. \/ added = {}
      \/ ~Committed(db, w.q.asOf, w.version) /\ added = {FailedSnapshot(w)}
      \/ ~Committed(db, w.q.asOf, w.version) /\ w.todo = <<>> /\ added = {BuiltSnapshot(w)}
  BY <1>1, <1>3, <1>4, <1>5 DEF VersionsInv, Building, Allocated
<1>7. /\ db'["data_snapshots"] = db["data_snapshots"] \cup added
      /\ \A category \in SnapshotCategories : db'[RecordTables[category]] = db[RecordTables[category]]
      /\ \A t \in Tables : db[t] \subseteq db'[t]
  <2>1. \A category \in SnapshotCategories : sess[s].tx[RecordTables[category]] = {}
    BY <1>1, EvidenceTables, WritesDisjoint DEF Transaction
  <2> QED BY <1>2, <1>5, <2>1, EvidenceTables, SnapshotTable
<1>8. \A i, asOf, categories, preference :
          ValidItem(db, i, asOf, categories, preference) => ValidItem(db', i, asOf, categories, preference)
  BY <1>7, ItemKept
<1>9. \A p \in added : /\ p.asOf = w.q.asOf /\ p.version = w.version
                       /\ ~Committed(db, w.q.asOf, w.version)
                       /\ p.checksum # <<>> =>
                             /\ p.checksum = SnapshotChecksum(w) /\ p.items = w.items /\ w.todo = <<>>
                       /\ p.checksum = <<>> => p.items = {}
  <2>1. /\ BuiltSnapshot(w).asOf = w.q.asOf /\ BuiltSnapshot(w).version = w.version
        /\ BuiltSnapshot(w).checksum = SnapshotChecksum(w) /\ BuiltSnapshot(w).items = w.items
    BY DEF BuiltSnapshot
  <2>2. /\ FailedSnapshot(w).asOf = w.q.asOf /\ FailedSnapshot(w).version = w.version
        /\ FailedSnapshot(w).checksum = <<>> /\ FailedSnapshot(w).items = {}
    BY DEF FailedSnapshot
  <2>3. SnapshotChecksum(w) # <<>>
    BY DEF SnapshotChecksum
  <2> QED BY <1>6, <2>1, <2>2, <2>3
<1>10. /\ SnapshotChecksum(w)[2] = w.q.preference /\ SnapshotChecksum(w)[4] = w.q.categories
       /\ SnapshotChecksum(w)[6] = w.warnings
  BY DEF SnapshotChecksum
<1>11. \A asOf, v : Committed(db, asOf, v) => Committed(db', asOf, v)
  BY <1>7 DEF Committed
<1>12. ValidEvidence(db')
  <2>1. \A category \in SnapshotCategories : ValidRows(db', category)
    BY <1>7, RowsSame DEF VersionsInv, ValidEvidence
  <2>2. IsFiniteSet(db'["data_snapshots"])
    <3>1. IsFiniteSet(added)
      BY <1>6, FS_EmptySet, FS_Singleton
    <3>2. IsFiniteSet(db["data_snapshots"])
      BY DEF VersionsInv, ValidEvidence
    <3>3. IsFiniteSet(db["data_snapshots"] \cup added)
      BY <3>1, <3>2, FS_Union
    <3> QED BY <1>7, <3>3
  <2>3. \A r \in db["data_snapshots"] : ValidSnapshot(db', r)
    <3> TAKE r \in db["data_snapshots"]
    <3>1. ValidSnapshot(db, r)
      BY DEF VersionsInv, ValidEvidence
    <3> QED BY <1>7, <1>8, <3>1 DEF ValidSnapshot
  <2>4. \A p \in added : ValidSnapshot(db', p)
    <3> TAKE p \in added
    <3>1. p.version \in Nat \ {0} /\ p.version = w.version /\ p.asOf = w.q.asOf
      BY <1>4, <1>9 DEF Requested
    <3>2. ASSUME NEW v \in 1..p.version
          PROVE  \E r \in db'["data_snapshots"] : r.asOf = p.asOf /\ r.version = v
      <4>1. CASE v = p.version
        BY <1>7, <4>1
      <4>2. CASE v # p.version
        <5>1. v \in 1..(w.version - 1)
          BY <3>1, <3>2, <4>2
        <5>2. Committed(db, w.q.asOf, v)
          BY <1>4, <5>1 DEF Requested
        <5> QED BY <1>11, <3>1, <5>2 DEF Committed
      <4> QED BY <4>1, <4>2
    <3>3. ASSUME p.checksum # <<>>, NEW i \in p.items
          PROVE  ValidItem(db', i, p.asOf, ToSet(p.checksum[4]), p.checksum[2])
      <4>1. ValidItem(db, i, w.q.asOf, ToSet(w.q.categories), w.q.preference)
        BY <1>4, <1>9, <3>3 DEF Selection
      <4> QED BY <1>8, <1>9, <1>10, <3>3, <4>1
    <3> QED BY <1>9, <3>1, <3>2, <3>3 DEF ValidSnapshot
  <2> QED BY <1>7, <2>1, <2>2, <2>3, <2>4 DEF ValidEvidence
<1>13. LaterLosesNothing(db'["data_snapshots"])
  <2> DEFINE Kept(r, q) == \A i \in r.items :
                              \/ i \in q.items
                              \/ \E k \in q.items : /\ k.category = i.category
                                                    /\ ComesBefore(r.checksum[2], k.provider, i.provider)
             Follows(r, q) == /\ r.asOf = q.asOf /\ r.version < q.version
                              /\ r.checksum # <<>> /\ q.checksum # <<>>
                              /\ r.checksum[2] = q.checksum[2] /\ r.checksum[4] = q.checksum[4]
                              /\ \A x \in q.checksum[6] : x[1] # "TRUNCATED_CATEGORY"
  <2>1. ASSUME NEW r \in db["data_snapshots"], NEW q \in db["data_snapshots"], Follows(r, q)
        PROVE  Kept(r, q)
    BY <2>1 DEF VersionsInv, LaterLosesNothing
  <2>2. ASSUME NEW r \in db["data_snapshots"], NEW q \in added, Follows(r, q)
        PROVE  Kept(r, q)
    <3>1. q.checksum = SnapshotChecksum(w) /\ q.items = w.items /\ w.todo = <<>>
      BY <1>9, <2>2
    <3>2. Precedes(r, w) /\ ~Truncated(w)
      BY <1>9, <1>10, <2>2, <3>1 DEF Precedes, Truncated
    <3>3. \A i \in r.items : Retained(i, w)
      <4>1. ToSet(w.todo) = {}
        BY <3>1 DEF ToSet
      <4> QED BY <1>4, <3>2, <4>1 DEF Selection
    <3> QED BY <3>1, <3>2, <3>3 DEF Retained, Precedes
  <2>3. ASSUME NEW r \in added, NEW q \in db["data_snapshots"], Follows(r, q)
        PROVE  FALSE
    <3>1. ValidSnapshot(db, q)
      BY DEF VersionsInv, ValidEvidence
    <3>2. r.version \in 1..q.version
      BY <1>4, <1>9, <2>3, <3>1 DEF ValidSnapshot, Requested
    <3>3. Committed(db, w.q.asOf, w.version)
      BY <1>9, <2>3, <3>1, <3>2 DEF ValidSnapshot, Committed
    <3> QED BY <1>9, <3>3
  <2>4. ASSUME NEW r \in added, NEW q \in added, Follows(r, q)
        PROVE  FALSE
    BY <1>4, <1>9, <2>4 DEF Requested
  <2>5. \A r, q \in db'["data_snapshots"] : Follows(r, q) => Kept(r, q)
    <3> HIDE DEF Kept, Follows
    <3> QED BY <1>7, <2>1, <2>2, <2>3, <2>4
  <2> QED BY <2>5 DEF LaterLosesNothing
<1>14. \A u \in Sessions : Building(db', sess'[u])
  <2> TAKE u \in Sessions
  <2>1. CASE u = s
    BY <1>2, <2>1, IdleSessionOK DEF Building
  <2>2. CASE u # s
    <3>1. PICK x : x = sess[u] /\ x = sess'[u]
      BY <1>2, <2>2 DEF Step
    <3>2. Building(db, x)
      BY <3>1 DEF VersionsInv
    <3>3. CASE x.cmd = "snapshot"
      <4>1. PICK v : v = x.work
        OBVIOUS
      <4>2. Requested(db, v)
        BY <3>2, <3>3, <4>1 DEF Building
      <4>3. Requested(db', v)
        BY <1>11, <4>2 DEF Requested
      <4>4. ASSUME Allocated(db, v), v.replay = {} PROVE ~Committed(db', v.q.asOf, v.version)
        <5> SUFFICES ASSUME NEW p \in added, p.asOf = v.q.asOf, p.version = v.version PROVE FALSE
            BY <1>7, <4>4 DEF Allocated, Committed
        <5>1. w.version \in w.locks /\ w.version \in v.locks /\ w.q.asOf = v.q.asOf
          BY <1>4, <1>9, <4>4 DEF Allocated
        <5>2. w.locks \cap v.locks = {}
          BY <1>1, <1>3, <2>2, <3>1, <3>3, <4>1, <5>1 DEF VersionsInv, LocksExclusive
        <5> QED BY <5>1, <5>2
      <4>5. ASSUME Allocated(db, v) PROVE Allocated(db', v)
        BY <1>7, <4>4, <4>5 DEF Allocated
      <4>6. ASSUME Selection(db, v) PROVE Selection(db', v)
        <5>1. \A p \in added : ~Precedes(p, v)
          <6> SUFFICES ASSUME NEW p \in added, Precedes(p, v) PROVE FALSE
              OBVIOUS
          <6>1. w.version \in 1..(v.version - 1) /\ w.q.asOf = v.q.asOf
            BY <1>4, <1>9, <4>2 DEF Precedes, Requested
          <6>2. Committed(db, w.q.asOf, w.version)
            BY <4>2, <6>1 DEF Requested
          <6> QED BY <1>9, <6>2
        <5> QED BY <1>7, <1>8, <4>6, <5>1 DEF Selection
      <4> QED BY <3>1, <3>2, <3>3, <4>1, <4>3, <4>5, <4>6 DEF Building
    <3> QED BY <3>1, <3>3 DEF Building
  <2> QED BY <2>1, <2>2
<1>15. LocksExclusive'
  <2>1. \A u \in Sessions : sess'[u].cmd = "snapshot" => sess'[u] = sess[u]
    BY <1>2, IdleSessionOK DEF Step
  <2> QED BY <2>1 DEF VersionsInv, LocksExclusive
<1>16. \A u \in Sessions : \A category \in SnapshotCategories : IngestedRows(sess'[u].tx, category)
  BY <1>2, IdleSessionOK, EmptyRows DEF Step, VersionsInv
<1> QED BY <1>12, <1>13, <1>14, <1>15, <1>16 DEF VersionsInv

LEMMA InitVersions == Init => VersionsInv
<1> SUFFICES ASSUME NEW before \in InitialStates, DataInit(before)
             PROVE  VersionsInv
    BY DEF Init
<1>1. db = before.db /\ \A s \in Sessions : sess[s] = IdleSession
  BY DEF DataInit
<1>2. ValidEvidence(db) /\ LaterLosesNothing(db["data_snapshots"])
  BY <1>1, InitialAssumption
<1>3. \A s \in Sessions : sess[s].cmd = "idle" /\ sess[s].tx = EmptyTx
  BY <1>1, IdleSessionOK
<1> QED BY <1>2, <1>3, EmptyRows DEF VersionsInv, LocksExclusive, Building

\* A step of a command that writes no evidence.
LEMMA VersionsAside ==
    ASSUME PipelineOK, VersionsInv, NEW s \in Sessions, NEW c, Step(s, c), c # "snapshot", c # "ingest"
    PROVE  VersionsInv'
<1>1. SessionOK(sess'[s]) /\ sess'[s].cmd # "ingest"
  BY DEF Step
<1> QED BY <1>1, NoRows, VersionsForeign DEF PipelineOK

LEMMA VersionsStep ==
    ASSUME PipelineOK, VersionsInv, [Next]_vars
    PROVE  VersionsInv'
<1> USE DEF PipelineOK
<1>1. CASE UNCHANGED dataVars
  <2>1. db' = db /\ sess' = sess
    BY <1>1 DEF dataVars
  <2> QED BY <2>1 DEF VersionsInv, LocksExclusive
<1>2. CASE Next
  <2>1. PICK s \in Sessions : SecuritiesStep(s) \/ DataStep(s) \/ FinancialsStep(s) \/ KnowledgeStep(s)
    BY <1>2 DEF Next
  <2>2. CASE SecuritiesStep(s)
    <3>1. Step(s, "seed-master") \/ Step(s, "resolve")
      BY <2>2, SeedMasterSteps, ResolveSteps DEF SecuritiesStep, Quiet
    <3> QED BY <3>1, VersionsAside
  <2>3. CASE FinancialsStep(s)
    BY <2>3, FinancialsSteps, VersionsAside DEF Quiet
  <2>4. CASE KnowledgeStep(s)
    BY <2>4, KnowledgeSteps, VersionsAside DEF Quiet
  <2>5. CASE DataStep(s)
    <3>1. CASE IngestAction(s)
      <4>1. \A category \in SnapshotCategories : IngestedRows(sess'[s].tx, category)
        BY <3>1, IngestRows DEF VersionsInv
      <4>2. UNCHANGED dataVars \/ Step(s, "ingest")
        BY <3>1, IngestStartStep, IngestBootstrapStep, IngestRunStep, IngestPutStep, IngestPersistStep,
           IngestUndoneStep, IngestFinishStep DEF IngestAction
      <4> QED BY <1>1, <4>1, <4>2, VersionsForeign
    <3>2. CASE \/ \E q \in SnapshotRequests : SnapshotStart(s, q)
               \/ GetOrCreateSnapshot(s) \/ SelectCategory(s) \/ SnapshotBuild(s) \/ SnapshotCommit(s)
      BY <3>2, SnapshotStartKeeps, GetOrCreateKeeps, SelectCategoryKeeps, SnapshotBuildKeeps,
         SnapshotCommitKeeps
    <3>3. CASE Crash(s)
      <4>1. /\ sess[s].cmd # "idle" /\ Step(s, sess[s].cmd) /\ db' = db /\ sess'[s] = IdleSession
        BY <3>3, CrashStep
      <4>2. CASE sess[s].cmd = "snapshot"
        <5>1. Building(db, sess'[s]) /\ LocksApart(s, sess'[s])
          BY <4>1, IdleSessionOK DEF Building, LocksApart
        <5> QED BY <4>1, <4>2, <5>1, BuildingStep
      <4>3. CASE sess[s].cmd # "snapshot"
        <5>1. \A category \in SnapshotCategories : IngestedRows(sess'[s].tx, category)
          BY <4>1, IdleSessionOK, EmptyRows
        <5> QED BY <4>1, <4>3, <5>1, VersionsForeign
      <4> QED BY <4>2, <4>3
    <3> QED BY <1>1, <2>5, <3>1, <3>2, <3>3 DEF DataStep, IngestAction
  <2> QED BY <2>1, <2>2, <2>3, <2>4, <2>5
<1> QED BY <1>1, <1>2 DEF vars

\* A snapshot that is reported is the one that was selected, also when it
\* was stored by another process, and holds nothing published or retrieved
\* after its cutoff; and a later version for the same cutoff, categories and
\* preference has lost nothing unless it was truncated or a preferred
\* provider came up (SnapshotBuilder.build and the retry of snapshot create).
THEOREM SnapshotsAgree == Spec => []SnapshotVersionsAgree
<1>1. PipelineOK /\ VersionsInv => SnapshotVersionsAgree
  <2> SUFFICES ASSUME PipelineOK, VersionsInv PROVE SnapshotVersionsAgree
      OBVIOUS
  <2>1. ASSUME NEW s \in Sessions, At(s, "sealed")
        PROVE  \E r \in Visible(s, "data_snapshots") :
                   /\ r.asOf = sess[s].work.q.asOf /\ r.version = sess[s].work.version
                   /\ r.items = sess[s].work.items
                   /\ \A i \in r.items : i.retrieved <= r.asOf /\ i.rec.published <= r.asOf
    <3>1. sess[s].cmd = "snapshot" /\ sess[s].pc = "sealed"
      BY <2>1, PhaseCommand DEF Phase, PipelineOK
    <3>2. PICK w : w = sess[s].work
      OBVIOUS
    <3>3. /\ Requested(db, w) /\ Allocated(db, w) /\ Selection(db, w)
          /\ \/ sess[s].tx["data_snapshots"] = {BuiltSnapshot(w)}
             \/ w.replay # {} /\ \A r \in w.replay : r.items = w.items
      BY <3>1, <3>2 DEF VersionsInv, Building
    <3>4. \E r \in Visible(s, "data_snapshots") :
              r.asOf = w.q.asOf /\ r.version = w.version /\ r.items = w.items
      <4>1. CASE sess[s].tx["data_snapshots"] = {BuiltSnapshot(w)}
        <5>1. BuiltSnapshot(w) \in Visible(s, "data_snapshots")
          BY <4>1 DEF Visible
        <5>2. /\ BuiltSnapshot(w).asOf = w.q.asOf /\ BuiltSnapshot(w).version = w.version
              /\ BuiltSnapshot(w).items = w.items
          BY DEF BuiltSnapshot
        <5> QED BY <5>1, <5>2
      <4>2. CASE w.replay # {} /\ \A r \in w.replay : r.items = w.items
        BY <3>3, <4>2 DEF Visible, Allocated
      <4> QED BY <3>3, <4>1, <4>2
    <3>5. \A i \in w.items : i.retrieved <= w.q.asOf /\ i.rec.published <= w.q.asOf
      <4> TAKE i \in w.items
      <4>1. ValidItem(db, i, w.q.asOf, ToSet(w.q.categories), w.q.preference)
        BY <3>3 DEF Selection
      <4>2. w.q.asOf \in Nat
        BY <3>3, SnapshotAssumption DEF Requested
      <4>3. i.retrieved <= w.q.asOf /\ (i.rec.published = 0 \/ i.rec.published <= w.q.asOf)
        BY <4>1 DEF ValidItem
      <4>4. 0 <= w.q.asOf
        BY <4>2
      <4> QED BY <4>3, <4>4
    <3> QED BY <3>2, <3>4, <3>5
  <2> QED BY <2>1 DEF SnapshotVersionsAgree, VersionsInv
<1> QED BY <1>1, InitPipeline, InitVersions, PipelineStep, VersionsStep, PTL DEF Spec

(***************************************************************************)
(* Documents and searches.                                                 *)
(***************************************************************************)

\* The rows of a table, committed or in a transaction.
AllRows(t) == db[t] \cup UNION {sess[u].tx[t] : u \in Sessions}

\* Bytes that stay readable and that the parsers have an answer for.
BytesKept(x) == x.checksum \in DOMAIN ParserOutput /\ Safe(x)

SourcesKept ==
    \A r \in db["source_documents"] : HasBody(r) => r.rec.published \in Nat /\ BytesKept(r.rec.body)

VersionsKept ==
    /\ \A v \in AllRows("document_versions") : v.published \in Nat /\ BytesKept(v)
    /\ \A v, x \in AllRows("document_versions") : VersionId(v) = VersionId(x) => v = x

ParsesKept ==
    /\ \A r, q \in AllRows("document_parse_runs") : RunId(r) = RunId(q) => r = q
    /\ \A c, x \in AllRows("document_chunks") : ChunkId(c) = ChunkId(x) => c = x
    /\ WholeParses(db["document_parse_runs"], db["document_chunks"], db["document_versions"])
    /\ \A s \in Sessions :
          WholeParses(sess[s].tx["document_parse_runs"], sess[s].tx["document_chunks"],
                      db["document_versions"])

HitsKept ==
    /\ db["snapshot_document_versions"] = {}
    /\ \A run \in AllRows("retrieval_runs") : \A id \in run.hits : Cites(db, run, id)

\* The commands under way.  A version is checked and written in two steps, a
\* search reads its index, its chunks and their citations in three.
RegisterFields == {"row", "req", "write", "result", "known"}
Registering(x) ==
    x.cmd = "register" =>
        /\ DOMAIN x.work = RegisterFields
        /\ x.pc \in {"logical", "register"} =>
              x.work.row.rec.published \in Nat /\ BytesKept(x.work.row.rec.body)
        /\ x.pc = "version" => x.work.write.published \in Nat /\ BytesKept(x.work.write)
        /\ x.pc # "written" => x.tx["document_versions"] = {}

Parsing(x) ==
    x.cmd = "parse" =>
        /\ x.pc = "parse" =>
              /\ x.work.version \in db["document_versions"] /\ x.work.bytes \in DOMAIN ParserOutput
              /\ x.work.id[1] = VersionId(x.work.version) /\ x.work.id = <<x.work.id[1], x.work.id[2]>>
        /\ x.pc # "written" => x.tx["document_parse_runs"] = {} /\ x.tx["document_chunks"] = {}

SearchFields == {"q", "index", "hits"}
Searching(x) ==
    x.cmd = "search" =>
        /\ DOMAIN x.work = SearchFields
        /\ x.work.q \in SearchRequests /\ x.work.index \in db["lexical_index_versions"]
        /\ x.pc = "execute" => \A c \in x.work.hits :
              /\ c \in db["document_chunks"]
              /\ \E p \in x.work.index.postings : p.chunk = ChunkId(c) /\ p.token \in x.work.q.query

CitableInv ==
    /\ SourcesKept /\ VersionsKept /\ ParsesKept /\ HitsKept
    /\ \A s \in Sessions : Registering(sess[s]) /\ Parsing(sess[s]) /\ Searching(sess[s])

LEMMA DocumentTables ==
    /\ {"source_documents", "document_versions", "document_parse_runs", "document_chunks",
        "lexical_index_versions", "retrieval_runs", "snapshot_document_versions"} \subseteq Tables
    /\ "document_versions" \in Writes("register")
    /\ "document_parse_runs" \in Writes("parse") /\ "document_chunks" \in Writes("parse")
    /\ "retrieval_runs" \in Writes("search")
BY TablesAssumption DEF Writes

LEMMA RowsIn ==
    \A t, r : r \in AllRows(t) <=> r \in db[t] \/ \E u \in Sessions : r \in sess[u].tx[t]
BY DEF AllRows

\* A step adds to the rows what its own session adds.
LEMMA RowsStep ==
    ASSUME SessionsOK, NEW s \in Sessions, NEW c, Step(s, c), NEW t \in Tables
    PROVE  \A r \in AllRows(t)' : r \in AllRows(t) \/ r \in sess'[s].tx[t]
<1> TAKE r \in AllRows(t)'
<1>1. r \in db'[t] \/ \E u \in Sessions : r \in sess'[u].tx[t]
  BY DEF AllRows
<1>2. CASE r \in db'[t]
  <2>1. r \in db[t] \/ r \in sess[s].tx[t]
    BY <1>2 DEF Step
  <2> QED BY <2>1, RowsIn
<1>3. CASE \E u \in Sessions : r \in sess'[u].tx[t]
  <2>1. \A u \in Sessions : u # s => sess'[u] = sess[u]
    BY DEF Step
  <2> QED BY <1>3, <2>1, RowsIn
<1> QED BY <1>1, <1>2, <1>3

LEMMA CitesGrows ==
    ASSUME NEW d, NEW e, \A t \in Tables : d[t] \subseteq e[t], NEW run, NEW id, Cites(d, run, id)
    PROVE  Cites(e, run, id)
<1>1. /\ d["document_chunks"] \subseteq e["document_chunks"]
      /\ d["document_parse_runs"] \subseteq e["document_parse_runs"]
      /\ d["document_versions"] \subseteq e["document_versions"]
      /\ d["lexical_index_versions"] \subseteq e["lexical_index_versions"]
  BY DocumentTables
<1> QED BY <1>1, Zenon DEF Cites

LEMMA ParsesGrow ==
    ASSUME NEW runs, NEW chunks, NEW versions, NEW more, versions \subseteq more,
           WholeParses(runs, chunks, versions)
    PROVE  WholeParses(runs, chunks, more)
BY Zenon DEF WholeParses

LEMMA ParsesTogether ==
    ASSUME NEW runs, NEW chunks, NEW added, NEW cited, NEW versions,
           WholeParses(runs, chunks, versions), WholeParses(added, cited, versions)
    PROVE  WholeParses(runs \cup added, chunks \cup cited, versions)
<1>1. ASSUME NEW r \in runs \cup added
      PROVE  r.text \in Seq(ToSet(r.text)) /\ \E v \in versions : VersionId(v) = r.version
  BY <1>1, Zenon DEF WholeParses
<1>2. ASSUME NEW r \in runs \cup added, NEW i \in DOMAIN r.text
      PROVE  \E c \in chunks \cup cited : c.run = RunId(r) /\ c.index = i
  <2>1. CASE r \in runs
    <3>1. PICK c \in chunks : c.run = RunId(r) /\ c.index = i
      BY <2>1, Zenon DEF WholeParses
    <3> QED BY <3>1
  <2>2. CASE r \in added
    <3>1. PICK c \in cited : c.run = RunId(r) /\ c.index = i
      BY <2>2, Zenon DEF WholeParses
    <3> QED BY <3>1
  <2> QED BY <1>2, <2>1, <2>2
<1>3. ASSUME NEW c \in chunks \cup cited
      PROVE  \E r \in runs \cup added : c.run = RunId(r) /\ c.index \in DOMAIN r.text
  BY <1>3, Zenon DEF WholeParses
<1> QED BY <1>1, <1>2, <1>3, Zenon DEF WholeParses

\* Each part of the invariant, from what the step's own session adds.
SafeStays == \A p : Safe(p) => Safe(p)'

LEMMA BytesStay ==
    ASSUME SafeStays, NEW x, BytesKept(x)
    PROVE  BytesKept(x)'
BY DEF SafeStays, BytesKept

LEMMA SourcesStep ==
    ASSUME SessionsOK, VersionsInv, SourcesKept, SafeStays, NEW s \in Sessions, NEW c, Step(s, c)
    PROVE  SourcesKept'
<1> SUFFICES ASSUME NEW r \in db'["source_documents"], HasBody(r)
             PROVE  r.rec.published \in Nat /\ BytesKept(r.rec.body)'
    BY DEF SourcesKept
<1>1. "FILING_METADATA" \in SnapshotCategories /\ RecordTables["FILING_METADATA"] = "source_documents"
  BY DEF SnapshotCategories, DataCategories, RecordTables
<1>2. IngestedRows(sess[s].tx, "FILING_METADATA")
  BY <1>1 DEF VersionsInv
<1>3. \A q \in sess[s].tx["source_documents"] : ~HasBody(q)
  BY <1>1, <1>2 DEF IngestedRows, HasBody
<1>4. r \in db["source_documents"] \/ r \in sess[s].tx["source_documents"]
  BY DocumentTables DEF Step
<1>5. r \in db["source_documents"]
  BY <1>3, <1>4
<1> QED BY <1>5, BytesStay DEF SourcesKept

LEMMA VersionsStay ==
    ASSUME SessionsOK, VersionsKept, SafeStays, NEW s \in Sessions, NEW c, Step(s, c),
           \A v \in sess'[s].tx["document_versions"] :
               /\ v \in AllRows("document_versions") \/ (v.published \in Nat /\ BytesKept(v))
               /\ \A x \in AllRows("document_versions") \cup sess'[s].tx["document_versions"] :
                     VersionId(v) = VersionId(x) => v = x
    PROVE  VersionsKept'
<1>1. \A r \in AllRows("document_versions")' :
          r \in AllRows("document_versions") \/ r \in sess'[s].tx["document_versions"]
  BY RowsStep, DocumentTables
<1>2. \A v \in AllRows("document_versions")' : v.published \in Nat /\ BytesKept(v)'
  BY <1>1, BytesStay DEF VersionsKept
<1>3. ASSUME NEW v \in AllRows("document_versions")', NEW x \in AllRows("document_versions")',
             VersionId(v) = VersionId(x)
      PROVE  v = x
  BY <1>1, <1>3 DEF VersionsKept
<1> QED BY <1>2, <1>3 DEF VersionsKept

LEMMA ParsesStay ==
    ASSUME SessionsOK, ParsesKept, NEW s \in Sessions, NEW c, Step(s, c),
           \A r \in sess'[s].tx["document_parse_runs"] :
               \A q \in AllRows("document_parse_runs") \cup sess'[s].tx["document_parse_runs"] :
                   RunId(r) = RunId(q) => r = q,
           \A r \in sess'[s].tx["document_chunks"] :
               \A q \in AllRows("document_chunks") \cup sess'[s].tx["document_chunks"] :
                   ChunkId(r) = ChunkId(q) => r = q,
           WholeParses(sess'[s].tx["document_parse_runs"], sess'[s].tx["document_chunks"],
                       db["document_versions"])
    PROVE  ParsesKept'
<1>1. /\ \A r \in AllRows("document_parse_runs")' :
            r \in AllRows("document_parse_runs") \/ r \in sess'[s].tx["document_parse_runs"]
      /\ \A r \in AllRows("document_chunks")' :
            r \in AllRows("document_chunks") \/ r \in sess'[s].tx["document_chunks"]
  BY RowsStep, DocumentTables
<1>2. ASSUME NEW r \in AllRows("document_parse_runs")', NEW q \in AllRows("document_parse_runs")',
             RunId(r) = RunId(q)
      PROVE  r = q
  BY <1>1, <1>2 DEF ParsesKept
<1>3. ASSUME NEW r \in AllRows("document_chunks")', NEW q \in AllRows("document_chunks")',
             ChunkId(r) = ChunkId(q)
      PROVE  r = q
  BY <1>1, <1>3 DEF ParsesKept
<1>4. db["document_versions"] \subseteq db'["document_versions"]
  BY StepKeepsSessions, DocumentTables
<1>5. \A runs, chunks : WholeParses(runs, chunks, db["document_versions"])
                          => WholeParses(runs, chunks, db'["document_versions"])
  BY <1>4, ParsesGrow
<1>6. \A u \in Sessions : WholeParses(sess'[u].tx["document_parse_runs"], sess'[u].tx["document_chunks"],
                                      db'["document_versions"])
  BY <1>5 DEF ParsesKept, Step
<1>7. WholeParses(db'["document_parse_runs"], db'["document_chunks"], db'["document_versions"])
  <2>1. CASE db' = db
    BY <2>1 DEF ParsesKept
  <2>2. CASE db' = [t \in Tables |-> db[t] \cup sess[s].tx[t]]
    <3>1. /\ db'["document_parse_runs"] = db["document_parse_runs"] \cup sess[s].tx["document_parse_runs"]
          /\ db'["document_chunks"] = db["document_chunks"] \cup sess[s].tx["document_chunks"]
      BY <2>2, DocumentTables
    <3>2. /\ WholeParses(db["document_parse_runs"], db["document_chunks"], db'["document_versions"])
          /\ WholeParses(sess[s].tx["document_parse_runs"], sess[s].tx["document_chunks"],
                         db'["document_versions"])
      BY <1>5 DEF ParsesKept
    <3> QED BY <3>1, <3>2, ParsesTogether
  <2> QED BY <2>1, <2>2 DEF Step
<1> QED BY <1>2, <1>3, <1>6, <1>7 DEF ParsesKept

LEMMA HitsStay ==
    ASSUME SessionsOK, HitsKept, NEW s \in Sessions, NEW c, Step(s, c),
           \A run \in sess'[s].tx["retrieval_runs"] :
               run \in AllRows("retrieval_runs") \/ \A id \in run.hits : Cites(db, run, id)
    PROVE  HitsKept'
<1>1. \A run \in AllRows("retrieval_runs")' :
          run \in AllRows("retrieval_runs") \/ run \in sess'[s].tx["retrieval_runs"]
  BY RowsStep, DocumentTables
<1>2. \A run, id : Cites(db, run, id) => Cites(db', run, id)
  <2>1. \A t \in Tables : db[t] \subseteq db'[t]
    BY StepKeepsSessions
  <2> QED BY <2>1, CitesGrows
<1>3. db'["snapshot_document_versions"] = {}
  <2>1. "snapshot_document_versions" \in Tables /\ \A cmd : "snapshot_document_versions" \notin Writes(cmd)
    BY DocumentTables DEF Writes
  <2>2. sess[s].tx["snapshot_document_versions"] = {}
    BY <2>1 DEF SessionsOK, SessionOK, Transaction
  <2> QED BY <2>1, <2>2 DEF HitsKept, Step
<1> QED BY <1>1, <1>2, <1>3 DEF HitsKept

\* Commands of other sessions keep what they know.
LEMMA OthersStay ==
    ASSUME SessionsOK, SafeStays, NEW s \in Sessions, NEW c, Step(s, c), NEW u \in Sessions, u # s,
           Registering(sess[u]), Parsing(sess[u]), Searching(sess[u])
    PROVE  (Registering(sess[u]) /\ Parsing(sess[u]) /\ Searching(sess[u]))'
<1>1. sess'[u] = sess[u]
  BY DEF Step
<1>2. /\ db["document_versions"] \subseteq db'["document_versions"]
      /\ db["document_chunks"] \subseteq db'["document_chunks"]
      /\ db["lexical_index_versions"] \subseteq db'["lexical_index_versions"]
  BY StepKeepsSessions, DocumentTables
<1>3. Registering(sess[u])'
  BY <1>1, BytesStay DEF Registering
<1>4. Parsing(sess[u])'
  BY <1>1, <1>2 DEF Parsing
<1>5. Searching(sess[u])'
  BY <1>1, <1>2 DEF Searching
<1> QED BY <1>3, <1>4, <1>5

LEMMA NoParses ==
    ASSUME NEW runs, NEW chunks, NEW versions, runs = {}, chunks = {}
    PROVE  WholeParses(runs, chunks, versions)
BY DEF WholeParses

\* A step whose session adds no document, no parse run and no search.
LEMMA CitableAside ==
    ASSUME SessionsOK, VersionsInv, CitableInv, SafeStays, NEW s \in Sessions, NEW c, Step(s, c),
           \/ sess'[s].tx = sess[s].tx
           \/ \A t \in {"document_versions", "document_parse_runs", "document_chunks", "retrieval_runs"} :
                 sess'[s].tx[t] = {},
           (Registering(sess[s]) /\ Parsing(sess[s]) /\ Searching(sess[s]))'
    PROVE  CitableInv'
<1>1. SourcesKept /\ VersionsKept /\ ParsesKept /\ HitsKept
  BY DEF CitableInv
<1>2. \A t \in {"document_versions", "document_parse_runs", "document_chunks", "retrieval_runs"} :
          \A r \in sess'[s].tx[t] : r \in AllRows(t)
  BY RowsIn
<1>3. WholeParses(sess'[s].tx["document_parse_runs"], sess'[s].tx["document_chunks"],
                  db["document_versions"])
  BY <1>1, NoParses DEF ParsesKept
<1>4. VersionsKept'
  BY <1>1, <1>2, VersionsStay DEF VersionsKept
<1>5. ParsesKept'
  BY <1>1, <1>2, <1>3, ParsesStay DEF ParsesKept
<1>6. HitsKept'
  BY <1>1, <1>2, HitsStay
<1>7. \A u \in Sessions : (Registering(sess[u]) /\ Parsing(sess[u]) /\ Searching(sess[u]))'
  BY OthersStay DEF CitableInv
<1> QED BY <1>1, <1>4, <1>5, <1>6, <1>7, SourcesStep DEF CitableInv

\* A command ends, or is another one.
LEMMA CitableForeign ==
    ASSUME SessionsOK, VersionsInv, CitableInv, SafeStays, NEW s \in Sessions, NEW c, Step(s, c),
           sess'[s] = IdleSession \/ c \notin {"register", "parse", "search"}
    PROVE  CitableInv'
<1>1. SessionOK(sess'[s]) /\ sess'[s].cmd \notin {"register", "parse", "search"}
  BY IdleSessionOK DEF Step
<1>2. (Registering(sess[s]) /\ Parsing(sess[s]) /\ Searching(sess[s]))'
  BY <1>1 DEF Registering, Parsing, Searching
<1>3. \A t \in {"document_versions", "document_parse_runs", "document_chunks", "retrieval_runs"} :
          sess'[s].tx[t] = {}
  <2>1. \A t \in {"document_versions", "document_parse_runs", "document_chunks", "retrieval_runs"} :
            t \in Tables /\ t \notin Writes(sess'[s].cmd)
    BY <1>1, DocumentTables, WritesDisjoint
  <2> QED BY <1>1, <2>1 DEF SessionOK, Transaction
<1> QED BY <1>2, <1>3, CitableAside

(***************************************************************************)
(* register-version.                                                       *)
(***************************************************************************)
LEMMA IdleSees ==
    ASSUME SessionsOK, NEW s \in Sessions, sess[s].cmd = "idle", NEW t \in Tables
    PROVE  Visible(s, t) = db[t]
<1>1. sess[s].tx[t] = {}
  BY DEF SessionsOK, SessionOK, Transaction, Writes
<1> QED BY <1>1 DEF Visible

\* A session sees of the other commands' tables what is committed.
LEMMA OtherSees ==
    ASSUME SessionsOK, NEW s \in Sessions, NEW t \in Tables, t \notin Writes(sess[s].cmd)
    PROVE  Visible(s, t) = db[t]
<1>1. sess[s].tx[t] = {}
  BY DEF SessionsOK, SessionOK, Transaction
<1> QED BY <1>1 DEF Visible

LEMMA RegisterStartKeeps ==
    ASSUME SessionsOK, VersionsInv, CitableInv, SafeStays, NEW s \in Sessions,
           NEW req \in VersionRequests, RegisterStart(s, req)
    PROVE  CitableInv'
<1>1. PICK r \in GetSourceBody(s, req.source), known \in BOOLEAN :
          Start(s, "register", "logical",
                [row |-> r, req |-> req, write |-> <<>>, result |-> "BLOCKED", known |-> known])
  BY DEF RegisterStart
<1>a. PICK work :
          work = [row |-> r, req |-> req, write |-> <<>>, result |-> "BLOCKED", known |-> known]
  OBVIOUS
<1>2. work.row = r /\ DOMAIN work = RegisterFields
  BY <1>a DEF RegisterFields
<1>3. /\ Step(s, "register") /\ sess[s].cmd = "idle"
      /\ sess'[s] = [cmd |-> "register", pc |-> "logical", tx |-> EmptyTx, work |-> work]
  BY <1>1, <1>a, StartStep DEF Phase
<1>4. r \in db["source_documents"] /\ HasBody(r)
  <2>1. Visible(s, "source_documents") = db["source_documents"]
    BY <1>3, IdleSees, DocumentTables
  <2> QED BY <2>1 DEF GetSourceBody
<1>5. r.rec.published \in Nat /\ BytesKept(r.rec.body)'
  BY <1>4, BytesStay DEF CitableInv, SourcesKept
<1>6. \A t \in {"document_versions", "document_parse_runs", "document_chunks", "retrieval_runs"} :
          sess'[s].tx[t] = {}
  BY <1>3, DocumentTables DEF EmptyTx
<1>7. (Registering(sess[s]) /\ Parsing(sess[s]) /\ Searching(sess[s]))'
  BY <1>2, <1>3, <1>5, <1>6 DEF Registering, Parsing, Searching
<1> QED BY <1>3, <1>6, <1>7, CitableAside

LEMMA LogicalDocumentKeeps ==
    ASSUME SessionsOK, VersionsInv, CitableInv, SafeStays, NEW s \in Sessions,
           GetOrCreateLogicalDocument(s)
    PROVE  CitableInv'
<1>1. /\ sess[s].cmd = "register" /\ Transaction(sess[s].tx, "register") /\ sess[s].pc = "logical"
  BY PhaseCommand DEF GetOrCreateLogicalDocument, Phase
<1>2. Registering(sess[s])
  BY DEF CitableInv
<1>3. CASE Rollback(s)
  BY <1>1, <1>3, RollbackStep, CitableForeign
<1>4. CASE ~Rollback(s)
  <2>1. PICK tx : /\ Goto(s, "register", tx, sess[s].work)
                  /\ tx = sess[s].tx \/ \E new : tx = Insert(s, "logical_documents", {new})
    BY <1>4 DEF GetOrCreateLogicalDocument
  <2>2. /\ Transaction(tx, "register")
        /\ \A t \in Tables : t # "logical_documents" => tx[t] = sess[s].tx[t]
    <3>1. "logical_documents" \in Writes("register")
      BY DEF Writes
    <3>2. \A new : /\ Transaction(Insert(s, "logical_documents", {new}), "register")
                   /\ \A t \in Tables : t # "logical_documents"
                         => Insert(s, "logical_documents", {new})[t] = sess[s].tx[t]
      BY <1>1, <3>1, InsertTransaction
    <3> QED BY <1>1, <2>1, <3>2
  <2>3. /\ Step(s, "register") /\ sess'[s].cmd = "register" /\ sess'[s].pc = "register"
        /\ sess'[s].tx = tx /\ sess'[s].work = sess[s].work
    BY <1>1, <2>1, <2>2, GotoStep DEF Phase
  <2>4. \A t \in {"document_versions", "document_parse_runs", "document_chunks", "retrieval_runs"} :
            sess'[s].tx[t] = {}
    <3>1. sess[s].tx["document_versions"] = {}
      BY <1>1, <1>2 DEF Registering
    <3>2. \A t \in {"document_parse_runs", "document_chunks", "retrieval_runs"} : sess[s].tx[t] = {}
      BY <1>1, DocumentTables DEF Transaction, Writes
    <3> QED BY <2>2, <2>3, <3>1, <3>2, DocumentTables
  <2>5. (Registering(sess[s]) /\ Parsing(sess[s]) /\ Searching(sess[s]))'
    <3>1. /\ sess[s].work.row.rec.published \in Nat /\ BytesKept(sess[s].work.row.rec.body)
          /\ DOMAIN sess[s].work = RegisterFields
      BY <1>1, <1>2 DEF Registering
    <3> QED BY <2>3, <2>4, <3>1, BytesStay DEF Registering, Parsing, Searching
  <2> QED BY <2>3, <2>4, <2>5, CitableAside
<1> QED BY <1>3, <1>4

LEMMA RegisterVersionKeeps ==
    ASSUME SessionsOK, VersionsInv, CitableInv, SafeStays, NEW s \in Sessions, RegisterVersion(s)
    PROVE  CitableInv'
<1>1. /\ sess[s].cmd = "register" /\ Transaction(sess[s].tx, "register") /\ sess[s].pc = "register"
  BY PhaseCommand DEF RegisterVersion, Phase
<1>2. PICK row, req : row = sess[s].work.row /\ req = sess[s].work.req
  OBVIOUS
<1>3. /\ row.rec.published \in Nat /\ BytesKept(row.rec.body)
      /\ sess[s].tx["document_versions"] = {} /\ DOMAIN sess[s].work = RegisterFields
  BY <1>1, <1>2 DEF CitableInv, Registering
<1>4. PICK write : write = VersionWrite(s, row, req)
  OBVIOUS
<1>5. /\ write.published = row.rec.published
      /\ write.uri = row.rec.body.uri /\ write.checksum = row.rec.body.checksum
  BY <1>4 DEF VersionWrite
<1>6. BytesKept(write)'
  <2>1. BytesKept(row.rec.body)'
    BY <1>3, BytesStay
  <2> QED BY <1>5, <2>1 DEF BytesKept, Safe
<1>7. PICK pc, work :
          /\ Goto(s, pc, sess[s].tx, work)
          /\ DOMAIN work = RegisterFields
          /\ pc = "written" \/ (pc = "version" /\ work.write = write)
  <2>1. CASE \E result : Goto(s, "written", sess[s].tx, [sess[s].work EXCEPT !.result = result])
    <3>1. PICK result : Goto(s, "written", sess[s].tx, [sess[s].work EXCEPT !.result = result])
      BY <2>1
    <3>2. PICK work : work = [sess[s].work EXCEPT !.result = result]
      OBVIOUS
    <3>3. DOMAIN work = RegisterFields
      BY <1>3, <3>2
    <3> QED BY <3>1, <3>2, <3>3
  <2>2. CASE Goto(s, "version", sess[s].tx, [sess[s].work EXCEPT !.write = write])
    <3>1. PICK work : work = [sess[s].work EXCEPT !.write = write]
      OBVIOUS
    <3>2. DOMAIN work = RegisterFields /\ work.write = write
      BY <1>3, <3>1 DEF RegisterFields
    <3> QED BY <2>2, <3>1, <3>2
  <2>3. \/ \E result : Goto(s, "written", sess[s].tx, [sess[s].work EXCEPT !.result = result])
        \/ Goto(s, "version", sess[s].tx,
                [sess[s].work EXCEPT !.write = VersionWrite(s, sess[s].work.row, sess[s].work.req)])
    BY Zenon DEF RegisterVersion
  <2> QED BY <1>2, <1>4, <2>1, <2>2, <2>3
<1>8. /\ Step(s, "register") /\ sess'[s].cmd = "register" /\ sess'[s].pc = pc
      /\ sess'[s].tx = sess[s].tx /\ sess'[s].work = work
  BY <1>1, <1>7, GotoStep DEF Phase
<1>9. (Registering(sess[s]) /\ Parsing(sess[s]) /\ Searching(sess[s]))'
  BY <1>3, <1>5, <1>6, <1>7, <1>8 DEF Registering, Parsing, Searching
<1> QED BY <1>8, <1>9, CitableAside

LEMMA AcquireVersionKeeps ==
    ASSUME SessionsOK, VersionsInv, CitableInv, SafeStays, NEW s \in Sessions, AcquireVersion(s)
    PROVE  CitableInv'
<1>1. /\ sess[s].cmd = "register" /\ Transaction(sess[s].tx, "register") /\ sess[s].pc = "version"
  BY PhaseCommand DEF AcquireVersion, Phase
<1>2. PICK write : write = sess[s].work.write
  OBVIOUS
<1>3. /\ write.published \in Nat /\ BytesKept(write)
      /\ sess[s].tx["document_versions"] = {} /\ DOMAIN sess[s].work = RegisterFields
  BY <1>1, <1>2 DEF CitableInv, Registering
<1>4. CASE Rollback(s)
  BY <1>1, <1>4, RollbackStep, CitableForeign
<1>5. CASE ~Rollback(s)
  <2>1. PICK tx, result :
            /\ Goto(s, "written", tx, [sess[s].work EXCEPT !.result = result])
            /\ \/ tx = sess[s].tx
               \/ /\ tx = Insert(s, "document_versions", {write})
                  /\ \A v \in db["document_versions"] : ~SameVersionKey(v, write)
                  /\ \A v \in Pending(s, "document_versions") : ~SameVersionKey(v, write)
    <3>1. \/ \E result : Goto(s, "written", sess[s].tx, [sess[s].work EXCEPT !.result = result])
          \/ /\ \E result : Goto(s, "written", Insert(s, "document_versions", {sess[s].work.write}),
                                 [sess[s].work EXCEPT !.result = result])
             /\ {v \in db["document_versions"] : SameVersionKey(v, sess[s].work.write)} = {}
             /\ \A v \in Pending(s, "document_versions") : ~SameVersionKey(v, sess[s].work.write)
      BY <1>5, Zenon DEF AcquireVersion
    <3>2. {v \in db["document_versions"] : SameVersionKey(v, write)} = {}
             => \A v \in db["document_versions"] : ~SameVersionKey(v, write)
      OBVIOUS
    <3> QED BY <1>2, <3>1, <3>2, Zenon
  <2>a. PICK work : work = [sess[s].work EXCEPT !.result = result]
    OBVIOUS
  <2>2. DOMAIN work = RegisterFields
    BY <1>3, <2>a
  <2>3. /\ Transaction(tx, "register")
        /\ \A t \in Tables : t # "document_versions" => tx[t] = sess[s].tx[t]
        /\ tx["document_versions"] \subseteq {write}
    <3>1. "document_versions" \in Writes("register")
      BY DEF Writes
    <3>2. /\ Transaction(Insert(s, "document_versions", {write}), "register")
          /\ \A t \in Tables : t # "document_versions"
                => Insert(s, "document_versions", {write})[t] = sess[s].tx[t]
          /\ Insert(s, "document_versions", {write})["document_versions"]
                = sess[s].tx["document_versions"] \cup {write}
      BY <1>1, <3>1, InsertTransaction
    <3> QED BY <1>1, <1>3, <2>1, <3>2
  <2>4. /\ Step(s, "register") /\ sess'[s].cmd = "register" /\ sess'[s].pc = "written"
        /\ sess'[s].tx = tx /\ sess'[s].work = work
    BY <1>1, <2>1, <2>a, <2>3, GotoStep DEF Phase
  <2>5. (Registering(sess[s]) /\ Parsing(sess[s]) /\ Searching(sess[s]))'
    BY <2>2, <2>4 DEF Registering, Parsing, Searching
  <2>6. CASE tx = sess[s].tx
    BY <2>4, <2>5, <2>6, CitableAside
  <2>7. CASE /\ \A v \in db["document_versions"] : ~SameVersionKey(v, write)
             /\ \A v \in Pending(s, "document_versions") : ~SameVersionKey(v, write)
    <3>1. \A t \in {"document_parse_runs", "document_chunks", "retrieval_runs"} : sess'[s].tx[t] = {}
      BY <1>1, <2>3, <2>4, DocumentTables DEF Transaction, Writes
    <3>2. \A x \in AllRows("document_versions") : VersionId(x) # VersionId(write)
      <4> TAKE x \in AllRows("document_versions")
      <4>1. x \in db["document_versions"] \/ x \in Pending(s, "document_versions")
        BY <1>3, RowsIn DEF Pending
      <4>2. VersionId(x) = VersionId(write) => SameVersionKey(x, write)
        BY DEF VersionId, SameVersionKey
      <4> QED BY <2>7, <4>1, <4>2
    <3>3. VersionsKept'
      <4>1. \A v \in sess'[s].tx["document_versions"] : v = write
        BY <2>3, <2>4
      <4> QED BY <1>3, <2>4, <3>2, <4>1, VersionsStay DEF CitableInv
    <3>4. ParsesKept'
      BY <2>4, <3>1, NoParses, ParsesStay DEF CitableInv
    <3>5. HitsKept'
      BY <2>4, <3>1, HitsStay DEF CitableInv
    <3>6. \A u \in Sessions : (Registering(sess[u]) /\ Parsing(sess[u]) /\ Searching(sess[u]))'
      BY <2>4, <2>5, OthersStay DEF CitableInv
    <3>7. SourcesKept'
      BY <2>4, SourcesStep DEF CitableInv
    <3> QED BY <3>3, <3>4, <3>5, <3>6, <3>7 DEF CitableInv
  <2> QED BY <2>1, <2>6, <2>7
<1> QED BY <1>4, <1>5

(***************************************************************************)
(* parse.                                                                  *)
(***************************************************************************)
LEMMA SafeReads ==
    ASSUME PayloadInv, NEW x, Safe(x)
    PROVE  ReadVerified(x.uri).error = NoError /\ ReadVerified(x.uri).bytes = x.checksum
<1>1. ValidDirectory(root, written)
  BY DEF PayloadInv, FilesOK
<1>2. PICK put : WholeBlob(root, written, put, x.uri, x.checksum)
  BY DEF Safe
<1> QED BY <1>1, <1>2, WholeReads

LEMMA ParseStartKeeps ==
    ASSUME SessionsOK, PayloadInv, VersionsInv, CitableInv, SafeStays, NEW s \in Sessions,
           NEW v \in db["document_versions"], NEW config \in ParserConfigs, ParseStart(s, v, config)
    PROVE  CitableInv'
<1>1. PICK id, work :
          /\ id = <<VersionId(v), config>>
          /\ work = [id |-> id, version |-> v, bytes |-> ReadVerified(v.uri).bytes]
  OBVIOUS
<1>2. PICK pc \in {"parsed", "written", "parse"} : Start(s, "parse", pc, work)
  BY <1>1, Zenon DEF ParseStart
<1>3. /\ Step(s, "parse") /\ sess[s].cmd = "idle" /\ db' = db
      /\ sess'[s] = [cmd |-> "parse", pc |-> pc, tx |-> EmptyTx, work |-> work]
  BY <1>2, StartStep DEF Phase
<1>4. v \in AllRows("document_versions")
  BY RowsIn
<1>5. BytesKept(v)
  BY <1>4 DEF CitableInv, VersionsKept
<1>6. ReadVerified(v.uri).bytes \in DOMAIN ParserOutput
  BY <1>5, SafeReads DEF BytesKept
<1>7. work.id = id /\ work.version = v /\ work.bytes \in DOMAIN ParserOutput
  BY <1>1, <1>6
<1>8. id[1] = VersionId(v) /\ id = <<id[1], id[2]>>
  BY <1>1
<1>9. \A t \in {"document_versions", "document_parse_runs", "document_chunks", "retrieval_runs"} :
          sess'[s].tx[t] = {}
  BY <1>3, DocumentTables DEF EmptyTx
<1>10. (Registering(sess[s]) /\ Parsing(sess[s]) /\ Searching(sess[s]))'
  BY <1>3, <1>7, <1>8, <1>9 DEF Registering, Parsing, Searching
<1> QED BY <1>3, <1>9, <1>10, CitableAside

LEMMA ReuseParseRunKeeps ==
    ASSUME SessionsOK, VersionsInv, CitableInv, SafeStays, NEW s \in Sessions, ReuseParseRun(s)
    PROVE  CitableInv'
<1>1. /\ sess[s].cmd = "parse" /\ Transaction(sess[s].tx, "parse") /\ sess[s].pc = "parsed"
  BY PhaseCommand DEF ReuseParseRun, Phase
<1>2. CASE Rollback(s)
  BY <1>1, <1>2, RollbackStep, CitableForeign
<1>3. CASE ~Rollback(s)
  <2>1. Goto(s, "written", sess[s].tx, sess[s].work)
    BY <1>3 DEF ReuseParseRun
  <2>2. /\ Step(s, "parse") /\ sess'[s].cmd = "parse" /\ sess'[s].pc = "written"
        /\ sess'[s].tx = sess[s].tx
    BY <1>1, <2>1, GotoStep DEF Phase
  <2>3. (Registering(sess[s]) /\ Parsing(sess[s]) /\ Searching(sess[s]))'
    BY <2>2 DEF Registering, Parsing, Searching
  <2> QED BY <2>2, <2>3, CitableAside
<1> QED BY <1>2, <1>3

\* The chunks of a run: one for each of its sections.
LEMMA CitedRows ==
    ASSUME NEW run, NEW version
    PROVE  /\ \A i \in DOMAIN run.text : \E c \in Cited(run, version) : c.run = RunId(run) /\ c.index = i
           /\ \A c \in Cited(run, version) : c.run = RunId(run) /\ c.index \in DOMAIN run.text
           /\ \A c, x \in Cited(run, version) : c.index = x.index => c = x
<1> DEFINE chunk(i) == [run |-> RunId(run), index |-> i, text |-> run.text[i],
                        checksum |-> <<run.text, run.meta, i>>]
           cited(i) == [run |-> RunId(run), index |-> i, text |-> run.text[i],
                        checksum |-> <<run.text, run.meta, i>>,
                        citation |-> [excerpt |-> run.text[i], text |-> run.text,
                                      document |-> version.checksum]]
<1>1. \A i : /\ cited(i).run = RunId(run) /\ cited(i).index = i
             /\ [run |-> chunk(i).run, index |-> chunk(i).index, text |-> chunk(i).text,
                 checksum |-> chunk(i).checksum,
                 citation |-> CreateCitation(chunk(i), run, version)] = cited(i)
  BY DEF CreateCitation
<1>2. Chunk(run) = {chunk(i) : i \in DOMAIN run.text}
  BY DEF Chunk
<1>3. Cited(run, version)
        = {[run |-> d.run, index |-> d.index, text |-> d.text, checksum |-> d.checksum,
            citation |-> CreateCitation(d, run, version)] : d \in Chunk(run)}
  BY DEF Cited
<1> HIDE DEF chunk, cited
<1>4. Cited(run, version) = {cited(i) : i \in DOMAIN run.text}
  BY <1>1, <1>2, <1>3
<1> QED BY <1>1, <1>4

\* A run that nobody has brings its own chunks.
LEMMA NewRunRows ==
    ASSUME SessionsOK, CitableInv, NEW s \in Sessions, NEW id,
           FindParseRun(s, id) = {}, \A r \in Pending(s, "document_parse_runs") : RunId(r) # id
    PROVE  /\ \A r \in AllRows("document_parse_runs") : RunId(r) # id
           /\ \A c \in AllRows("document_chunks") : c.run # id
<1>1. \A r \in AllRows("document_parse_runs") : RunId(r) # id
  <2> TAKE r \in AllRows("document_parse_runs")
  <2>1. r \in Visible(s, "document_parse_runs") \/ r \in Pending(s, "document_parse_runs")
    BY RowsIn DEF Visible, Pending
  <2> QED BY <2>1 DEF FindParseRun
<1>2. \A c \in AllRows("document_chunks") : c.run # id
  <2> TAKE c \in AllRows("document_chunks")
  <2>1. c \in db["document_chunks"] \/ \E u \in Sessions : c \in sess[u].tx["document_chunks"]
    BY RowsIn
  <2>2. CASE c \in db["document_chunks"]
    <3>1. PICK r \in db["document_parse_runs"] : c.run = RunId(r)
      BY <2>2, Zenon DEF CitableInv, ParsesKept, WholeParses
    <3> QED BY <1>1, <3>1, RowsIn
  <2>3. ASSUME NEW u \in Sessions, c \in sess[u].tx["document_chunks"]
        PROVE  c.run # id
    <3>1. WholeParses(sess[u].tx["document_parse_runs"], sess[u].tx["document_chunks"],
                      db["document_versions"])
      BY DEF CitableInv, ParsesKept
    <3>2. PICK r \in sess[u].tx["document_parse_runs"] : c.run = RunId(r)
      BY <2>3, <3>1, Zenon DEF WholeParses
    <3> QED BY <1>1, <3>2, RowsIn
  <2> QED BY <2>1, <2>2, <2>3
<1> QED BY <1>1, <1>2

LEMMA AcquireParseRunKeeps ==
    ASSUME SessionsOK, VersionsInv, CitableInv, SafeStays, NEW s \in Sessions, AcquireParseRun(s)
    PROVE  CitableInv'
<1>1. /\ sess[s].cmd = "parse" /\ Transaction(sess[s].tx, "parse") /\ sess[s].pc = "parse"
  BY PhaseCommand DEF AcquireParseRun, Phase
<1>2. PICK w : w = sess[s].work
  OBVIOUS
<1>3. /\ w.version \in db["document_versions"] /\ w.bytes \in DOMAIN ParserOutput
      /\ w.id[1] = VersionId(w.version) /\ w.id = <<w.id[1], w.id[2]>>
      /\ sess[s].tx["document_parse_runs"] = {} /\ sess[s].tx["document_chunks"] = {}
  BY <1>1, <1>2 DEF CitableInv, Parsing
<1>4. CASE Rollback(s)
  BY <1>1, <1>4, RollbackStep, CitableForeign
<1>5. CASE Goto(s, "parsed", sess[s].tx, w)
  <2>1. /\ Step(s, "parse") /\ sess'[s].cmd = "parse" /\ sess'[s].pc = "parsed"
        /\ sess'[s].tx = sess[s].tx
    BY <1>1, <1>5, GotoStep DEF Phase
  <2>2. (Registering(sess[s]) /\ Parsing(sess[s]) /\ Searching(sess[s]))'
    BY <1>3, <2>1 DEF Registering, Parsing, Searching
  <2> QED BY <2>1, <2>2, CitableAside
<1>6. PICK run, chunks : run = ParsedRun(w) /\ chunks = Cited(run, w.version)
  OBVIOUS
<1>7. CASE /\ FindParseRun(s, w.id) = {}
           /\ \A r \in Pending(s, "document_parse_runs") : RunId(r) # w.id
           /\ Goto(s, "written", [Insert(s, "document_parse_runs", {run}) EXCEPT
                                    !["document_chunks"] = @ \cup chunks], w)
  <2>1. PICK tx : tx = [Insert(s, "document_parse_runs", {run}) EXCEPT
                           !["document_chunks"] = @ \cup chunks]
    OBVIOUS
  <2>2. /\ Transaction(tx, "parse")
        /\ tx["document_parse_runs"] = {run} /\ tx["document_chunks"] = chunks
    <3>1. "document_parse_runs" \in Writes("parse") /\ "document_chunks" \in Writes("parse")
      BY DEF Writes
    <3>2. /\ Transaction(Insert(s, "document_parse_runs", {run}), "parse")
          /\ \A t \in Tables : t # "document_parse_runs"
                => Insert(s, "document_parse_runs", {run})[t] = sess[s].tx[t]
          /\ Insert(s, "document_parse_runs", {run})["document_parse_runs"]
                = sess[s].tx["document_parse_runs"] \cup {run}
      BY <1>1, <3>1, InsertTransaction
    <3>3. PICK base : base = Insert(s, "document_parse_runs", {run})
      OBVIOUS
    <3>4. /\ Transaction(base, "parse")
          /\ base["document_parse_runs"] = {run} /\ base["document_chunks"] = {}
      BY <1>3, <3>2, <3>3, DocumentTables
    <3>5. tx = [base EXCEPT !["document_chunks"] = base["document_chunks"] \cup chunks]
      BY <2>1, <3>3
    <3>6. /\ tx["document_parse_runs"] = {run} /\ tx["document_chunks"] = chunks /\ DOMAIN tx = Tables
          /\ \A t \in Tables : t # "document_chunks" => tx[t] = base[t]
      BY <3>4, <3>5, DocumentTables DEF Transaction
    <3> QED BY <3>1, <3>4, <3>6 DEF Transaction
  <2>3. /\ Step(s, "parse") /\ sess'[s].cmd = "parse" /\ sess'[s].pc = "written" /\ sess'[s].tx = tx
    BY <1>1, <1>7, <2>1, <2>2, GotoStep DEF Phase
  <2>4. (Registering(sess[s]) /\ Parsing(sess[s]) /\ Searching(sess[s]))'
    BY <2>3 DEF Registering, Parsing, Searching
  <2>5. /\ run.version = VersionId(w.version) /\ RunId(run) = w.id
        /\ run.text \in Seq(ToSet(run.text))
    <3>1. /\ run.version = w.id[1] /\ run.config = w.id[2]
          /\ run.text = ParserOutput[w.bytes].sections
      BY <1>6 DEF ParsedRun
    <3>2. run.text \in Seq(ToSet(run.text))
      BY <1>3, <3>1, KnowledgeAssumption
    <3>3. RunId(run) = <<w.id[1], w.id[2]>>
      BY <3>1 DEF RunId
    <3> QED BY <1>3, <3>1, <3>2, <3>3
  <2>6. /\ \A r \in AllRows("document_parse_runs") : RunId(r) # w.id
        /\ \A c \in AllRows("document_chunks") : c.run # w.id
    BY <1>7, NewRunRows
  <2>7. /\ \A i \in DOMAIN run.text : \E c \in chunks : c.run = RunId(run) /\ c.index = i
        /\ \A c \in chunks : c.run = w.id /\ c.index \in DOMAIN run.text
        /\ \A c, x \in chunks : c.index = x.index => c = x
    BY <1>6, <2>5, CitedRows
  <2>8. ParsesKept'
    <3>1. WholeParses({run}, chunks, db["document_versions"])
      BY <1>3, <2>5, <2>7 DEF WholeParses
    <3>2. \A r \in {run} : \A q \in AllRows("document_parse_runs") \cup {run} :
              RunId(r) = RunId(q) => r = q
      BY <2>5, <2>6
    <3>3. \A r \in chunks : \A q \in AllRows("document_chunks") \cup chunks :
              ChunkId(r) = ChunkId(q) => r = q
      <4>1. \A r, q : ChunkId(r) = ChunkId(q) => r.run = q.run /\ r.index = q.index
        BY DEF ChunkId
      <4> QED BY <2>6, <2>7, <4>1
    <3> QED BY <2>2, <2>3, <3>1, <3>2, <3>3, ParsesStay DEF CitableInv
  <2>9. sess'[s].tx["document_versions"] = {} /\ sess'[s].tx["retrieval_runs"] = {}
    BY <2>2, <2>3, DocumentTables DEF Transaction, Writes
  <2>10. VersionsKept'
    BY <2>3, <2>9, VersionsStay DEF CitableInv
  <2>11. HitsKept'
    BY <2>3, <2>9, HitsStay DEF CitableInv
  <2>12. \A u \in Sessions : (Registering(sess[u]) /\ Parsing(sess[u]) /\ Searching(sess[u]))'
    BY <2>3, <2>4, OthersStay DEF CitableInv
  <2>13. SourcesKept'
    BY <2>3, SourcesStep DEF CitableInv
  <2> QED BY <2>8, <2>10, <2>11, <2>12, <2>13 DEF CitableInv
<1>8. \/ Rollback(s) \/ Goto(s, "parsed", sess[s].tx, sess[s].work)
      \/ /\ FindParseRun(s, sess[s].work.id) = {}
         /\ \A r \in Pending(s, "document_parse_runs") : RunId(r) # sess[s].work.id
         /\ Goto(s, "written",
                 [Insert(s, "document_parse_runs", {ParsedRun(sess[s].work)}) EXCEPT
                    !["document_chunks"] = @ \cup Cited(ParsedRun(sess[s].work), sess[s].work.version)],
                 sess[s].work)
  BY Zenon DEF AcquireParseRun
<1> QED BY <1>2, <1>4, <1>5, <1>6, <1>7, <1>8

(***************************************************************************)
(* search.                                                                 *)
(***************************************************************************)

\* A command that writes neither versions nor parse runs finds the one
\* committed row of an identity.
LEMMA DocumentOf ==
    ASSUME SessionsOK, CitableInv, NEW s \in Sessions, sess[s].cmd \notin {"register", "parse"},
           NEW r \in db["document_parse_runs"], NEW v \in db["document_versions"],
           r.version = VersionId(v)
    PROVE  /\ VersionById(s, RunId(r)[1]) = v
           /\ (CHOOSE x \in FindParseRun(s, RunId(r)) : TRUE) = r
<1>1. /\ Visible(s, "document_versions") = db["document_versions"]
      /\ Visible(s, "document_parse_runs") = db["document_parse_runs"]
  <2>1. /\ "document_versions" \in Tables /\ "document_versions" \notin Writes(sess[s].cmd)
        /\ "document_parse_runs" \in Tables /\ "document_parse_runs" \notin Writes(sess[s].cmd)
    BY DocumentTables, WritesDisjoint
  <2> QED BY <2>1, OtherSees
<1>2. RunId(r)[1] = VersionId(v)
  BY DEF RunId
<1>3. \A x \in db["document_versions"] : VersionId(x) = VersionId(v) <=> x = v
  BY RowsIn DEF CitableInv, VersionsKept
<1>4. VersionById(s, RunId(r)[1]) = v
  BY <1>1, <1>2, <1>3 DEF VersionById
<1>5. \A x \in db["document_parse_runs"] : RunId(x) = RunId(r) <=> x = r
  BY RowsIn DEF CitableInv, ParsesKept
<1>6. FindParseRun(s, RunId(r)) = {r}
  BY <1>1, <1>5 DEF FindParseRun
<1> QED BY <1>4, <1>6

\* What a verified citation has been checked for.
LEMMA VerifiedMeans ==
    ASSUME NEW s, NEW c, NEW scope, NEW v, NEW run,
           v = VersionById(s, c.run[1]), run = CHOOSE r \in FindParseRun(s, c.run) : TRUE,
           VerifyCitation(s, c, scope, TRUE) = "VALID"
    PROVE  /\ c.citation.document = v.checksum /\ v.status # "WITHDRAWN"
           /\ scope.snapshot = 0 \/ scope.snapshot \in SnapshotIds(s, v)
           /\ v.published # 0 /\ (scope.asOf = 0 \/ ~(v.published > scope.asOf))
           /\ LocatorExists(c, run) /\ c.citation.text = run.text /\ ExcerptMatches(c, run)
BY DEF VerifyCitation

\* A verified hit is a citation that can be followed.
LEMMA VerifiedCites ==
    ASSUME SessionsOK, CitableInv, NEW s \in Sessions, sess[s].cmd = "search",
           NEW q \in SearchRequests, NEW index \in db["lexical_index_versions"],
           NEW c \in db["document_chunks"],
           \E p \in index.postings : p.chunk = ChunkId(c) /\ p.token \in q.query,
           VerifyCitation(s, c, Scope(q), TRUE) = "VALID",
           NEW run, run.request = q, run.index = <<index.id>>
    PROVE  Cites(db, run, ChunkId(c))
<1>1. WholeParses(db["document_parse_runs"], db["document_chunks"], db["document_versions"])
  BY DEF CitableInv, ParsesKept
<1>2. PICK r \in db["document_parse_runs"] : c.run = RunId(r)
  BY <1>1, Zenon DEF WholeParses
<1>3. PICK v \in db["document_versions"] : VersionId(v) = r.version
  BY <1>1, Zenon DEF WholeParses
<1>4. v = VersionById(s, c.run[1]) /\ r = CHOOSE x \in FindParseRun(s, c.run) : TRUE
  BY <1>2, <1>3, DocumentOf
<1>5. Scope(q).snapshot = q.snapshot /\ Scope(q).asOf = q.asOf
  BY DEF Scope
<1>6. /\ c.citation.document = v.checksum /\ v.status # "WITHDRAWN"
      /\ Scope(q).snapshot = 0 \/ Scope(q).snapshot \in SnapshotIds(s, v)
      /\ v.published # 0 /\ (Scope(q).asOf = 0 \/ ~(v.published > Scope(q).asOf))
      /\ LocatorExists(c, r) /\ c.citation.text = r.text /\ ExcerptMatches(c, r)
  BY <1>4, VerifiedMeans, ZenonT(30)
<1>7. SnapshotIds(s, v) = {}
  <2>1. "snapshot_document_versions" \in Tables /\ "snapshot_document_versions" \notin Writes("search")
    BY DocumentTables DEF Writes
  <2>2. Visible(s, "snapshot_document_versions") = {}
    BY <2>1, OtherSees DEF CitableInv, HitsKept
  <2> QED BY <2>2 DEF SnapshotIds
<1>8. q.snapshot = 0 /\ q.asOf # 0 /\ q.asOf \in Nat
  BY <1>5, <1>6, <1>7, KnowledgeAssumption
<1>9. v.published \in Nat
  BY RowsIn DEF CitableInv, VersionsKept
<1>10. v.published \in 1..q.asOf
  BY <1>5, <1>6, <1>8, <1>9
<1>11. \E x \in db["document_chunks"], y \in db["document_parse_runs"], z \in db["document_versions"] :
          /\ ChunkId(x) = ChunkId(c) /\ x.run = RunId(y) /\ y.version = VersionId(z)
          /\ z.status # "WITHDRAWN" /\ z.published \in 1..run.request.asOf
          /\ x.citation.document = z.checksum /\ x.citation.text = y.text
          /\ LocatorExists(x, y) /\ ExcerptMatches(x, y)
  BY <1>2, <1>3, <1>6, <1>10, Zenon
<1> QED BY <1>8, <1>11, Zenon DEF Cites

LEMMA SearchStartKeeps ==
    ASSUME SessionsOK, VersionsInv, CitableInv, SafeStays, NEW s \in Sessions,
           NEW q \in SearchRequests, SearchStart(s, q)
    PROVE  CitableInv'
<1>1. PICK index \in FindLexicalIndex(s, Scope(q)) :
          Start(s, "search", "retrieve", [q |-> q, index |-> index, hits |-> {}])
  BY DEF SearchStart
<1>2. PICK work : work = [q |-> q, index |-> index, hits |-> {}]
  OBVIOUS
<1>3. work.q = q /\ work.index = index /\ DOMAIN work = SearchFields
  BY <1>2 DEF SearchFields
<1>4. /\ Step(s, "search") /\ sess[s].cmd = "idle" /\ db' = db
      /\ sess'[s] = [cmd |-> "search", pc |-> "retrieve", tx |-> EmptyTx, work |-> work]
  BY <1>1, <1>2, StartStep DEF Phase
<1>5. index \in db["lexical_index_versions"]
  <2>1. Visible(s, "lexical_index_versions") = db["lexical_index_versions"]
    BY <1>4, IdleSees, DocumentTables
  <2> QED BY <2>1 DEF FindLexicalIndex
<1>6. \A t \in {"document_versions", "document_parse_runs", "document_chunks", "retrieval_runs"} :
          sess'[s].tx[t] = {}
  BY <1>4, DocumentTables DEF EmptyTx
<1>7. (Registering(sess[s]) /\ Parsing(sess[s]) /\ Searching(sess[s]))'
  BY <1>3, <1>4, <1>5 DEF Registering, Parsing, Searching
<1> QED BY <1>4, <1>6, <1>7, CitableAside

LEMMA SearchRetrieveKeeps ==
    ASSUME SessionsOK, VersionsInv, CitableInv, SafeStays, NEW s \in Sessions, SearchRetrieve(s)
    PROVE  CitableInv'
<1>1. /\ sess[s].cmd = "search" /\ Transaction(sess[s].tx, "search")
  BY PhaseCommand DEF SearchRetrieve, Phase
<1>2. PICK w, found : w = sess[s].work /\ found = LexicalSearch(s, w.index, w.q)
  OBVIOUS
<1>3. /\ DOMAIN w = SearchFields
      /\ w.q \in SearchRequests /\ w.index \in db["lexical_index_versions"]
  BY <1>1, <1>2 DEF CitableInv, Searching
<1>4. \A c \in found :
          /\ c \in db["document_chunks"]
          /\ \E p \in w.index.postings : p.chunk = ChunkId(c) /\ p.token \in w.q.query
  <2>1. "document_chunks" \in Tables /\ "document_chunks" \notin Writes("search")
    BY DocumentTables DEF Writes
  <2>2. Visible(s, "document_chunks") = db["document_chunks"]
    BY <1>1, <2>1, OtherSees
  <2> QED BY <1>2, <2>2 DEF LexicalSearch, ListIndexableChunks
<1>5. CASE Goto(s, "written", sess[s].tx, w)
  <2>1. /\ Step(s, "search") /\ sess'[s].cmd = "search" /\ sess'[s].pc = "written"
        /\ sess'[s].tx = sess[s].tx /\ sess'[s].work = w /\ db' = db
    BY <1>1, <1>5, GotoStep DEF Phase
  <2>2. (Registering(sess[s]) /\ Parsing(sess[s]) /\ Searching(sess[s]))'
    BY <1>3, <2>1 DEF Registering, Parsing, Searching
  <2> QED BY <2>1, <2>2, CitableAside
<1>6. ASSUME NEW top, top \subseteq found, Goto(s, "execute", sess[s].tx, [w EXCEPT !.hits = top])
      PROVE  CitableInv'
  <2>1. PICK work : work = [w EXCEPT !.hits = top]
    OBVIOUS
  <2>2. DOMAIN work = SearchFields /\ work.q = w.q /\ work.index = w.index /\ work.hits = top
    BY <1>3, <2>1 DEF SearchFields
  <2>3. /\ Step(s, "search") /\ sess'[s].cmd = "search" /\ sess'[s].pc = "execute"
        /\ sess'[s].tx = sess[s].tx /\ sess'[s].work = work /\ db' = db
    BY <1>1, <1>6, <2>1, GotoStep DEF Phase
  <2>4. \A c \in work.hits :
            /\ c \in db'["document_chunks"]
            /\ \E p \in work.index.postings : p.chunk = ChunkId(c) /\ p.token \in work.q.query
    BY <1>4, <1>6, <2>2, <2>3
  <2>5. (Registering(sess[s]) /\ Parsing(sess[s]) /\ Searching(sess[s]))'
    BY <1>3, <2>2, <2>3, <2>4 DEF Registering, Parsing, Searching
  <2> QED BY <2>3, <2>5, CitableAside
<1>7. \/ Goto(s, "written", sess[s].tx, sess[s].work)
      \/ \E k : \E top \in kSubset(k, LexicalSearch(s, sess[s].work.index, sess[s].work.q)) :
            Goto(s, "execute", sess[s].tx, [sess[s].work EXCEPT !.hits = top])
  BY Zenon DEF SearchRetrieve
<1>8. \A k : \A top \in kSubset(k, found) : top \subseteq found
  BY DEF kSubset
<1> QED BY <1>2, <1>5, <1>6, <1>7, <1>8

\* The run that a search stores.
LEMMA ExecutedHits ==
    ASSUME NEW s, NEW w
    PROVE  /\ Execute(s, w).request = w.q /\ Execute(s, w).index = GenerationId(w.q, w.index)
           /\ \A id \in Execute(s, w).hits :
                 /\ w.q.mode # "VECTOR"
                 /\ \E c \in w.hits : id = ChunkId(c) /\ VerifyCitation(s, c, Scope(w.q), TRUE) = "VALID"
<1>1. PICK found, valid :
          /\ found = Retrieve(w.q, w.hits).hits
          /\ valid = {c \in found : VerifyCitation(s, c, Scope(w.q), TRUE) = "VALID"}
  OBVIOUS
<1>2. PICK status, warnings :
          Execute(s, w) = [request |-> w.q, index |-> GenerationId(w.q, w.index), status |-> status,
                           warnings |-> warnings, hits |-> {ChunkId(c) : c \in valid}]
  BY <1>1, Zenon DEF Execute
<1>3. /\ Execute(s, w).request = w.q /\ Execute(s, w).index = GenerationId(w.q, w.index)
      /\ Execute(s, w).hits = {ChunkId(c) : c \in valid}
  BY <1>2
<1>4. CASE w.q.mode = "VECTOR"
  <2>1. Retrieve(w.q, w.hits) = [status |-> "BLOCKED", hits |-> {}, warnings |-> 1]
    BY <1>4, Zenon DEF Retrieve
  <2>2. found = {}
    BY <1>1, <2>1
  <2> QED BY <1>1, <1>3, <2>2
<1>5. CASE w.q.mode # "VECTOR"
  <2>1. \/ Retrieve(w.q, w.hits) = [status |-> "PARTIAL", hits |-> w.hits, warnings |-> 1]
        \/ Retrieve(w.q, w.hits) = [status |-> "PASS", hits |-> w.hits, warnings |-> 0]
    <3>1. CASE w.q.mode = "HYBRID"
      BY <1>5, <3>1, Zenon DEF Retrieve
    <3>2. CASE w.q.mode # "HYBRID"
      BY <1>5, <3>2, Zenon DEF Retrieve
    <3> QED BY <3>1, <3>2
  <2>2. found = w.hits
    BY <1>1, <2>1
  <2> QED BY <1>1, <1>3, <1>5, <2>2
<1> QED BY <1>4, <1>5

LEMMA SearchExecuteKeeps ==
    ASSUME SessionsOK, VersionsInv, CitableInv, SafeStays, NEW s \in Sessions, SearchExecute(s)
    PROVE  CitableInv'
<1>1. /\ sess[s].cmd = "search" /\ Transaction(sess[s].tx, "search") /\ sess[s].pc = "execute"
  BY PhaseCommand DEF SearchExecute, Phase
<1>2. PICK w, run : w = sess[s].work /\ run = Execute(s, w)
  OBVIOUS
<1>3. /\ DOMAIN w = SearchFields
      /\ w.q \in SearchRequests /\ w.index \in db["lexical_index_versions"]
      /\ \A c \in w.hits :
            /\ c \in db["document_chunks"]
            /\ \E p \in w.index.postings : p.chunk = ChunkId(c) /\ p.token \in w.q.query
  BY <1>1, <1>2 DEF CitableInv, Searching
<1>4. PICK tx : /\ Goto(s, "written", tx, w)
                /\ tx = sess[s].tx \/ tx = Insert(s, "retrieval_runs", {run})
  BY <1>2, Zenon DEF SearchExecute
<1>5. /\ Transaction(tx, "search") /\ \A r \in tx["retrieval_runs"] : r \in sess[s].tx["retrieval_runs"] \/ r = run
  <2>1. "retrieval_runs" \in Writes("search")
    BY DocumentTables
  <2>2. /\ Transaction(Insert(s, "retrieval_runs", {run}), "search")
        /\ Insert(s, "retrieval_runs", {run})["retrieval_runs"] = sess[s].tx["retrieval_runs"] \cup {run}
    BY <1>1, <2>1, InsertTransaction
  <2> QED BY <1>1, <1>4, <2>2
<1>6. /\ Step(s, "search") /\ sess'[s].cmd = "search" /\ sess'[s].pc = "written"
      /\ sess'[s].tx = tx /\ sess'[s].work = w /\ db' = db
  BY <1>1, <1>4, <1>5, GotoStep DEF Phase
<1>7. (Registering(sess[s]) /\ Parsing(sess[s]) /\ Searching(sess[s]))'
  BY <1>3, <1>6 DEF Registering, Parsing, Searching
<1>8. \A id \in run.hits : Cites(db, run, id)
  <2> TAKE id \in run.hits
  <2>1. PICK c \in w.hits : id = ChunkId(c) /\ VerifyCitation(s, c, Scope(w.q), TRUE) = "VALID"
    BY <1>2, ExecutedHits
  <2>2. run.request = w.q /\ run.index = <<w.index.id>>
    <3>1. w.q.mode # "VECTOR" /\ run.request = w.q /\ run.index = GenerationId(w.q, w.index)
      BY <1>2, ExecutedHits
    <3> QED BY <3>1 DEF GenerationId
  <2>3. c \in db["document_chunks"] /\ \E p \in w.index.postings : p.chunk = ChunkId(c) /\ p.token \in w.q.query
    BY <1>3
  <2> QED BY <1>1, <1>3, <2>1, <2>2, <2>3, VerifiedCites
<1>9. \A t \in {"document_versions", "document_parse_runs", "document_chunks"} : sess'[s].tx[t] = {}
  BY <1>5, <1>6, DocumentTables DEF Transaction, Writes
<1>10. VersionsKept'
  BY <1>6, <1>9, VersionsStay DEF CitableInv
<1>11. ParsesKept'
  <2>1. WholeParses(sess'[s].tx["document_parse_runs"], sess'[s].tx["document_chunks"],
                    db["document_versions"])
    BY <1>9, NoParses
  <2> QED BY <1>6, <1>9, <2>1, ParsesStay DEF CitableInv
<1>12. HitsKept'
  BY <1>5, <1>6, <1>8, RowsIn, HitsStay DEF CitableInv
<1>13. \A u \in Sessions : (Registering(sess[u]) /\ Parsing(sess[u]) /\ Searching(sess[u]))'
  BY <1>6, <1>7, OthersStay DEF CitableInv
<1>14. SourcesKept'
  BY <1>6, SourcesStep DEF CitableInv
<1> QED BY <1>10, <1>11, <1>12, <1>13, <1>14 DEF CitableInv

LEMMA KnowledgeKeeps ==
    ASSUME SessionsOK, PayloadInv, VersionsInv, CitableInv, SafeStays, NEW s \in Sessions,
           KnowledgeStep(s)
    PROVE  CitableInv'
<1>1. CASE \E q \in SearchRequests : BuildStart(s, Scope(q))
  <2>1. \E work : Start(s, "build", "index", work)
    BY <1>1 DEF BuildStart
  <2>2. Step(s, "build")
    BY <2>1, StartStep DEF Phase
  <2> QED BY <2>2, CitableForeign
<1>2. CASE PersistLexicalIndex(s)
  <2>1. sess[s].cmd = "build" /\ Transaction(sess[s].tx, "build")
    BY <1>2, PhaseCommand DEF PersistLexicalIndex, Phase
  <2>2. \A row : Transaction(Insert(s, "lexical_index_versions", {row}), "build")
    BY <2>1, InsertTransaction DEF Writes
  <2>3. \E tx, work : Goto(s, "written", tx, work) /\ Transaction(tx, "build")
    BY <1>2, <2>1, <2>2 DEF PersistLexicalIndex
  <2>4. Step(s, "build")
    BY <2>1, <2>3, GotoStep DEF Phase
  <2> QED BY <2>4, CitableForeign
<1>3. CASE KnowledgeCommit(s)
  <2>1. sess[s].cmd # "idle" /\ Commit(s)
    BY <1>3, PhaseCommand DEF KnowledgeCommit
  <2>2. Step(s, sess[s].cmd) /\ sess'[s] = IdleSession
    BY <2>1, CommitStep
  <2> QED BY <2>2, CitableForeign
<1>4. CASE \E req \in VersionRequests : RegisterStart(s, req)
  BY <1>4, RegisterStartKeeps
<1>5. CASE \E v \in db["document_versions"], config \in ParserConfigs : ParseStart(s, v, config)
  BY <1>5, ParseStartKeeps
<1>6. CASE \E q \in SearchRequests : SearchStart(s, q)
  BY <1>6, SearchStartKeeps
<1> QED BY <1>1, <1>2, <1>3, <1>4, <1>5, <1>6, LogicalDocumentKeeps, RegisterVersionKeeps,
           AcquireVersionKeeps, AcquireParseRunKeeps, ReuseParseRunKeeps, SearchRetrieveKeeps,
           SearchExecuteKeeps DEF KnowledgeStep

\* A step of the directory alone.
LEMMA CitableSame ==
    ASSUME CitableInv, SafeStays, UNCHANGED <<db, sess>>
    PROVE  CitableInv'
<1>1. \A t : AllRows(t)' = AllRows(t)
  BY DEF AllRows
<1>2. SourcesKept'
  BY BytesStay DEF CitableInv, SourcesKept
<1>3. VersionsKept'
  BY <1>1, BytesStay DEF CitableInv, VersionsKept
<1>4. ParsesKept'
  BY <1>1 DEF CitableInv, ParsesKept
<1>5. HitsKept'
  BY <1>1 DEF CitableInv, HitsKept
<1>6. \A u \in Sessions : (Registering(sess[u]) /\ Parsing(sess[u]) /\ Searching(sess[u]))'
  <2> TAKE u \in Sessions
  <2>1. sess'[u] = sess[u] /\ Registering(sess[u]) /\ Parsing(sess[u]) /\ Searching(sess[u])
    BY DEF CitableInv
  <2>2. Registering(sess[u])'
    BY <2>1, BytesStay DEF Registering
  <2> QED BY <2>1, <2>2 DEF Parsing, Searching
<1> QED BY <1>2, <1>3, <1>4, <1>5, <1>6 DEF CitableInv

LEMMA CitableStep ==
    ASSUME PipelineOK, PayloadInv, VersionsInv, CitableInv, [Next]_vars
    PROVE  CitableInv'
<1> USE DEF PipelineOK
<1>1. SafeStays
  BY PayloadStep DEF PayloadsKept, SafeStays
<1>2. CASE UNCHANGED dataVars
  BY <1>1, <1>2, CitableSame DEF dataVars
<1>3. \A c : \A s \in Sessions : Step(s, c) /\ c \notin {"register", "parse", "search"} => CitableInv'
  BY <1>1, CitableForeign
<1>4. CASE Next
  <2>1. PICK s \in Sessions : SecuritiesStep(s) \/ DataStep(s) \/ FinancialsStep(s) \/ KnowledgeStep(s)
    BY <1>4 DEF Next
  <2>2. CASE SecuritiesStep(s)
    <3>1. Step(s, "seed-master") \/ Step(s, "resolve")
      BY <2>2, SeedMasterSteps, ResolveSteps DEF SecuritiesStep, Quiet
    <3> QED BY <1>3, <3>1
  <2>3. CASE FinancialsStep(s)
    BY <1>3, <2>3, FinancialsSteps DEF Quiet
  <2>4. CASE KnowledgeStep(s)
    BY <1>1, <2>4, KnowledgeKeeps
  <2>5. CASE DataStep(s)
    <3>1. CASE IngestAction(s)
      <4>1. UNCHANGED dataVars \/ Step(s, "ingest")
        BY <3>1, IngestStartStep, IngestBootstrapStep, IngestRunStep, IngestPutStep, IngestPersistStep,
           IngestUndoneStep, IngestFinishStep DEF IngestAction
      <4> QED BY <1>2, <1>3, <4>1
    <3>2. CASE \/ \E q \in SnapshotRequests : SnapshotStart(s, q)
               \/ GetOrCreateSnapshot(s) \/ SelectCategory(s) \/ SnapshotBuild(s) \/ SnapshotCommit(s)
      <4>1. Step(s, "snapshot")
        BY <3>2, SnapshotSteps
      <4> QED BY <1>3, <4>1
    <3>3. CASE Crash(s)
      BY <1>1, <3>3, CrashStep, CitableForeign
    <3> QED BY <1>2, <2>5, <3>1, <3>2, <3>3 DEF DataStep, IngestAction
  <2> QED BY <2>1, <2>2, <2>3, <2>4, <2>5
<1> QED BY <1>2, <1>4 DEF vars

LEMMA InitCitable == Init => CitableInv
<1> SUFFICES ASSUME NEW before \in InitialStates, DataInit(before)
             PROVE  CitableInv
    BY DEF Init
<1>1. /\ root = before.root /\ written = before.written /\ db = before.db
      /\ \A s \in Sessions : io[s] = IdleIo /\ sess[s] = IdleSession
  BY DEF DataInit, BlobInit
<1>2. ValidDocuments(db, root, written)
  BY <1>1, InitialAssumption
<1>3. \A s \in Sessions : sess[s].cmd = "idle" /\ \A t \in Tables : sess[s].tx[t] = {}
  BY <1>1, IdleSessionOK DEF EmptyTx
<1>4. \A t \in Tables : AllRows(t) = db[t]
  BY <1>3 DEF AllRows
<1>5. \A x : ValidBytes(x, root, written) => BytesKept(x)
  <2> SUFFICES ASSUME NEW x, ValidBytes(x, root, written) PROVE BytesKept(x)
      OBVIOUS
  <2>1. PICK put \in DOMAIN written : WholeBlob(root, written, put, x.uri, x.checksum)
    BY DEF ValidBytes
  <2>2. put \in 1..Len(written)
    BY <2>1 DEF WholeBlob
  <2>3. \A s \in Sessions : io[s].put # put
    BY <1>1, <2>2, IdleFields
  <2> QED BY <2>1, <2>2, <2>3 DEF BytesKept, ValidBytes, Safe
<1>6. SourcesKept
  BY <1>2, <1>5 DEF SourcesKept, ValidDocuments
<1>7. VersionsKept
  BY <1>2, <1>4, <1>5, DocumentTables DEF VersionsKept, ValidDocuments
<1>8. ParsesKept
  <2>1. \A s \in Sessions : WholeParses(sess[s].tx["document_parse_runs"], sess[s].tx["document_chunks"],
                                        db["document_versions"])
    BY <1>3, NoParses, DocumentTables
  <2> QED BY <1>2, <1>4, <2>1, DocumentTables DEF ParsesKept, ValidDocuments
<1>9. HitsKept
  BY <1>2, <1>4, DocumentTables DEF HitsKept, ValidDocuments
<1> QED BY <1>3, <1>6, <1>7, <1>8, <1>9 DEF CitableInv, Registering, Parsing, Searching

\* The citation of a passage that is there verifies, unless its document has
\* been superseded.
LEMMA CitationVerifies ==
    ASSUME NEW s, NEW c, NEW scope, NEW v, NEW run,
           v = VersionById(s, c.run[1]), run = CHOOSE r \in FindParseRun(s, c.run) : TRUE,
           ReadVerified(v.uri).error = NoError, ReadVerified(v.uri).bytes = v.checksum,
           c.citation.document = v.checksum, v.status # "WITHDRAWN", scope.snapshot = 0,
           v.published # 0, ~(v.published > scope.asOf), ~SupersededAt(s, v, scope.asOf),
           LocatorExists(c, run), c.citation.text = run.text, ExcerptMatches(c, run)
    PROVE  VerifyCitation(s, c, scope, TRUE) = "VALID"
<1>1. ValidBlob(v)
  BY DEF ValidBlob
<1> QED BY <1>1 DEF VerifyCitation

LEMMA HitCitable ==
    ASSUME SessionsOK, PayloadInv, CitableInv, NEW s \in Sessions, sess[s].cmd = "idle",
           NEW run \in db["retrieval_runs"], NEW id \in run.hits,
           NEW v, v = VersionById(s, ChunkById(id).run[1])
    PROVE  /\ v.status # "WITHDRAWN" /\ v.published \in 1..run.request.asOf
           /\ \E i \in db["lexical_index_versions"] :
                 run.index = <<i.id>> /\ \E p \in i.postings :
                     p.chunk = id /\ p.token \in run.request.query
           /\ id \in BundleForRun(s, run) \/ SupersededAt(s, v, run.request.asOf)
<1>1. Cites(db, run, id)
  BY RowsIn DEF CitableInv, HitsKept
<1>2. PICK c \in db["document_chunks"], r \in db["document_parse_runs"], x \in db["document_versions"] :
          /\ ChunkId(c) = id /\ c.run = RunId(r) /\ r.version = VersionId(x)
          /\ x.status # "WITHDRAWN" /\ x.published \in 1..run.request.asOf
          /\ c.citation.document = x.checksum /\ c.citation.text = r.text
          /\ LocatorExists(c, r) /\ ExcerptMatches(c, r)
  BY <1>1, Zenon DEF Cites
<1>3. ChunkById(id) = c
  <2>1. \A y \in db["document_chunks"] : ChunkId(y) = id <=> y = c
    BY <1>2, RowsIn DEF CitableInv, ParsesKept
  <2> QED BY <2>1 DEF ChunkById
<1>4. /\ VersionById(s, c.run[1]) = x
      /\ (CHOOSE y \in FindParseRun(s, c.run) : TRUE) = r
  BY <1>2, DocumentOf
<1>5. v = x
  BY <1>3, <1>4
<1>6. \E i \in db["lexical_index_versions"] :
          run.index = <<i.id>> /\ \E p \in i.postings : p.chunk = id /\ p.token \in run.request.query
  BY <1>1, Zenon DEF Cites
<1>7. ReadVerified(x.uri).error = NoError /\ ReadVerified(x.uri).bytes = x.checksum
  <2>1. Safe(x)
    BY RowsIn DEF CitableInv, VersionsKept, BytesKept
  <2> QED BY <2>1, SafeReads
<1>8. Scope(run.request).snapshot = 0 /\ Scope(run.request).asOf = run.request.asOf
  BY <1>1 DEF Scope, Cites
<1>9. x.published # 0 /\ ~(x.published > Scope(run.request).asOf)
  <2>1. x.published \in 1..run.request.asOf /\ run.request.asOf \in Nat
    BY <1>1, <1>2 DEF Cites
  <2> QED BY <1>8, <2>1
<1>10. ~SupersededAt(s, x, run.request.asOf) => VerifyCitation(s, c, Scope(run.request), TRUE) = "VALID"
  BY <1>2, <1>4, <1>7, <1>8, <1>9, CitationVerifies
<1>11. id \in BundleForRun(s, run) \/ SupersededAt(s, v, run.request.asOf)
  BY <1>3, <1>5, <1>10 DEF BundleForRun
<1> QED BY <1>2, <1>5, <1>6, <1>11

\* One chunk for each section, and no other.
LEMMA ParseComplete ==
    ASSUME SessionsOK, CitableInv, NEW s \in Sessions, sess[s].cmd = "idle",
           NEW run \in db["document_parse_runs"]
    PROVE  Cardinality(ChunksOf(s, run)) = Len(run.text)
<1>1. PICK S, n : S = ChunksOf(s, run) /\ n = Len(run.text)
  OBVIOUS
<1>2. S = {c \in db["document_chunks"] : c.run = RunId(run)}
  BY <1>1, IdleSees, DocumentTables DEF ChunksOf
<1>3. WholeParses(db["document_parse_runs"], db["document_chunks"], db["document_versions"])
  BY DEF CitableInv, ParsesKept
<1>4. run.text \in Seq(ToSet(run.text))
  BY <1>3, Zenon DEF WholeParses
<1>5. n \in Nat /\ DOMAIN run.text = 1..n
  BY <1>1, <1>4
<1>6. \A i \in 1..n : \E c \in S : c.index = i
  <2> TAKE i \in 1..n
  <2>1. PICK c \in db["document_chunks"] : c.run = RunId(run) /\ c.index = i
    BY <1>3, <1>5, Zenon DEF WholeParses
  <2> QED BY <1>2, <2>1
<1>7. \A c \in S : c.index \in 1..n
  <2> TAKE c \in S
  <2>1. c \in db["document_chunks"] /\ c.run = RunId(run)
    BY <1>2
  <2>2. PICK r \in db["document_parse_runs"] : c.run = RunId(r) /\ c.index \in DOMAIN r.text
    BY <1>3, <2>1, Zenon DEF WholeParses
  <2>3. r = run
    BY <2>1, <2>2, RowsIn DEF CitableInv, ParsesKept
  <2> QED BY <1>5, <2>2, <2>3
<1>8. \A c, x \in S : c.index = x.index => c = x
  <2> TAKE c, x \in S
  <2>1. c.index = x.index => ChunkId(c) = ChunkId(x)
    BY <1>2 DEF ChunkId
  <2> QED BY <1>2, <2>1, RowsIn DEF CitableInv, ParsesKept
<1>9. ExistsBijection(1..n, S)
  <2>1. PICK f : f = [i \in 1..n |-> CHOOSE c \in S : c.index = i]
    OBVIOUS
  <2>2. \A i \in 1..n : f[i] \in S /\ f[i].index = i
    BY <1>6, <2>1
  <2>3. f \in [1..n -> S] /\ DOMAIN f = 1..n
    BY <2>1, <2>2
  <2>4. IsInjective(f)
    BY <2>2, <2>3 DEF IsInjective
  <2>5. \A c \in S : \E i \in 1..n : f[i] = c
    BY <1>7, <1>8, <2>2
  <2> QED BY <2>3, <2>4, <2>5 DEF ExistsBijection, Bijection, Injection, Surjection
<1>10. IsFiniteSet(1..n) /\ Cardinality(1..n) = n
  BY <1>5, FS_Interval
<1> QED BY <1>1, <1>9, <1>10, FS_Bijection

\* What a stored search found stays evidence: each hit is a passage of a
\* parsed document that was published by the search's cutoff and never
\* withdrawn, that the named index lists under a word of the query, and
\* whose citation verifies against the stored bytes at any later time,
\* unless a newer version of the document has retired it; and every parsed
\* document has the citations of all of its sections, however the commands
\* that register, parse, index and search interleave
\* (DocumentVersionService, DocumentParseService, RetrievalExecutionService,
\* CitationVerifier).
THEOREM HitsStayCitable == Spec => []EvidenceCitable
<1>1. PipelineOK /\ PayloadInv /\ VersionsInv /\ CitableInv /\ [Next]_vars
        => PipelineOK' /\ PayloadInv' /\ VersionsInv' /\ CitableInv'
  BY PipelineStep, PayloadStep, VersionsStep, CitableStep DEF PayloadsKept
<1>2. PipelineOK /\ PayloadInv /\ CitableInv => EvidenceCitable
  BY HitCitable, ParseComplete DEF EvidenceCitable, PipelineOK
<1> QED BY <1>1, <1>2, InitPipeline, InitPayloads, InitVersions, InitCitable, PTL DEF Spec

(***************************************************************************)
(* Financial facts and the metrics of a snapshot.                          *)
(*                                                                         *)
(* The facts of a snapshot are stored all at once, by the first normalize  *)
(* command that commits: one that comes later finds them all, whatever     *)
(* ids it would have given, and one that ran at the same time fails.       *)
(***************************************************************************)
\* A normalize command has the rows of the whole snapshot, and found all of
\* the stored ones or none; what it wrote is still missing.
Normalizing(d, x) ==
    x.cmd = "normalize" =>
        /\ WholeNormalization(d, x.work.key, x.work.rows)
        /\ x.work.stored = {} \/ x.work.stored = FactsOf(d, x.work.key)
        /\ \/ x.tx["normalized_financial_facts"] = {}
           \/ /\ x.pc = "done" /\ x.tx["normalized_financial_facts"] = x.work.rows
              /\ FactsOf(d, x.work.key) = {}

\* What a calculate command read is stored, and so are the inputs of the run
\* that it wrote.
Calculating(d, x) ==
    x.cmd = "calculate" =>
        /\ x.work.facts \subseteq FactsOf(d, x.work.key)
        /\ \A run \in x.tx["calculation_runs"] : InputsStored(d, run)

\* No two transactions hold facts of one snapshot.
OneNormalization ==
    \A s, u \in Sessions :
        /\ s # u /\ sess[s].cmd = "normalize" /\ sess[u].cmd = "normalize"
        /\ sess[s].tx["normalized_financial_facts"] # {} /\ sess[u].tx["normalized_financial_facts"] # {}
        => sess[s].work.key # sess[u].work.key

FactsInv ==
    /\ ValidFinancials(db) /\ db["provider_financial_facts"] \subseteq FactRows
    /\ \A s \in Sessions : Normalizing(db, sess[s]) /\ Calculating(db, sess[s])
    /\ OneNormalization

(***************************************************************************)
(* The rows of one normalization.                                          *)
(***************************************************************************)
FactColumns == {"id", "snapshot", "source", "code", "period", "value", "original", "unit", "scale",
                "currency", "nature", "derived", "restated", "published", "inputs"}

ReportedBy(f, i, key) ==
    /\ f = ReportedNormalization(i, key) /\ DOMAIN f = FactColumns
    /\ f.snapshot = key /\ f.source = i.rec.id /\ f.derived = FALSE /\ f.inputs = <<>>
QuarterColumns(q, f, before) ==
    /\ DOMAIN q = FactColumns
    /\ q.snapshot = f.snapshot /\ q.source = f.source /\ q.derived = TRUE
    /\ q.inputs = IF before = <<>> THEN <<f.source>> ELSE <<before[1].source, f.source>>
RowColumns(r, f, first) ==
    /\ r.id = FactId(f.source, f.derived, first)
    /\ r.snapshot = f.snapshot /\ r.source = f.source /\ r.derived = f.derived
    /\ DOMAIN r.inputs = DOMAIN f.inputs
    /\ \A n \in DOMAIN f.inputs : r.inputs[n] = FactId(f.inputs[n], FALSE, first)

LEMMA ReportedColumns ==
    ASSUME NEW i, NEW key
    PROVE  ReportedBy(ReportedNormalization(i, key), i, key)
BY DEF ReportedNormalization, FactColumns, ReportedBy

LEMMA DerivedColumns ==
    ASSUME NEW f, NEW before, DOMAIN f = FactColumns
    PROVE  QuarterColumns(DerivedQuarter(f, before), f, before)
BY DEF DerivedQuarter, FactColumns, QuarterColumns

LEMMA IdentifiedColumns ==
    ASSUME NEW f, NEW first, DOMAIN f = FactColumns
    PROVE  RowColumns(Identified(f, first), f, first)
BY DEF Identified, FactColumns, RowColumns

LEMMA PrecedingReported ==
    ASSUME NEW f, NEW reported
    PROVE  \/ Preceding(f, reported) = <<>>
           \/ \E g \in reported : Preceding(f, reported) = <<g>>
<1> DEFINE before == {g \in CumulativeGroup(f, reported) : EndsBefore(g, f)}
           last == {g \in before : \A h \in before : h = g \/ EndsBefore(h, g)}
<1>1. last \subseteq reported
  BY DEF CumulativeGroup
<1>2. Preceding(f, reported) = IF last = {} THEN <<>> ELSE <<CHOOSE g \in last : TRUE>>
  BY DEF Preceding
<1> HIDE DEF last
<1>3. last # {} => (CHOOSE g \in last : TRUE) \in last
  OBVIOUS
<1> QED BY <1>1, <1>2, <1>3

\* Two ids are the same only of the same source and the same kind of fact.
LEMMA FactIdDiffers ==
    ASSUME NEW a \in Nat, NEW b \in Nat, NEW x \in BOOLEAN, NEW y \in BOOLEAN, NEW first \in BOOLEAN,
           FactId(a, x, first) = FactId(b, y, first)
    PROVE  a = b /\ x = y
<1>1. PICK m, n : /\ m = (IF x = first THEN 0 ELSE 1) /\ n = (IF y = first THEN 0 ELSE 1)
  OBVIOUS
<1>2. m \in {0, 1} /\ n \in {0, 1} /\ (m = n => x = y)
  BY <1>1
<1>3. 2 * a + m = 2 * b + n
  BY <1>1 DEF FactId
<1> QED BY <1>2, <1>3

\* A fact is reported by an eligible item, or is the quarter derived from one
\* that is; and its inputs are reported facts.
LEMMA ReportedItem ==
    ASSUME NEW snapshot, NEW key, NEW f \in ReportedFacts(snapshot, key)
    PROVE  \E i \in ListSnapshotFinancialFacts(snapshot) :
              ReportedBy(f, i, key) /\ NormalizableFact(i, key[1])
<1>1. PICK i \in ListSnapshotFinancialFacts(snapshot) :
          f = ReportedNormalization(i, key) /\ NormalizableFact(i, key[1])
  BY DEF ReportedFacts
<1>2. ReportedBy(f, i, key)
  BY <1>1, ReportedColumns, Zenon
<1> QED BY <1>1, <1>2, Zenon

QuarterOf(f, snapshot, key) == DerivedQuarter(f, Preceding(f, ReportedFacts(snapshot, key)))
FactOf(f, g, snapshot, key) ==
    /\ f.source = g.source /\ f.snapshot = key /\ DOMAIN f = FactColumns
    /\ (f = g /\ f.derived = FALSE) \/ (f = QuarterOf(g, snapshot, key) /\ f.derived = TRUE)
    /\ \A n \in DOMAIN f.inputs :
          \E h \in ReportedFacts(snapshot, key) : f.inputs[n] = h.source

LEMMA FactKinds ==
    ASSUME NEW snapshot, NEW key, NEW f \in NormalizedFacts(snapshot, key)
    PROVE  \E g \in ReportedFacts(snapshot, key) : FactOf(f, g, snapshot, key)
<1>1. PICK R : R = ReportedFacts(snapshot, key)
  OBVIOUS
<1>2. f \in R \/ f \in DeriveCumulativeQuarters(R)
  BY <1>1 DEF NormalizedFacts
<1>3. CASE f \in R
  <2>1. PICK i \in ListSnapshotFinancialFacts(snapshot) : ReportedBy(f, i, key)
    BY <1>1, <1>3, ReportedItem, Zenon
  <2>2. f.snapshot = key /\ DOMAIN f = FactColumns /\ f.derived = FALSE /\ f.inputs = <<>>
    BY <2>1, Zenon DEF ReportedBy
  <2>3. \A n \in DOMAIN f.inputs : \E h \in R : f.inputs[n] = h.source
    BY <2>2
  <2> QED BY <1>1, <1>3, <2>2, <2>3, Zenon DEF FactOf
<1>4. CASE f \in DeriveCumulativeQuarters(R)
  <2>1. PICK g \in R : f = DerivedQuarter(g, Preceding(g, R))
    BY <1>4 DEF DeriveCumulativeQuarters
  <2>2. PICK i \in ListSnapshotFinancialFacts(snapshot) : ReportedBy(g, i, key)
    BY <1>1, ReportedItem, Zenon
  <2>3. DOMAIN g = FactColumns /\ g.snapshot = key
    BY <2>2, Zenon DEF ReportedBy
  <2>4. PICK p : p = Preceding(g, R)
    OBVIOUS
  <2>5. f = DerivedQuarter(g, p)
    BY <2>1, <2>4
  <2>6. /\ DOMAIN f = FactColumns
        /\ f.snapshot = g.snapshot /\ f.source = g.source /\ f.derived = TRUE
        /\ f.inputs = IF p = <<>> THEN <<g.source>> ELSE <<p[1].source, g.source>>
    BY <2>3, <2>5, DerivedColumns, Zenon DEF QuarterColumns
  <2>7. p = <<>> \/ \E h \in R : p = <<h>>
    BY <2>4, PrecedingReported
  <2>8. \A n \in DOMAIN f.inputs : \E h \in R : f.inputs[n] = h.source
    <3>1. CASE p = <<>>
      BY <2>6, <3>1
    <3>2. CASE \E h \in R : p = <<h>>
      <4>1. PICK h \in R : p = <<h>>
        BY <3>2
      <4>2. f.inputs = <<h.source, g.source>>
        BY <2>6, <4>1
      <4> QED BY <4>2
    <3> QED BY <2>7, <3>1, <3>2
  <2>9. f = QuarterOf(g, snapshot, key)
    BY <1>1, <2>1, Zenon DEF QuarterOf
  <2> QED BY <1>1, <2>1, <2>3, <2>6, <2>8, <2>9, Zenon DEF FactOf
<1> QED BY <1>2, <1>3, <1>4

\* The rows of a snapshot whose items have ids of their own.
ItemsNamed(snapshot) ==
    \A i, j \in ListSnapshotFinancialFacts(snapshot) :
        i.rec.id \in Nat /\ (i.rec.id = j.rec.id => i = j)

RowFor(r, f, key, first) ==
    r = Identified(f, first) /\ DOMAIN f = FactColumns /\ r.snapshot = key /\ RowColumns(r, f, first)

LEMMA RowOf ==
    ASSUME NEW snapshot, NEW key, NEW first, NEW r \in NormalizedRows(snapshot, key, first)
    PROVE  \E f \in NormalizedFacts(snapshot, key) : RowFor(r, f, key, first)
<1>1. PICK f \in NormalizedFacts(snapshot, key) : r = Identified(f, first)
  BY DEF NormalizedRows
<1>2. PICK g \in ReportedFacts(snapshot, key) : FactOf(f, g, snapshot, key)
  BY FactKinds, Zenon
<1>3. DOMAIN f = FactColumns /\ f.snapshot = key
  BY <1>2, Zenon DEF FactOf
<1>4. RowColumns(r, f, first)
  BY <1>1, <1>3, IdentifiedColumns, Zenon
<1>5. RowFor(r, f, key, first)
  BY <1>1, <1>3, <1>4, Zenon DEF RowFor, RowColumns
<1> QED BY <1>1, <1>5, Zenon

\* An id names one row.
LEMMA RowsNamed ==
    ASSUME NEW snapshot, NEW key, NEW first \in BOOLEAN, ItemsNamed(snapshot),
           NEW r \in NormalizedRows(snapshot, key, first),
           NEW q \in NormalizedRows(snapshot, key, first), r.id = q.id
    PROVE  r = q
<1>1. PICK f \in NormalizedFacts(snapshot, key) : RowFor(r, f, key, first)
  BY RowOf, Zenon
<1>2. PICK g \in NormalizedFacts(snapshot, key) : RowFor(q, g, key, first)
  BY RowOf, Zenon
<1>3. PICK a \in ReportedFacts(snapshot, key) : FactOf(f, a, snapshot, key)
  BY FactKinds, Zenon
<1>4. PICK b \in ReportedFacts(snapshot, key) : FactOf(g, b, snapshot, key)
  BY FactKinds, Zenon
<1>5. PICK i \in ListSnapshotFinancialFacts(snapshot) : ReportedBy(a, i, key)
  BY ReportedItem, Zenon
<1>6. PICK j \in ListSnapshotFinancialFacts(snapshot) : ReportedBy(b, j, key)
  BY ReportedItem, Zenon
<1>7. PICK x, y : x = i.rec.id /\ y = j.rec.id
  OBVIOUS
<1>8. x \in Nat /\ y \in Nat /\ (x = y => i = j)
  BY <1>7, Zenon DEF ItemsNamed
<1>9. f.source = x /\ g.source = y
  BY <1>3, <1>4, <1>5, <1>6, <1>7, Zenon DEF FactOf, ReportedBy
<1>10. f.derived \in BOOLEAN /\ g.derived \in BOOLEAN
  <2>1. (f.derived = FALSE \/ f.derived = TRUE) /\ (g.derived = FALSE \/ g.derived = TRUE)
    BY <1>3, <1>4, Zenon DEF FactOf
  <2> QED BY <2>1, Zenon
<1>11. PICK u, v : u = f.derived /\ v = g.derived
  OBVIOUS
<1>12. FactId(x, u, first) = FactId(y, v, first)
  BY <1>1, <1>2, <1>9, <1>11, Zenon DEF RowFor, RowColumns
<1>13. x = y /\ u = v
  BY <1>8, <1>10, <1>11, <1>12, FactIdDiffers
<1>14. a = b
  BY <1>5, <1>6, <1>8, <1>13, Zenon DEF ReportedBy
<1>15. f = g
  <2>1. CASE u = FALSE
    BY <1>3, <1>4, <1>11, <1>13, <1>14, <2>1, Zenon DEF FactOf
  <2>2. CASE u = TRUE
    BY <1>3, <1>4, <1>11, <1>13, <1>14, <2>2, Zenon DEF FactOf
  <2> QED BY <1>10, <1>11, <2>1, <2>2, Zenon
<1> QED BY <1>1, <1>2, <1>15, Zenon DEF RowFor

\* A second normalization of the snapshot has the same facts.
LEMMA RowsAgain ==
    ASSUME NEW snapshot, NEW key, NEW first, NEW again,
           NEW r \in NormalizedRows(snapshot, key, first)
    PROVE  \E q \in NormalizedRows(snapshot, key, again) : SameFact(r, q)
<1>1. PICK f \in NormalizedFacts(snapshot, key) : RowFor(r, f, key, first)
  BY RowOf, Zenon
<1>2. PICK q : q = Identified(f, again)
  OBVIOUS
<1>3. q \in NormalizedRows(snapshot, key, again)
  BY <1>2 DEF NormalizedRows
<1>4. PICK g \in ReportedFacts(snapshot, key) : FactOf(f, g, snapshot, key)
  BY FactKinds, Zenon
<1>5. f.snapshot = key /\ DOMAIN f = FactColumns
  BY <1>4, Zenon DEF FactOf
<1>6. q.snapshot = f.snapshot /\ q.source = f.source /\ q.derived = f.derived
  BY <1>2, <1>5, IdentifiedColumns, Zenon DEF RowColumns
<1> QED BY <1>1, <1>3, <1>5, <1>6, Zenon DEF SameFact, RowFor, RowColumns

\* A row leads to an item of the snapshot that was published by its cutoff,
\* and so does each row that it names.
SourcedIn(f, snapshot, key) ==
    \E i \in snapshot.items : /\ i.category = "FINANCIAL_FACTS" /\ i.rec.id = f.source
                              /\ i.rec.published # 0 /\ i.rec.published <= key[1]

LEMMA RowSourced ==
    ASSUME NEW snapshot, NEW key, NEW first, NEW r \in NormalizedRows(snapshot, key, first)
    PROVE  SourcedIn(r, snapshot, key)
<1>1. PICK f \in NormalizedFacts(snapshot, key) : RowFor(r, f, key, first)
  BY RowOf, Zenon
<1>2. PICK g \in ReportedFacts(snapshot, key) : FactOf(f, g, snapshot, key)
  BY FactKinds, Zenon
<1>3. PICK i \in ListSnapshotFinancialFacts(snapshot) :
          ReportedBy(g, i, key) /\ NormalizableFact(i, key[1])
  BY ReportedItem, Zenon
<1>4. r.source = i.rec.id
  BY <1>1, <1>2, <1>3, Zenon DEF RowFor, RowColumns, FactOf, ReportedBy
<1>5. i \in snapshot.items /\ i.category = "FINANCIAL_FACTS"
  BY DEF ListSnapshotFinancialFacts
<1>6. i.rec.published # 0 /\ i.rec.published <= key[1]
  BY <1>3, Zenon DEF NormalizableFact, EligibleFact
<1> QED BY <1>4, <1>5, <1>6, Zenon DEF SourcedIn

LEMMA RowInputs ==
    ASSUME NEW snapshot, NEW key, NEW first, NEW r \in NormalizedRows(snapshot, key, first),
           NEW n \in DOMAIN r.inputs
    PROVE  \E q \in NormalizedRows(snapshot, key, first) : q.id = r.inputs[n]
<1>1. PICK f \in NormalizedFacts(snapshot, key) : RowFor(r, f, key, first)
  BY RowOf, Zenon
<1>2. PICK g \in ReportedFacts(snapshot, key) : FactOf(f, g, snapshot, key)
  BY FactKinds, Zenon
<1>3. n \in DOMAIN f.inputs /\ r.inputs[n] = FactId(f.inputs[n], FALSE, first)
  BY <1>1, Zenon DEF RowFor, RowColumns
<1>4. PICK h \in ReportedFacts(snapshot, key) : f.inputs[n] = h.source
  BY <1>2, <1>3, Zenon DEF FactOf
<1>5. PICK i \in ListSnapshotFinancialFacts(snapshot) : ReportedBy(h, i, key)
  BY ReportedItem, Zenon
<1>6. DOMAIN h = FactColumns /\ h.derived = FALSE
  BY <1>5, Zenon DEF ReportedBy
<1>7. PICK q : q = Identified(h, first)
  OBVIOUS
<1>8. q.id = FactId(h.source, FALSE, first)
  BY <1>6, <1>7, IdentifiedColumns, Zenon DEF RowColumns
<1>9. h \in NormalizedFacts(snapshot, key)
  BY DEF NormalizedFacts
<1>10. q \in NormalizedRows(snapshot, key, first)
  BY <1>7, <1>9 DEF NormalizedRows
<1> QED BY <1>3, <1>4, <1>8, <1>10, Zenon

\* The facts of a finite snapshot are finitely many.
LEMMA RowsFinite ==
    ASSUME NEW snapshot, NEW key, NEW first, IsFiniteSet(ListSnapshotFinancialFacts(snapshot))
    PROVE  IsFiniteSet(NormalizedRows(snapshot, key, first))
<1>1. PICK R : R = ReportedFacts(snapshot, key)
  OBVIOUS
<1>2. IsFiniteSet(R)
  <2>1. PICK I : I = {j \in ListSnapshotFinancialFacts(snapshot) : NormalizableFact(j, key[1])}
    OBVIOUS
  <2>2. IsFiniteSet(I)
    BY <2>1, FS_Subset
  <2>3. R = {ReportedNormalization(i, key) : i \in I}
    BY <1>1, <2>1, Zenon DEF ReportedFacts
  <2>4. PICK m : m = [i \in I |-> ReportedNormalization(i, key)]
    OBVIOUS
  <2>5. m \in Surjection(I, R)
    BY <2>3, <2>4 DEF Surjection
  <2> QED BY <2>2, <2>5, FS_Surjection
<1>3. PICK D : D = DeriveCumulativeQuarters(R)
  OBVIOUS
<1>4. IsFiniteSet(D)
  <2>1. PICK Q : Q = {g \in R : /\ g.nature = "DURATION" /\ g.period.cumulative
                               /\ DeaccumulateQuarter(g, Preceding(g, R))}
    OBVIOUS
  <2>2. IsFiniteSet(Q)
    BY <1>2, <2>1, FS_Subset
  <2>3. D = {DerivedQuarter(f, Preceding(f, R)) : f \in Q}
    BY <1>3, <2>1, Zenon DEF DeriveCumulativeQuarters
  <2>4. PICK m : m = [f \in Q |-> DerivedQuarter(f, Preceding(f, R))]
    OBVIOUS
  <2>5. m \in Surjection(Q, D)
    BY <2>3, <2>4 DEF Surjection
  <2> QED BY <2>2, <2>5, FS_Surjection
<1>5. PICK N : N = NormalizedFacts(snapshot, key)
  OBVIOUS
<1>6. IsFiniteSet(N)
  <2>1. N = R \cup D
    BY <1>1, <1>3, <1>5 DEF NormalizedFacts
  <2> QED BY <1>2, <1>4, <2>1, FS_Union
<1>7. PICK T : T = NormalizedRows(snapshot, key, first)
  OBVIOUS
<1>8. T = {Identified(f, first) : f \in N}
  BY <1>5, <1>7, Zenon DEF NormalizedRows
<1>9. PICK m : m = [f \in N |-> Identified(f, first)]
  OBVIOUS
<1>10. m \in Surjection(N, T)
  BY <1>8, <1>9 DEF Surjection
<1> QED BY <1>6, <1>7, <1>10, FS_Surjection

\* What a stored snapshot holds of them.
LEMMA SnapshotFacts ==
    ASSUME ValidEvidence(db), db["provider_financial_facts"] \subseteq FactRows,
           NEW snapshot \in db["data_snapshots"]
    PROVE  ItemsNamed(snapshot) /\ IsFiniteSet(ListSnapshotFinancialFacts(snapshot))
<1>1. PICK I, P : I = ListSnapshotFinancialFacts(snapshot) /\ P = db["provider_financial_facts"]
  OBVIOUS
<1>2. "FINANCIAL_FACTS" \in SnapshotCategories /\ RecordTables["FINANCIAL_FACTS"] = "provider_financial_facts"
  BY DEF SnapshotCategories, DataCategories, RecordTables
<1>3. IsFiniteSet(P)
  BY <1>1, <1>2 DEF ValidEvidence, ValidRows
<1>4. I \subseteq P
  <2>1. ValidSnapshot(db, snapshot)
    BY DEF ValidEvidence
  <2>2. \A i \in snapshot.items : i.category = "FINANCIAL_FACTS" => i \in P
    BY <1>1, <1>2, <2>1 DEF ValidSnapshot, ValidItem
  <2> QED BY <1>1, <2>2 DEF ListSnapshotFinancialFacts
<1>5. \A i, j \in I : i.rec.id \in Nat /\ (i.rec.id = j.rec.id => i = j)
  BY <1>1, <1>4, FactRowsAssumption, Zenon
<1>6. IsFiniteSet(I)
  BY <1>3, <1>4, FS_Subset
<1> QED BY <1>1, <1>5, <1>6, Zenon DEF ItemsNamed

(***************************************************************************)
(* The facts that a metric is calculated from.                             *)
(***************************************************************************)
BoundTo(bound, facts) == \A role \in DOMAIN bound : bound[role] \in facts

LEMMA LastFacts ==
    ASSUME NEW facts, NEW n
    PROVE  FromLast(facts, n) \subseteq facts
BY DEF FromLast

LEMMA TheOne ==
    ASSUME NEW S, S # {}
    PROVE  The(S) \in S
BY Zenon DEF The

LEMMA NothingBound == ASSUME NEW facts PROVE BoundTo(<<>>, facts)
BY DEF BoundTo

LEMMA TtmBound ==
    ASSUME NEW facts, NEW code
    PROVE  BoundTo(BindTtmInputs(facts, code), facts)
<1>1. PICK candidates : candidates = FactsForConcept(facts, code)
  OBVIOUS
<1>2. candidates \subseteq facts
  BY <1>1 DEF FactsForConcept
<1>3. PICK singles : singles = {f \in candidates : f.period.single /\ ~f.period.cumulative}
  OBVIOUS
<1>4. singles \subseteq facts
  BY <1>2, <1>3
<1>5. PICK last : last = [i \in 1..4 |-> FromLast(singles, 4 - i)]
  OBVIOUS
<1>6. \A i \in 1..4 : last[i] \subseteq facts
  BY <1>4, <1>5, LastFacts
<1>7. PICK bridges : bridges = BestBridges(BridgesOf(candidates))
  OBVIOUS
<1>8. bridges \subseteq candidates \X candidates \X candidates
  BY <1>7 DEF BestBridges, BridgesOf
<1>9. PICK index : index = [role \in ToSet(Quarters) |-> CHOOSE i \in 1..4 : Quarters[i] = role]
  OBVIOUS
<1>10. \A role \in ToSet(Quarters) : index[role] \in 1..4
  <2>1. \A role \in ToSet(Quarters) : \E i \in 1..4 : Quarters[i] = role
    <3>1. ToSet(Quarters) = {Quarters[i] : i \in DOMAIN Quarters} /\ DOMAIN Quarters = 1..4
      BY DEF ToSet, Quarters
    <3> QED BY <3>1
  <2> QED BY <1>9, <2>1
<1>11. PICK quarters : quarters = [role \in ToSet(Quarters) |-> The(last[index[role]])]
  OBVIOUS
<1>12. (\A i \in 1..4 : last[i] # {}) => BoundTo(quarters, facts)
  <2> SUFFICES ASSUME \A i \in 1..4 : last[i] # {}, NEW role \in ToSet(Quarters)
               PROVE  quarters[role] \in facts
      BY <1>11 DEF BoundTo
  <2>1. PICK i \in 1..4 : i = index[role]
    BY <1>10
  <2>2. The(last[i]) \in last[i]
    BY TheOne
  <2> QED BY <1>6, <1>11, <2>1, <2>2
<1>13. PICK best : best = The(bridges)
  OBVIOUS
<1>14. PICK bridged : bridged = [latest_fy |-> best[1], latest_ytd |-> best[2], prior_ytd |-> best[3]]
  OBVIOUS
<1>15. bridges # {} => BoundTo(bridged, facts)
  <2> SUFFICES ASSUME bridges # {} PROVE BoundTo(bridged, facts)
      OBVIOUS
  <2>1. best \in bridges
    BY <1>13, TheOne
  <2>2. best[1] \in facts /\ best[2] \in facts /\ best[3] \in facts
    BY <1>2, <1>8, <2>1
  <2>3. DOMAIN bridged = {"latest_fy", "latest_ytd", "prior_ytd"}
    BY <1>14
  <2> QED BY <1>14, <2>2, <2>3 DEF BoundTo
<1>16. quarters = [role \in ToSet(Quarters) |-> The(last[CHOOSE i \in 1..4 : Quarters[i] = role])]
  BY <1>9, <1>11
<1>17. BindTtmInputs(facts, code) =
           IF (\A i \in 1..4 : last[i] # {}) /\ QuartersAreComparable([i \in 1..4 |-> The(last[i])])
           THEN quarters ELSE IF bridges # {} THEN bridged ELSE <<>>
  BY <1>1, <1>3, <1>5, <1>7, <1>13, <1>14, <1>16 DEF BindTtmInputs
<1> QED BY <1>12, <1>15, <1>17, NothingBound

LEMMA GrowthBound ==
    ASSUME NEW facts
    PROVE  BoundTo(BindRevenueGrowth(facts), facts)
<1>1. PICK revenue : revenue = FactsForConcept(facts, "REVENUE")
  OBVIOUS
<1>2. PICK current : current = FromLast(revenue, 0)
  OBVIOUS
<1>3. PICK same : same = {f \in revenue \ current :
                            LET period == The(current).period
                            IN  /\ f.period.year = period.year - 1
                                /\ f.period.type = period.type
                                /\ f.period.quarter = period.quarter
                                /\ f.period.cumulative = period.cumulative}
  OBVIOUS
<1>4. PICK prior : prior = FromLast(same, 0)
  OBVIOUS
<1>5. current \subseteq facts /\ prior \subseteq facts
  <2>1. revenue \subseteq facts
    BY <1>1 DEF FactsForConcept
  <2>2. same \subseteq facts
    BY <1>3, <2>1
  <2> QED BY <1>2, <1>4, <2>1, <2>2, LastFacts
<1>6. PICK one : one = [current_revenue |-> The(current)]
  OBVIOUS
<1>7. PICK two : two = [current_revenue |-> The(current), prior_revenue |-> The(prior)]
  OBVIOUS
<1>8. current # {} => BoundTo(one, facts)
  <2>1. current # {} => The(current) \in facts
    BY <1>5, TheOne
  <2> QED BY <1>6, <2>1 DEF BoundTo
<1>9. current # {} /\ prior # {} => BoundTo(two, facts)
  <2>1. current # {} /\ prior # {} => The(current) \in facts /\ The(prior) \in facts
    BY <1>5, TheOne
  <2> QED BY <1>7, <2>1 DEF BoundTo
<1>10. \/ BindRevenueGrowth(facts) = <<>>
       \/ current # {} /\ BindRevenueGrowth(facts) = one
       \/ current # {} /\ prior # {} /\ BindRevenueGrowth(facts) = two
  BY <1>1, <1>2, <1>3, <1>4, <1>6, <1>7, Zenon DEF BindRevenueGrowth
<1> QED BY <1>8, <1>9, <1>10, NothingBound

LEMMA RolesBound ==
    ASSUME NEW roles, NEW facts
    PROVE  BoundTo(BindByRole(roles, facts), facts)
<1>1. PICK anchor : anchor = LatestAnchor(roles, facts)
  OBVIOUS
<1>2. PICK bound : bound = {role \in ToSet(roles) \cap DOMAIN RoleConcept :
                              RoleCandidates(role, anchor, facts) # {}}
  OBVIOUS
<1>3. BindByRole(roles, facts) = [role \in bound |-> The(RoleCandidates(role, anchor, facts))]
  BY <1>1, <1>2, Zenon DEF BindByRole
<1>4. \A role : RoleCandidates(role, anchor, facts) \subseteq facts
  <2> TAKE role
  <2>1. PICK candidates : candidates = FactsForConcept(facts, RoleConcept[role])
    OBVIOUS
  <2>2. PICK same : same = {f \in candidates : \A a \in anchor : f.period = a.period}
    OBVIOUS
  <2>3. candidates \subseteq facts /\ same \subseteq facts
    BY <2>1, <2>2 DEF FactsForConcept
  <2>4. \/ RoleCandidates(role, anchor, facts) = FromLast(candidates, 1)
        \/ RoleCandidates(role, anchor, facts) = FromLast(candidates, 0)
        \/ RoleCandidates(role, anchor, facts) = FromLast(same, 0)
    BY <2>1, <2>2, Zenon DEF RoleCandidates
  <2> QED BY <2>3, <2>4, LastFacts
<1>5. \A role \in bound : The(RoleCandidates(role, anchor, facts)) \in facts
  <2> TAKE role \in bound
  <2>1. PICK C : C = RoleCandidates(role, anchor, facts)
    OBVIOUS
  <2>2. C # {} /\ C \subseteq facts
    BY <1>2, <1>4, <2>1
  <2> QED BY <2>1, <2>2, TheOne
<1> QED BY <1>3, <1>5 DEF BoundTo

LEMMA InputsBound ==
    ASSUME NEW code, NEW facts
    PROVE  BoundTo(BindInputs(code, facts), facts)
<1>1. \/ BindInputs(code, facts) = BindTtmInputs(facts, TtmConcept[code])
      \/ BindInputs(code, facts) = BindRevenueGrowth(facts)
      \/ BindInputs(code, facts) = BindByRole(FormulaRegistry[code], facts)
  BY Zenon DEF BindInputs
<1> QED BY <1>1, TtmBound, GrowthBound, RolesBound, Zenon

\* The inputs of a run are ids of the facts that it was calculated from.
LEMMA RunInputs ==
    ASSUME NEW d, NEW key, NEW facts, facts \subseteq FactsOf(d, key)
    PROVE  InputsStored(d, CompletedCalculation(key, facts))
<1>1. PICK metrics : metrics = [code \in MetricCodes |->
                                   IF facts = {} THEN MissingMetric(code) ELSE MetricOf(code, facts)]
  OBVIOUS
<1>2. PICK run : run = CompletedCalculation(key, facts)
  OBVIOUS
<1>3. run.metrics = metrics /\ run.snapshot = key
  <2>1. run = CalculationRunOf(key, facts, metrics)
    BY <1>1, <1>2, Zenon DEF CompletedCalculation
  <2>2. CalculationRunOf(key, facts, metrics).metrics = metrics
    BY DEF CalculationRunOf
  <2>3. CalculationRunOf(key, facts, metrics).snapshot = key
    BY DEF CalculationRunOf
  <2> QED BY <2>1, <2>2, <2>3
<1>4. DOMAIN metrics = MetricCodes
  BY <1>1
<1>5. ASSUME NEW code \in MetricCodes, NEW role \in DOMAIN metrics[code].inputs
      PROVE  \E f \in FactsOf(d, key) : f.id = metrics[code].inputs[role]
  <2>1. CASE facts = {}
    <3>1. metrics[code] = MissingMetric(code)
      BY <1>1, <2>1
    <3>2. MissingMetric(code).inputs = <<>>
      BY DEF MissingMetric
    <3>3. role \in DOMAIN <<>>
      BY <1>5, <3>1, <3>2
    <3> QED BY <3>3
  <2>2. CASE facts # {}
    <3>1. metrics[code] = MetricOf(code, facts)
      BY <1>1, <2>2
    <3>2. PICK selected : selected = BindInputs(code, facts)
      OBVIOUS
    <3>3. PICK result : result = ExecuteFormula(code, FormulaInputs(selected))
      OBVIOUS
    <3>4. metrics[code] = MetricRow(code, selected, result)
      BY <3>1, <3>2, <3>3, Zenon DEF MetricOf
    <3>5. MetricRow(code, selected, result).inputs = [x \in DOMAIN selected |-> selected[x].id]
      BY DEF MetricRow
    <3>6. role \in DOMAIN selected /\ metrics[code].inputs[role] = selected[role].id
      BY <1>5, <3>4, <3>5
    <3>7. BoundTo(selected, facts)
      BY <3>2, InputsBound
    <3>8. selected[role] \in FactsOf(d, key)
      BY <3>6, <3>7 DEF BoundTo
    <3> QED BY <3>6, <3>8
  <2> QED BY <2>1, <2>2
<1>6. InputsStored(d, run)
  BY <1>3, <1>4, <1>5 DEF InputsStored
<1> QED BY <1>2, <1>6

(***************************************************************************)
(* What is stored stays in order, whichever command commits.               *)
(***************************************************************************)
LEMMA FinancialTables ==
    /\ {"normalized_financial_facts", "calculation_runs", "provider_financial_facts"} \subseteq Tables
    /\ \A c : c # "normalize" => "normalized_financial_facts" \notin Writes(c)
    /\ \A c : c # "calculate" => "calculation_runs" \notin Writes(c)
    /\ \A c : c # "snapshot" => "data_snapshots" \notin Writes(c)
<1>1. /\ "normalized_financial_facts" \in Writes("normalize") /\ "calculation_runs" \in Writes("calculate")
      /\ "provider_financial_facts" \in Writes("ingest") /\ "data_snapshots" \in Writes("snapshot")
  BY DEF Writes
<1>2. {"normalized_financial_facts", "calculation_runs", "provider_financial_facts"} \subseteq Tables
  BY TablesAssumption
<1> QED BY <1>1, <1>2, WritesDisjoint

\* A command that has rows of a table is the one that writes it.
LEMMA TableOwner ==
    ASSUME SessionsOK, NEW s \in Sessions
    PROVE  /\ sess[s].tx["normalized_financial_facts"] # {} => sess[s].cmd = "normalize"
           /\ sess[s].tx["calculation_runs"] # {} => sess[s].cmd = "calculate"
           /\ sess[s].tx["data_snapshots"] # {} => sess[s].cmd = "snapshot"
<1>1. \A t \in Tables : t \notin Writes(sess[s].cmd) => sess[s].tx[t] = {}
  BY DEF SessionsOK, SessionOK, Transaction
<1> QED BY <1>1, FinancialTables, SnapshotTable

\* The rows of a whole normalization are of its snapshot.
LEMMA RowsOfKey ==
    ASSUME NEW d, NEW key, NEW rows, WholeNormalization(d, key, rows), NEW r \in rows
    PROVE  r.snapshot = key
<1>1. PICK snapshot \in d["data_snapshots"], first \in BOOLEAN : rows = NormalizedRows(snapshot, key, first)
  BY Zenon DEF WholeNormalization
<1>2. PICK f \in NormalizedFacts(snapshot, key) : RowFor(r, f, key, first)
  BY <1>1, RowOf, Zenon
<1> QED BY <1>2, Zenon DEF RowFor

LEMMA WholeGrows ==
    ASSUME NEW d, NEW e, d["data_snapshots"] \subseteq e["data_snapshots"], NEW key, NEW rows,
           WholeNormalization(d, key, rows)
    PROVE  WholeNormalization(e, key, rows)
<1>1. PICK snapshot \in d["data_snapshots"], first \in BOOLEAN :
          SnapshotKey(snapshot) = key /\ rows = NormalizedRows(snapshot, key, first)
  BY Zenon DEF WholeNormalization
<1>2. snapshot \in e["data_snapshots"]
  OBVIOUS
<1> QED BY <1>1, <1>2, Zenon DEF WholeNormalization

\* The facts of a snapshot after a commit: the ones before it, or the first.
LEMMA FactsFiled ==
    ASSUME SessionsOK, FactsInv, NEW s \in Sessions, NEW e,
           \A t \in Tables : e[t] = db[t] \cup sess[s].tx[t], NEW key
    PROVE  \/ FactsOf(e, key) = FactsOf(db, key)
           \/ /\ sess[s].cmd = "normalize" /\ sess[s].tx["normalized_financial_facts"] # {}
              /\ key = sess[s].work.key /\ FactsOf(db, key) = {}
              /\ WholeNormalization(db, key, FactsOf(e, key))
<1>1. PICK N, T : N = db["normalized_financial_facts"] /\ T = sess[s].tx["normalized_financial_facts"]
  OBVIOUS
<1>2. e["normalized_financial_facts"] = N \cup T
  BY <1>1, FinancialTables
<1>3. FactsOf(e, key) = FactsOf(db, key) \cup {f \in T : f.snapshot = key}
  BY <1>1, <1>2 DEF FactsOf
<1>4. CASE T = {}
  BY <1>3, <1>4
<1>5. CASE T # {}
  <2>1. PICK k, rows : k = sess[s].work.key /\ rows = sess[s].work.rows
    OBVIOUS
  <2>2. sess[s].cmd = "normalize"
    BY <1>1, <1>5, TableOwner
  <2>3. Normalizing(db, sess[s])
    BY DEF FactsInv
  <2>4. WholeNormalization(db, k, rows) /\ T = rows /\ FactsOf(db, k) = {}
    BY <1>1, <1>5, <2>1, <2>2, <2>3, Zenon DEF Normalizing
  <2>5. \A f \in T : f.snapshot = k
    BY <2>4, RowsOfKey
  <2>6. CASE key = k
    <3>1. FactsOf(e, key) = rows
      BY <1>3, <2>4, <2>5, <2>6
    <3> QED BY <1>1, <1>5, <2>1, <2>2, <2>4, <2>6, <3>1
  <2>7. CASE key # k
    BY <1>3, <2>5, <2>7
  <2> QED BY <2>6, <2>7
<1> QED BY <1>4, <1>5

\* A snapshot is committed under a key that has none.
LEMMA SnapshotsUnique ==
    ASSUME SessionsOK, VersionsInv, FactsInv, NEW s \in Sessions, NEW e,
           \A t \in Tables : e[t] = db[t] \cup sess[s].tx[t],
           NEW r \in e["data_snapshots"], NEW q \in e["data_snapshots"], SnapshotKey(r) = SnapshotKey(q)
    PROVE  r = q
<1>1. PICK S, T : S = db["data_snapshots"] /\ T = sess[s].tx["data_snapshots"]
  OBVIOUS
<1>2. r \in S \cup T /\ q \in S \cup T
  BY <1>1, SnapshotTable
<1>3. r.asOf = q.asOf /\ r.version = q.version
  BY DEF SnapshotKey
<1>4. \A x, y \in S : SnapshotKey(x) = SnapshotKey(y) => x = y
  BY <1>1 DEF FactsInv, ValidFinancials
<1>5. CASE T = {}
  BY <1>2, <1>4, <1>5
<1>6. CASE T # {}
  <2>1. PICK w : w = sess[s].work
    OBVIOUS
  <2>2. sess[s].cmd = "snapshot"
    BY <1>1, <1>6, TableOwner
  <2>3. sess[s].pc \in {"acquire", "select", "sealed", "failed"}
    BY <2>2 DEF SessionsOK, SessionOK, Phase
  <2>4. Building(db, sess[s])
    BY DEF VersionsInv
  <2>5. /\ w.replay = {} /\ Allocated(db, w)
        /\ T = {FailedSnapshot(w)} \/ T = {BuiltSnapshot(w)}
    BY <1>1, <1>6, <2>1, <2>2, <2>3, <2>4 DEF Building
  <2>6. \A x \in S : ~(x.asOf = w.q.asOf /\ x.version = w.version)
    BY <1>1, <2>5 DEF Allocated, Committed
  <2>7. \A x \in T : x.asOf = w.q.asOf /\ x.version = w.version
    BY <2>5 DEF FailedSnapshot, BuiltSnapshot
  <2>8. \A x, y \in T : x = y
    BY <2>5
  <2> QED BY <1>2, <1>3, <1>4, <2>6, <2>7, <2>8
<1> QED BY <1>5, <1>6

\* What the other sessions have read and written stays true of the tables.
LEMMA CommitFinancials ==
    ASSUME SessionsOK, VersionsInv, FactsInv, NEW s \in Sessions, NEW e,
           \A t \in Tables : e[t] = db[t] \cup sess[s].tx[t]
    PROVE  /\ ValidFinancials(e) /\ e["provider_financial_facts"] \subseteq FactRows
           /\ \A u \in Sessions \ {s} : Normalizing(e, sess[u]) /\ Calculating(e, sess[u])
<1>1. db["data_snapshots"] \subseteq e["data_snapshots"]
  BY SnapshotTable
<1>2. \A key, rows : WholeNormalization(db, key, rows) => WholeNormalization(e, key, rows)
  BY <1>1, WholeGrows
<1>3. \A key : FactsOf(db, key) \subseteq FactsOf(e, key)
  BY FinancialTables DEF FactsOf
<1>4. \A run : InputsStored(db, run) => InputsStored(e, run)
  BY <1>3 DEF InputsStored
<1>5. e["provider_financial_facts"] \subseteq FactRows
  <2>1. "FINANCIAL_FACTS" \in SnapshotCategories /\ RecordTables["FINANCIAL_FACTS"] = "provider_financial_facts"
    BY DEF SnapshotCategories, DataCategories, RecordTables
  <2>2. IngestedRows(sess[s].tx, "FINANCIAL_FACTS")
    BY <2>1 DEF VersionsInv
  <2>3. sess[s].tx["provider_financial_facts"] \subseteq FactRows
    BY <2>1, <2>2 DEF IngestedRows
  <2>4. db["provider_financial_facts"] \subseteq FactRows
    BY DEF FactsInv
  <2> QED BY <2>3, <2>4, FinancialTables
<1>6. ASSUME NEW f \in e["normalized_financial_facts"]
      PROVE  WholeNormalization(e, f.snapshot, FactsOf(e, f.snapshot))
  <2>1. PICK key : key = f.snapshot
    OBVIOUS
  <2>2. f \in FactsOf(e, key)
    BY <1>6, <2>1 DEF FactsOf
  <2>3. CASE FactsOf(e, key) = FactsOf(db, key)
    <3>1. f \in db["normalized_financial_facts"]
      BY <2>2, <2>3 DEF FactsOf
    <3>2. WholeNormalization(db, key, FactsOf(db, key))
      BY <2>1, <3>1 DEF FactsInv, ValidFinancials
    <3> QED BY <1>2, <2>1, <2>3, <3>2
  <2>4. CASE WholeNormalization(db, key, FactsOf(e, key))
    BY <1>2, <2>1, <2>4
  <2> QED BY <2>3, <2>4, FactsFiled
<1>7. ASSUME NEW run \in e["calculation_runs"]
      PROVE  InputsStored(e, run)
  <2>1. run \in db["calculation_runs"] \/ run \in sess[s].tx["calculation_runs"]
    BY <1>7, FinancialTables
  <2>2. CASE run \in db["calculation_runs"]
    BY <1>4, <2>2 DEF FactsInv, ValidFinancials
  <2>3. CASE run \in sess[s].tx["calculation_runs"]
    <3>1. sess[s].cmd = "calculate" /\ Calculating(db, sess[s])
      BY <2>3, TableOwner DEF FactsInv
    <3> QED BY <1>4, <2>3, <3>1 DEF Calculating
  <2> QED BY <2>1, <2>2, <2>3
<1>8. ValidFinancials(e)
  <2>1. \A r, q \in e["data_snapshots"] : SnapshotKey(r) = SnapshotKey(q) => r = q
    BY SnapshotsUnique
  <2> QED BY <1>6, <1>7, <2>1, Zenon DEF ValidFinancials
<1>9. ASSUME NEW u \in Sessions, u # s
      PROVE  Normalizing(e, sess[u])
  <2>1. PICK x : x = sess[u]
    OBVIOUS
  <2> SUFFICES ASSUME x.cmd = "normalize" PROVE Normalizing(e, x)
      BY <2>1, Zenon DEF Normalizing
  <2>2. PICK key : key = x.work.key
    OBVIOUS
  <2>3. Normalizing(db, x)
    BY <1>9, <2>1 DEF FactsInv
  <2>4. WholeNormalization(e, key, x.work.rows)
    BY <1>2, <2>2, <2>3, Zenon DEF Normalizing
  <2>5. x.work.stored = {} \/ x.work.stored = FactsOf(e, key)
    <3>1. x.work.stored = {} \/ x.work.stored = FactsOf(db, key)
      BY <2>2, <2>3, Zenon DEF Normalizing
    <3> QED BY <3>1, FactsFiled
  <2>6. \/ x.tx["normalized_financial_facts"] = {}
        \/ /\ x.pc = "done" /\ x.tx["normalized_financial_facts"] = x.work.rows
           /\ FactsOf(e, key) = {}
    <3>1. \/ x.tx["normalized_financial_facts"] = {}
          \/ /\ x.pc = "done" /\ x.tx["normalized_financial_facts"] = x.work.rows
             /\ FactsOf(db, key) = {}
      BY <2>2, <2>3, Zenon DEF Normalizing
    <3>2. CASE x.tx["normalized_financial_facts"] = {}
      BY <3>2
    <3>3. CASE x.tx["normalized_financial_facts"] # {}
      <4>1. ~(/\ sess[s].cmd = "normalize" /\ sess[s].tx["normalized_financial_facts"] # {}
              /\ key = sess[s].work.key)
        BY <1>9, <2>1, <2>2, <3>3, Zenon DEF FactsInv, OneNormalization
      <4>2. FactsOf(e, key) = FactsOf(db, key)
        BY <4>1, FactsFiled
      <4> QED BY <3>1, <3>3, <4>2
    <3> QED BY <3>2, <3>3
  <2> QED BY <2>2, <2>4, <2>5, <2>6, Zenon DEF Normalizing
<1>10. ASSUME NEW u \in Sessions, u # s
       PROVE  Calculating(e, sess[u])
  <2>1. Calculating(db, sess[u])
    BY <1>10 DEF FactsInv
  <2> QED BY <1>3, <1>4, <2>1 DEF Calculating
<1> QED BY <1>5, <1>8, <1>9, <1>10

LEMMA IdleFacts == ASSUME NEW d PROVE Normalizing(d, IdleSession) /\ Calculating(d, IdleSession)
BY IdleSessionOK DEF Normalizing, Calculating

\* No other transaction holds facts of the snapshot.
FactsApart(s, x) ==
    x.cmd = "normalize" /\ x.tx["normalized_financial_facts"] # {} =>
        \A u \in Sessions \ {s} :
            sess[u].cmd = "normalize" /\ sess[u].tx["normalized_financial_facts"] # {} =>
                sess[u].work.key # x.work.key

LEMMA FactsKept ==
    ASSUME SessionsOK, VersionsInv, FactsInv, NEW s \in Sessions, NEW c, Step(s, c),
           db' = db => Normalizing(db, sess'[s]) /\ Calculating(db, sess'[s]) /\ FactsApart(s, sess'[s])
    PROVE  FactsInv'
<1>1. \A u \in Sessions \ {s} : sess'[u] = sess[u]
  BY DEF Step
<1>2. CASE db' = db
  <2>1. \A u \in Sessions : Normalizing(db', sess'[u]) /\ Calculating(db', sess'[u])
    BY <1>1, <1>2 DEF FactsInv
  <2>2. ValidFinancials(db') /\ db'["provider_financial_facts"] \subseteq FactRows
    BY <1>2 DEF FactsInv
  <2>3. OneNormalization'
    <3>1. FactsApart(s, sess'[s]) /\ OneNormalization
      BY <1>2 DEF FactsInv
    <3> QED BY <1>1, <3>1 DEF OneNormalization, FactsApart
  <2> QED BY <2>1, <2>2, <2>3 DEF FactsInv
<1>3. CASE /\ sess'[s] = IdleSession
           /\ db' = [t \in Tables |-> db[t] \cup sess[s].tx[t]]
  <2>1. \A t \in Tables : db'[t] = db[t] \cup sess[s].tx[t]
    BY <1>3
  <2>2. PICK e : e = db'
    OBVIOUS
  <2>3. /\ ValidFinancials(e) /\ e["provider_financial_facts"] \subseteq FactRows
        /\ \A u \in Sessions \ {s} : Normalizing(e, sess[u]) /\ Calculating(e, sess[u])
    BY <2>1, <2>2, CommitFinancials
  <2>4. \A u \in Sessions : Normalizing(db', sess'[u]) /\ Calculating(db', sess'[u])
    <3> TAKE u \in Sessions
    <3>1. CASE u = s
      BY <1>3, <3>1, IdleFacts
    <3>2. CASE u # s
      BY <1>1, <2>2, <2>3, <3>2
    <3> QED BY <3>1, <3>2
  <2>5. OneNormalization'
    <3>1. sess'[s].cmd # "normalize" /\ OneNormalization
      BY <1>3, IdleSessionOK DEF FactsInv
    <3> QED BY <1>1, <3>1 DEF OneNormalization
  <2> QED BY <2>2, <2>3, <2>4, <2>5 DEF FactsInv
<1> QED BY <1>2, <1>3 DEF Step

LEMMA NormalizeStartKeeps ==
    ASSUME SessionsOK, VersionsInv, FactsInv, NEW s \in Sessions, NEW key, NormalizeStart(s, key)
    PROVE  FactsInv'
<1>1. PICK snapshot \in db["data_snapshots"], first \in BOOLEAN :
          /\ SnapshotKey(snapshot) = key
          /\ Start(s, "normalize", "write",
                   [key |-> key, stored |-> FactsOf(db, key),
                    rows |-> NormalizedRows(snapshot, key, first)])
  BY Zenon DEF NormalizeStart
<1>2. PICK work : work = [key |-> key, stored |-> FactsOf(db, key),
                          rows |-> NormalizedRows(snapshot, key, first)]
  OBVIOUS
<1>3. work.key = key /\ work.stored = FactsOf(db, key) /\ work.rows = NormalizedRows(snapshot, key, first)
  BY <1>2
<1>4. /\ Step(s, "normalize") /\ db' = db
      /\ sess'[s] = [cmd |-> "normalize", pc |-> "write", tx |-> EmptyTx, work |-> work]
  <2>1. Start(s, "normalize", "write", work)
    BY <1>1, <1>2
  <2> QED BY <2>1, StartStep DEF Phase
<1>5. sess'[s].tx["normalized_financial_facts"] = {}
  BY <1>4, FinancialTables DEF EmptyTx
<1>6. WholeNormalization(db, key, work.rows)
  BY <1>1, <1>3, Zenon DEF WholeNormalization
<1>7. sess'[s].cmd = "normalize" /\ sess'[s].work = work
  BY <1>4
<1>8. Normalizing(db, sess'[s]) /\ Calculating(db, sess'[s])
  BY <1>3, <1>5, <1>6, <1>7 DEF Normalizing, Calculating
<1> QED BY <1>4, <1>5, <1>8, FactsKept DEF FactsApart

\* Who finds no facts writes them all, and who finds some finds them all.
LEMMA NormalizeWriteKeeps ==
    ASSUME SessionsOK, VersionsInv, FactsInv, NEW s \in Sessions, NormalizeWrite(s)
    PROVE  FactsInv'
<1>1. At(s, "write") /\ sess[s].cmd = "normalize"
  BY DEF NormalizeWrite
<1>2. sess[s].pc = "write" /\ Transaction(sess[s].tx, "normalize")
  BY <1>1, PhaseCommand
<1>3. PICK w, key, rows, stored : /\ w = sess[s].work /\ key = w.key
                                  /\ rows = w.rows /\ stored = w.stored
  OBVIOUS
<1>4. PICK new : new = {r \in rows : \A q \in stored : ~SameFact(r, q)}
  OBVIOUS
<1>5. PICK tx : tx = Insert(s, "normalized_financial_facts", new)
  OBVIOUS
<1>6. /\ new # {} => \A q \in Pending(s, "normalized_financial_facts") : q.snapshot # key
      /\ \/ Goto(s, "refused", sess[s].tx, w)
         \/ Goto(s, "done", tx, w) /\ (new # {} => FactsOf(db, key) = stored)
  BY <1>3, <1>4, <1>5, Zenon DEF NormalizeWrite
<1>7. Normalizing(db, sess[s])
  BY DEF FactsInv
<1>8. /\ WholeNormalization(db, key, rows)
      /\ stored = {} \/ stored = FactsOf(db, key)
      /\ sess[s].tx["normalized_financial_facts"] = {}
  BY <1>1, <1>2, <1>3, <1>7 DEF Normalizing
<1>9. CASE Goto(s, "refused", sess[s].tx, w)
  <2>1. /\ Step(s, "normalize") /\ db' = db /\ sess'[s].cmd = "normalize"
        /\ sess'[s].tx = sess[s].tx /\ sess'[s].work = w
    BY <1>1, <1>2, <1>9, GotoStep DEF Phase
  <2>2. Normalizing(db, sess'[s]) /\ Calculating(db, sess'[s]) /\ FactsApart(s, sess'[s])
    BY <1>3, <1>8, <2>1 DEF Normalizing, Calculating, FactsApart
  <2> QED BY <2>1, <2>2, FactsKept
<1>10. CASE Goto(s, "done", tx, w) /\ (new # {} => FactsOf(db, key) = stored)
  <2>1. Transaction(tx, "normalize") /\ tx["normalized_financial_facts"] = new
    <3>1. "normalized_financial_facts" \in Writes(sess[s].cmd)
      BY <1>1 DEF Writes
    <3>2. /\ Transaction(tx, "normalize")
          /\ tx["normalized_financial_facts"] = sess[s].tx["normalized_financial_facts"] \cup new
      BY <1>1, <1>5, <3>1, InsertTransaction
    <3> QED BY <1>8, <3>2
  <2>2. /\ Step(s, "normalize") /\ db' = db /\ sess'[s].cmd = "normalize" /\ sess'[s].pc = "done"
        /\ sess'[s].tx = tx /\ sess'[s].work = w
    BY <1>1, <1>10, <2>1, GotoStep DEF Phase
  <2>3. new # {} => new = rows /\ FactsOf(db, key) = {}
    <3> SUFFICES ASSUME new # {} PROVE new = rows /\ FactsOf(db, key) = {}
        OBVIOUS
    <3>1. CASE stored = {}
      BY <1>4, <1>10, <3>1
    <3>2. CASE stored # {}
      <4>1. stored = FactsOf(db, key)
        BY <1>8, <3>2
      <4>2. PICK f \in db["normalized_financial_facts"] : f.snapshot = key
        BY <3>2, <4>1 DEF FactsOf
      <4>3. WholeNormalization(db, key, stored)
        BY <4>1, <4>2 DEF FactsInv, ValidFinancials
      <4>4. PICK snapshot \in db["data_snapshots"], first \in BOOLEAN :
                SnapshotKey(snapshot) = key /\ rows = NormalizedRows(snapshot, key, first)
        BY <1>8, Zenon DEF WholeNormalization
      <4>5. PICK other \in db["data_snapshots"], again \in BOOLEAN :
                SnapshotKey(other) = key /\ stored = NormalizedRows(other, key, again)
        BY <4>3, Zenon DEF WholeNormalization
      <4>6. other = snapshot
        BY <4>4, <4>5, Zenon DEF FactsInv, ValidFinancials
      <4>7. PICK r \in rows : \A q \in stored : ~SameFact(r, q)
        BY <1>4
      <4>8. \E q \in stored : SameFact(r, q)
        BY <4>4, <4>5, <4>6, RowsAgain, Zenon
      <4> QED BY <4>7, <4>8
    <3> QED BY <3>1, <3>2
  <2>4. Normalizing(db, sess'[s]) /\ Calculating(db, sess'[s])
    BY <1>3, <1>8, <2>1, <2>2, <2>3 DEF Normalizing, Calculating
  <2>5. FactsApart(s, sess'[s])
    <3> SUFFICES ASSUME new # {}, NEW u \in Sessions \ {s}, sess[u].cmd = "normalize",
                        sess[u].tx["normalized_financial_facts"] # {}
                 PROVE  sess[u].work.key # key
        BY <1>3, <2>1, <2>2, Zenon DEF FactsApart
    <3>1. PICK q : q \in sess[u].tx["normalized_financial_facts"]
      OBVIOUS
    <3>2. q \in Pending(s, "normalized_financial_facts")
      BY <3>1, Zenon DEF Pending
    <3>3. /\ WholeNormalization(db, sess[u].work.key, sess[u].work.rows)
          /\ sess[u].tx["normalized_financial_facts"] = sess[u].work.rows
      <4>1. Normalizing(db, sess[u])
        BY DEF FactsInv
      <4> QED BY <4>1, Zenon DEF Normalizing
    <3>4. q.snapshot = sess[u].work.key
      BY <3>1, <3>3, RowsOfKey
    <3> QED BY <1>6, <3>2, <3>4
  <2> QED BY <2>2, <2>4, <2>5, FactsKept
<1> QED BY <1>6, <1>9, <1>10

LEMMA CalculateStartKeeps ==
    ASSUME SessionsOK, VersionsInv, FactsInv, NEW s \in Sessions, NEW key, CalculateStart(s, key)
    PROVE  FactsInv'
<1>1. PICK work : work = [key |-> key, facts |-> ListNormalizedFacts(s, key)]
  OBVIOUS
<1>2. Start(s, "calculate", "lock", work)
  BY <1>1, Zenon DEF CalculateStart
<1>3. /\ Step(s, "calculate") /\ db' = db /\ sess[s].cmd = "idle"
      /\ sess'[s] = [cmd |-> "calculate", pc |-> "lock", tx |-> EmptyTx, work |-> work]
  BY <1>2, StartStep DEF Phase
<1>4. sess'[s].cmd = "calculate" /\ sess'[s].work = work /\ sess'[s].tx["calculation_runs"] = {}
  BY <1>3, FinancialTables DEF EmptyTx
<1>5. work.key = key /\ work.facts = ListNormalizedFacts(s, key)
  BY <1>1
<1>6. ListNormalizedFacts(s, key) \subseteq FactsOf(db, key)
  <2>1. sess[s].tx["normalized_financial_facts"] = {}
    BY <1>3, TableOwner
  <2> QED BY <2>1 DEF ListNormalizedFacts, Visible, FactsOf
<1>7. Normalizing(db, sess'[s]) /\ Calculating(db, sess'[s]) /\ FactsApart(s, sess'[s])
  BY <1>4, <1>5, <1>6 DEF Normalizing, Calculating, FactsApart
<1> QED BY <1>3, <1>7, FactsKept

LEMMA CalculateSnapshotKeeps ==
    ASSUME SessionsOK, VersionsInv, FactsInv, NEW s \in Sessions, CalculateSnapshot(s)
    PROVE  FactsInv'
<1>1. sess[s].cmd = "calculate" /\ Transaction(sess[s].tx, "calculate")
  BY PhaseCommand DEF CalculateSnapshot, Phase
<1>2. PICK w, run : w = sess[s].work /\ run = CompletedCalculation(w.key, w.facts)
  OBVIOUS
<1>3. PICK tx : tx = Insert(s, "calculation_runs", {run})
  OBVIOUS
<1>4. Rollback(s) \/ Goto(s, "done", sess[s].tx, w) \/ Goto(s, "done", tx, w)
  BY <1>2, <1>3, Zenon DEF CalculateSnapshot
<1>5. Calculating(db, sess[s])
  BY DEF FactsInv
<1>6. w.facts \subseteq FactsOf(db, w.key) /\ \A r \in sess[s].tx["calculation_runs"] : InputsStored(db, r)
  BY <1>1, <1>2, <1>5 DEF Calculating
<1>7. InputsStored(db, run)
  BY <1>2, <1>6, RunInputs
<1>8. /\ Transaction(tx, "calculate")
      /\ tx["calculation_runs"] = sess[s].tx["calculation_runs"] \cup {run}
  <2>1. "calculation_runs" \in Writes(sess[s].cmd)
    BY <1>1 DEF Writes
  <2> QED BY <1>1, <1>3, <2>1, InsertTransaction
<1>9. CASE Rollback(s)
  <2>1. Step(s, "calculate") /\ sess'[s] = IdleSession
    BY <1>1, <1>9, RollbackStep
  <2>2. Normalizing(db, sess'[s]) /\ Calculating(db, sess'[s]) /\ FactsApart(s, sess'[s])
    BY <2>1, IdleFacts, IdleSessionOK DEF FactsApart
  <2> QED BY <2>1, <2>2, FactsKept
<1>10. ASSUME NEW t, t = sess[s].tx \/ t = tx, Goto(s, "done", t, w)
       PROVE  FactsInv'
  <2>1. Transaction(t, "calculate") /\ \A r \in t["calculation_runs"] : InputsStored(db, r)
    BY <1>1, <1>6, <1>7, <1>8, <1>10
  <2>2. /\ Step(s, "calculate") /\ sess'[s].cmd = "calculate" /\ sess'[s].tx = t /\ sess'[s].work = w
        /\ db' = db
    BY <1>1, <1>10, <2>1, GotoStep DEF Phase
  <2>3. Normalizing(db, sess'[s]) /\ Calculating(db, sess'[s]) /\ FactsApart(s, sess'[s])
    BY <1>6, <2>1, <2>2 DEF Normalizing, Calculating, FactsApart
  <2> QED BY <2>2, <2>3, FactsKept
<1> QED BY <1>4, <1>9, <1>10

LEMMA InitFacts == Init => FactsInv
<1> SUFFICES ASSUME NEW before \in InitialStates, DataInit(before)
             PROVE  FactsInv
    BY DEF Init
<1>1. db = before.db /\ \A s \in Sessions : sess[s] = IdleSession
  BY DEF DataInit
<1>2. ValidFinancials(db)
  BY <1>1, InitialAssumption
<1>3. db["provider_financial_facts"] \subseteq FactRows
  BY <1>1 DEF FactRows
<1>4. \A s \in Sessions : Normalizing(db, sess[s]) /\ Calculating(db, sess[s])
  BY <1>1, IdleFacts
<1>5. OneNormalization
  BY <1>1, IdleSessionOK DEF OneNormalization
<1> QED BY <1>2, <1>3, <1>4, <1>5 DEF FactsInv

\* A step of a command that is not about facts, or the end of one that is.
LEMMA FactsAside ==
    ASSUME SessionsOK, VersionsInv, FactsInv, NEW s \in Sessions, NEW c, Step(s, c),
           sess'[s] = IdleSession \/ (c # "normalize" /\ c # "calculate")
    PROVE  FactsInv'
<1>1. sess'[s].cmd # "normalize" /\ sess'[s].cmd # "calculate"
  BY IdleSessionOK DEF Step
<1>2. Normalizing(db, sess'[s]) /\ Calculating(db, sess'[s]) /\ FactsApart(s, sess'[s])
  BY <1>1 DEF Normalizing, Calculating, FactsApart
<1> QED BY <1>2, FactsKept

LEMMA FinancialsKeepFacts ==
    ASSUME SessionsOK, VersionsInv, FactsInv, NEW s \in Sessions, FinancialsStep(s)
    PROVE  FactsInv'
<1>1. CASE SeedStart(s)
  <2>1. Step(s, "seed")
    BY <1>1, StartStep DEF SeedStart, Phase
  <2> QED BY <2>1, FactsAside
<1>2. CASE ApplyFinancialReferenceSeed(s)
  <2>1. At(s, "apply")
    BY <1>2 DEF ApplyFinancialReferenceSeed
  <2>2. sess[s].cmd = "seed"
    BY <2>1, PhaseCommand DEF Phase
  <2>3. \E c \in {"seed", "normalize", "calculate"} : Step(s, c)
    BY FinancialsSteps DEF Quiet
  <2>4. Step(s, "seed")
    BY <2>2, <2>3 DEF Step
  <2> QED BY <2>4, FactsAside
<1>3. CASE \E r \in db["data_snapshots"] : NormalizeStart(s, SnapshotKey(r))
  BY <1>3, NormalizeStartKeeps
<1>4. CASE \E r \in db["data_snapshots"] : CalculateStart(s, SnapshotKey(r))
  BY <1>4, CalculateStartKeeps
<1>5. CASE NormalizeWrite(s)
  BY <1>5, NormalizeWriteKeeps
<1>6. CASE NormalizeRefused(s)
  <2>1. sess[s].cmd = "normalize" /\ Rollback(s)
    BY <1>6, PhaseCommand DEF NormalizeRefused, Phase
  <2>2. Step(s, "normalize") /\ sess'[s] = IdleSession
    BY <2>1, RollbackStep
  <2> QED BY <2>2, FactsAside
<1>7. CASE CalculateSnapshot(s)
  BY <1>7, CalculateSnapshotKeeps
<1>8. CASE FinancialsCommit(s)
  <2>1. sess[s].cmd \in {"seed", "normalize", "calculate"} /\ Commit(s)
    BY <1>8 DEF FinancialsCommit
  <2>2. Step(s, sess[s].cmd) /\ sess'[s] = IdleSession
    BY <2>1, CommitStep
  <2> QED BY <2>2, FactsAside
<1> QED BY <1>1, <1>2, <1>3, <1>4, <1>5, <1>6, <1>7, <1>8 DEF FinancialsStep

LEMMA FactsStep ==
    ASSUME PipelineOK, VersionsInv, FactsInv, [Next]_vars
    PROVE  FactsInv'
<1> USE DEF PipelineOK
<1>1. CASE UNCHANGED dataVars
  <2>1. db' = db /\ sess' = sess
    BY <1>1 DEF dataVars
  <2> QED BY <2>1 DEF FactsInv, OneNormalization
<1>2. CASE Next
  <2>1. PICK s \in Sessions : SecuritiesStep(s) \/ DataStep(s) \/ FinancialsStep(s) \/ KnowledgeStep(s)
    BY <1>2 DEF Next
  <2>2. CASE SecuritiesStep(s)
    <3>1. Step(s, "seed-master") \/ Step(s, "resolve")
      BY <2>2, SeedMasterSteps, ResolveSteps DEF SecuritiesStep, Quiet
    <3> QED BY <3>1, FactsAside
  <2>3. CASE FinancialsStep(s)
    BY <2>3, FinancialsKeepFacts
  <2>4. CASE KnowledgeStep(s)
    BY <2>4, KnowledgeSteps, FactsAside DEF Quiet
  <2>5. CASE DataStep(s)
    <3>1. CASE IngestAction(s)
      <4>1. UNCHANGED dataVars \/ Step(s, "ingest")
        BY <3>1, IngestStartStep, IngestBootstrapStep, IngestRunStep, IngestPutStep, IngestPersistStep,
           IngestUndoneStep, IngestFinishStep DEF IngestAction
      <4> QED BY <1>1, <4>1, FactsAside
    <3>2. CASE \/ \E q \in SnapshotRequests : SnapshotStart(s, q)
               \/ GetOrCreateSnapshot(s) \/ SelectCategory(s) \/ SnapshotBuild(s) \/ SnapshotCommit(s)
      BY <3>2, SnapshotSteps, FactsAside
    <3>3. CASE Crash(s)
      <4>1. Step(s, sess[s].cmd) /\ sess'[s] = IdleSession
        BY <3>3, CrashStep
      <4> QED BY <4>1, FactsAside
    <3> QED BY <1>1, <2>5, <3>1, <3>2, <3>3 DEF DataStep, IngestAction
  <2> QED BY <2>1, <2>2, <2>3, <2>4, <2>5
<1> QED BY <1>1, <1>2 DEF vars

\* The fact leads to an item of the snapshot that was published in time.
InputsNamed(f, key) == \A n \in DOMAIN f.inputs : \E g \in FactsOf(db, key) : g.id = f.inputs[n]

\* A stored fact of a run's snapshot, and what its id and its inputs name.
LEMMA StoredFact ==
    ASSUME VersionsInv, FactsInv, NEW f \in db["normalized_financial_facts"], NEW key, f.snapshot = key
    PROVE  /\ IsFiniteSet(FactsOf(db, key))
           /\ \A g \in FactsOf(db, key) : g.id = f.id => g = f
           /\ InputsNamed(f, key)
           /\ \A g \in FactsOf(db, key) : SourcedAt(g, key)
<1>1. PICK S : S = FactsOf(db, key)
  OBVIOUS
<1>2. f \in S /\ WholeNormalization(db, key, S)
  BY <1>1 DEF FactsOf, FactsInv, ValidFinancials
<1>3. PICK r \in db["data_snapshots"], first \in BOOLEAN :
          SnapshotKey(r) = key /\ S = NormalizedRows(r, key, first)
  BY <1>2, Zenon DEF WholeNormalization
<1>4. ItemsNamed(r) /\ IsFiniteSet(ListSnapshotFinancialFacts(r))
  BY SnapshotFacts DEF VersionsInv, FactsInv
<1>5. IsFiniteSet(S)
  BY <1>3, <1>4, RowsFinite
<1>6. \A g \in S : g.id = f.id => g = f
  BY <1>2, <1>3, <1>4, RowsNamed, Zenon
<1>7. InputsNamed(f, key)
  <2>1. \A n \in DOMAIN f.inputs : \E g \in S : g.id = f.inputs[n]
    BY <1>2, <1>3, RowInputs, Zenon
  <2> QED BY <1>1, <2>1, Zenon DEF InputsNamed
<1>8. key[1] = r.asOf
  BY <1>3 DEF SnapshotKey
<1>9. \A g \in S : SourcedAt(g, key)
  <2> TAKE g \in S
  <2>1. SourcedIn(g, r, key)
    BY <1>3, RowSourced, Zenon
  <2> QED BY <1>3, <1>8, <2>1, Zenon DEF SourcedIn, SourcedAt
<1> QED BY <1>1, <1>5, <1>6, <1>7, <1>9, Zenon

LEMMA FactsCount ==
    ASSUME VersionsInv, FactsInv, NEW run \in db["calculation_runs"], NEW code \in DOMAIN run.metrics
    PROVE  Cardinality(FactsUsed(run, code)) =
           Cardinality({run.metrics[code].inputs[r] : r \in DOMAIN run.metrics[code].inputs})
<1>1. PICK key, inputs : key = run.snapshot /\ inputs = run.metrics[code].inputs
  OBVIOUS
<1>2. PICK U, V : U = FactsUsed(run, code) /\ V = {inputs[r] : r \in DOMAIN inputs}
  OBVIOUS
<1>3. U = {f \in FactsOf(db, key) : \E role \in DOMAIN inputs : f.id = inputs[role]}
  BY <1>1, <1>2 DEF FactsUsed, FactsOf
<1>4. \A role \in DOMAIN inputs : \E f \in FactsOf(db, key) : f.id = inputs[role]
  BY <1>1, Zenon DEF FactsInv, ValidFinancials, InputsStored
<1>5. \A f \in FactsOf(db, key) : f \in db["normalized_financial_facts"] /\ f.snapshot = key
  BY DEF FactsOf
<1>6. IsFiniteSet(U)
  <2>1. CASE U = {}
    BY <2>1, FS_EmptySet
  <2>2. CASE U # {}
    <3>1. PICK f : f \in FactsOf(db, key)
      BY <1>3, <2>2
    <3>2. IsFiniteSet(FactsOf(db, key))
      BY <1>5, <3>1, StoredFact, Zenon
    <3> QED BY <1>3, <3>2, FS_Subset
  <2> QED BY <2>1, <2>2
<1>7. \A f, g \in U : f.id = g.id => f = g
  <2> TAKE f, g \in U
  <2>1. f \in FactsOf(db, key) /\ g \in FactsOf(db, key)
    BY <1>3
  <2> QED BY <1>5, <2>1, StoredFact, Zenon
<1>8. \A f \in U : f.id \in V
  BY <1>2, <1>3
<1>9. \A v \in V : \E f \in U : f.id = v
  BY <1>2, <1>3, <1>4
<1>10. PICK m : m = [f \in U |-> f.id]
  OBVIOUS
<1>11. ExistsBijection(U, V)
  <2>1. m \in [U -> V] /\ DOMAIN m = U
    BY <1>8, <1>10
  <2>2. IsInjective(m)
    BY <1>7, <1>10 DEF IsInjective
  <2>3. \A v \in V : \E f \in U : m[f] = v
    BY <1>9, <1>10
  <2> QED BY <2>1, <2>2, <2>3 DEF ExistsBijection, Bijection, Injection, Surjection
<1> QED BY <1>1, <1>2, <1>6, <1>11, FS_Bijection

\* A stored metric counts only what was published by the cutoff of its
\* snapshot: each of its inputs is exactly one stored fact of that snapshot,
\* which leads to an item of the snapshot that was published in time, and so
\* does every fact that it was derived from, however the commands that
\* ingest, snapshot, normalize and calculate interleave, wait for each other
\* and fail (FinancialNormalizationService.normalize,
\* FinancialCalculationService.calculate).
THEOREM MetricsArePointInTime == Spec => []MetricsPointInTime
<1>1. ASSUME VersionsInv, FactsInv PROVE MetricsPointInTime
  <2>1. \A run \in db["calculation_runs"] : \A code \in DOMAIN run.metrics :
            Cardinality(FactsUsed(run, code)) =
            Cardinality({run.metrics[code].inputs[r] : r \in DOMAIN run.metrics[code].inputs})
    BY <1>1, FactsCount
  <2>2. ASSUME NEW run \in db["calculation_runs"], NEW code \in DOMAIN run.metrics,
               NEW f \in FactsUsed(run, code)
        PROVE  SourcedAt(f, run.snapshot) /\ InputsNamed(f, run.snapshot)
               /\ f.snapshot = run.snapshot
               /\ \A g \in FactsOf(db, run.snapshot) : SourcedAt(g, run.snapshot)
    <3>1. PICK key : key = run.snapshot
      OBVIOUS
    <3>2. f \in db["normalized_financial_facts"] /\ f.snapshot = key
      BY <3>1 DEF FactsUsed
    <3>3. f \in FactsOf(db, key)
      BY <3>2 DEF FactsOf
    <3>4. InputsNamed(f, key) /\ \A g \in FactsOf(db, key) : SourcedAt(g, key)
      BY <1>1, <3>2, StoredFact, Zenon
    <3> QED BY <3>1, <3>2, <3>3, <3>4, Zenon
  <2>3. ASSUME NEW run \in db["calculation_runs"], NEW code \in DOMAIN run.metrics,
               NEW f \in FactsUsed(run, code)
        PROVE  SourcedInputs(f, run.snapshot)
    <3>1. PICK key : key = run.snapshot
      OBVIOUS
    <3>2. InputsNamed(f, key) /\ f.snapshot = key /\ \A g \in FactsOf(db, key) : SourcedAt(g, key)
      BY <2>2, <3>1, Zenon
    <3>3. \A g \in FactsOf(db, key) : g \in db["normalized_financial_facts"] /\ g.snapshot = key
      BY DEF FactsOf
    <3>4. SourcedInputs(f, key)
      <4> SUFFICES ASSUME NEW n \in DOMAIN f.inputs
                   PROVE  \E g \in db["normalized_financial_facts"] :
                              g.id = f.inputs[n] /\ g.snapshot = f.snapshot /\ SourcedAt(g, key)
          BY Zenon DEF SourcedInputs
      <4>1. PICK g \in FactsOf(db, key) : g.id = f.inputs[n]
        BY <3>2, Zenon DEF InputsNamed
      <4> QED BY <3>2, <3>3, <4>1, Zenon
    <3> QED BY <3>1, <3>4, Zenon
  <2>4. \A run \in db["calculation_runs"] : \A code \in DOMAIN run.metrics :
            \A f \in FactsUsed(run, code) :
                SourcedAt(f, run.snapshot) /\ SourcedInputs(f, run.snapshot)
    BY <2>2, <2>3, Zenon
  <2> QED BY <2>1, <2>4, Zenon DEF MetricsPointInTime
<1>2. PipelineOK /\ VersionsInv /\ FactsInv /\ [Next]_vars => PipelineOK' /\ VersionsInv' /\ FactsInv'
  BY PipelineStep, VersionsStep, FactsStep
<1> QED BY <1>1, <1>2, InitPipeline, InitVersions, InitFacts, PTL DEF Spec

(***************************************************************************)
(* Resolution beside a seed: the master is the stored one or the stored    *)
(* one with the manifest, and a query reads either, or some of both.       *)
(***************************************************************************)

\* A seed that found no conflict will leave the manifest stored.
SeedingFrom(M, d, x) ==
    x.cmd = "seed-master" =>
        /\ x.pc \in {"seed-insert", "seed-done"} =>
              d["security_master"] \cup ToSet(Manifest) \in Masters(M)
        /\ x.pc = "seed-done" =>
              d["security_master"] \cup x.tx["security_master"] =
              d["security_master"] \cup ToSet(Manifest)

\* An exact lookup of the query found this among rows that are stored.
FoundIn(M, rows, q, found) ==
    found # {} /\ \E m \in Masters(M) : m \subseteq rows /\ found \in Readings(q, m)

ResolvingFrom(M, d, x) ==
    x.cmd = "resolve" =>
        /\ x.work.q \in Queries
        /\ x.pc = "lookups" =>
              x.work.before \in Masters(M) /\ x.work.before \subseteq d["security_master"]
        /\ x.pc = "answer" /\ x.work.result.status = "RESOLVED" =>
              FoundIn(M, d["security_master"], x.work.q, x.work.result.candidates)

MasterFrom(M) ==
    /\ db["security_master"] \in Masters(M)
    /\ \A s \in Sessions : SeedingFrom(M, db, sess[s]) /\ ResolvingFrom(M, db, sess[s])

MasterInv == \E before \in InitialStates : MasterFrom(before.db["security_master"])

\* The manifest is stored at once or not at all.
LEMMA MasterKept ==
    ASSUME SessionsOK, NEW M, MasterFrom(M), NEW s \in Sessions, NEW c, Step(s, c),
           \/ db'["security_master"] = db["security_master"]
           \/ /\ db'["security_master"] = db["security_master"] \cup ToSet(Manifest)
              /\ db["security_master"] \cup ToSet(Manifest) \in Masters(M),
           SeedingFrom(M, db', sess'[s]), ResolvingFrom(M, db', sess'[s])
    PROVE  MasterFrom(M)'
<1>1. PICK old, new, added : /\ old = db["security_master"] /\ new = db'["security_master"]
                             /\ added = ToSet(Manifest)
  OBVIOUS
<1>2. old \subseteq new /\ new \cup added = old \cup added /\ new \in Masters(M)
  BY <1>1 DEF MasterFrom
<1>3. ASSUME NEW u \in Sessions
      PROVE  SeedingFrom(M, db', sess'[u]) /\ ResolvingFrom(M, db', sess'[u])
  <2>1. CASE u # s
    <3>1. PICK x : x = sess[u] /\ x = sess'[u]
      BY <2>1 DEF Step
    <3>2. SeedingFrom(M, db, x) /\ ResolvingFrom(M, db, x)
      BY <3>1 DEF MasterFrom
    <3>3. SeedingFrom(M, db', x)
      BY <1>1, <1>2, <3>2 DEF SeedingFrom
    <3>4. \A q, found : FoundIn(M, old, q, found) => FoundIn(M, new, q, found)
      BY <1>2 DEF FoundIn
    <3>5. ResolvingFrom(M, db', x)
      BY <1>1, <1>2, <3>2, <3>4 DEF ResolvingFrom
    <3> QED BY <3>1, <3>3, <3>5
  <2> QED BY <2>1
<1> QED BY <1>1, <1>2, <1>3 DEF MasterFrom

\* A command that is neither a seed nor a resolution, or the end of one.
LEMMA MasterAside ==
    ASSUME SessionsOK, NEW M, MasterFrom(M), NEW s \in Sessions, NEW c, Step(s, c),
           \/ c # "seed-master" /\ c # "resolve"
           \/ sess'[s] = IdleSession /\ (c # "seed-master" \/ db' = db)
    PROVE  MasterFrom(M)'
<1>1. "security_master" \in Writes("seed-master")
  BY DEF Writes
<1>2. db'["security_master"] = db["security_master"]
  BY <1>1, StepForeign
<1>3. sess'[s].cmd # "seed-master" /\ sess'[s].cmd # "resolve"
  BY IdleSessionOK DEF Step
<1>4. SeedingFrom(M, db', sess'[s]) /\ ResolvingFrom(M, db', sess'[s])
  BY <1>3 DEF SeedingFrom, ResolvingFrom
<1> QED BY <1>2, <1>4, MasterKept

LEMMA MastersSeeded ==
    ASSUME NEW M, NEW rows \in Masters(M), ~SeedConflict(rows)
    PROVE  rows \cup ToSet(Manifest) \in Masters(M)
<1>1. CASE rows = M
  BY <1>1 DEF Masters
<1>2. CASE rows = M \cup ToSet(Manifest)
  <2>1. rows \cup ToSet(Manifest) = rows
    BY <1>2
  <2> QED BY <2>1
<1> QED BY <1>1, <1>2 DEF Masters

LEMMA SeedKeepsMaster ==
    ASSUME SessionsOK, SeedInv, NEW M, MasterFrom(M), NEW s \in Sessions, SeedMasterAction(s)
    PROVE  MasterFrom(M)'
<1>0. Step(s, "seed-master") /\ Seeding(s)
  BY SeedMasterSteps DEF SeedMasterAction, Quiet, SeedInv
<1>t. "security_master" \in Tables /\ "security_master" \in Writes("seed-master")
  BY TablesAssumption DEF Writes
<1>1. PICK stored, added : stored = db["security_master"] /\ added = ToSet(Manifest)
  OBVIOUS
<1>2. stored \in Masters(M) /\ SeedingFrom(M, db, sess[s])
  BY <1>1 DEF MasterFrom
<1>3. CASE SeedMasterStart(s)
  <2>1. sess'[s].cmd = "seed-master" /\ sess'[s].pc = "seed-lock" /\ db' = db
    BY <1>3 DEF SeedMasterStart, Start, SessionsOK
  <2>2. SeedingFrom(M, db', sess'[s]) /\ ResolvingFrom(M, db', sess'[s])
    BY <2>1 DEF SeedingFrom, ResolvingFrom
  <2> QED BY <1>0, <2>1, <2>2, MasterKept
<1>4. CASE SeedMasterRead(s)
  <2>1. /\ sess[s].cmd = "seed-master" /\ sess[s].pc = "seed-lock"
        /\ Transaction(sess[s].tx, "seed-master") /\ sess[s].tx = EmptyTx
    BY <1>0, <1>4, PhaseCommand DEF SeedMasterRead, Phase, Seeding
  <2>2. Visible(s, "security_master") = stored
    BY <1>1, <1>t, <2>1 DEF Visible, EmptyTx
  <2>3. PICK pc, tx, work : /\ tx = sess[s].tx /\ Goto(s, pc, tx, work)
                            /\ pc = "seed-refused" \/ (pc = "seed-insert" /\ ~SeedConflict(stored))
    <3>1. CASE SeedConflict(stored)
      BY <1>4, <2>2, <3>1, Zenon DEF SeedMasterRead
    <3>2. CASE ~SeedConflict(stored)
      BY <1>4, <2>2, <3>2, Zenon DEF SeedMasterRead
    <3> QED BY <3>1, <3>2
  <2>4. sess'[s].cmd = "seed-master" /\ sess'[s].pc = pc /\ db' = db
    BY <2>1, <2>3, GotoStep DEF Phase
  <2>5. pc = "seed-insert" => stored \cup added \in Masters(M)
    BY <1>1, <1>2, <2>3, MastersSeeded
  <2>6. SeedingFrom(M, db', sess'[s]) /\ ResolvingFrom(M, db', sess'[s])
    BY <1>1, <2>3, <2>4, <2>5 DEF SeedingFrom, ResolvingFrom
  <2> QED BY <1>0, <2>4, <2>6, MasterKept
<1>5. CASE SeedMasterInsert(s)
  <2>1. /\ sess[s].cmd = "seed-master" /\ sess[s].pc = "seed-insert"
        /\ Transaction(sess[s].tx, "seed-master") /\ sess[s].tx = EmptyTx
        /\ sess[s].work = added \ stored
    BY <1>0, <1>1, <1>5, PhaseCommand DEF SeedMasterInsert, Phase, Seeding
  <2>2. stored \cup added \in Masters(M)
    BY <1>1, <1>2, <2>1 DEF SeedingFrom
  <2>3. Transaction(Insert(s, "security_master", sess[s].work), "seed-master")
    BY <1>t, <2>1, InsertTransaction
  <2>4. Insert(s, "security_master", sess[s].work)["security_master"] = added \ stored
    BY <1>t, <2>1, InsertTransaction DEF EmptyTx
  <2>5. PICK pc, tx, work :
            /\ Goto(s, pc, tx, work) /\ Transaction(tx, "seed-master")
            /\ pc = "seed-refused" \/ (pc = "seed-done" /\ tx["security_master"] = added \ stored)
    BY <1>5, <2>1, <2>3, <2>4 DEF SeedMasterInsert
  <2>6. /\ sess'[s].cmd = "seed-master" /\ sess'[s].pc = pc /\ sess'[s].tx = tx /\ db' = db
    BY <2>1, <2>5, GotoStep DEF Phase
  <2>7. pc = "seed-done" => stored \cup tx["security_master"] = stored \cup added
    BY <2>5
  <2>8. SeedingFrom(M, db', sess'[s]) /\ ResolvingFrom(M, db', sess'[s])
    BY <1>1, <2>2, <2>6, <2>7 DEF SeedingFrom, ResolvingFrom
  <2> QED BY <1>0, <2>6, <2>8, MasterKept
<1>6. CASE SeedMasterEnd(s)
  <2>1. sess[s].cmd = "seed-master"
    BY <1>6, PhaseCommand DEF SeedMasterEnd, Phase
  <2>2. CASE At(s, "seed-done") /\ Commit(s)
    <3>1. /\ sess[s].pc = "seed-done" /\ sess'[s] = IdleSession
          /\ db' = [t \in Tables |-> db[t] \cup sess[s].tx[t]]
      BY <2>1, <2>2, CommitStep DEF At
    <3>2. db'["security_master"] = stored \cup sess[s].tx["security_master"]
      BY <1>1, <1>t, <3>1
    <3>3. db'["security_master"] = stored \cup added /\ stored \cup added \in Masters(M)
      BY <1>1, <1>2, <2>1, <3>1, <3>2 DEF SeedingFrom
    <3>4. SeedingFrom(M, db', sess'[s]) /\ ResolvingFrom(M, db', sess'[s])
      BY <3>1, IdleSessionOK DEF SeedingFrom, ResolvingFrom
    <3> QED BY <1>0, <1>1, <3>3, <3>4, MasterKept
  <2>3. CASE Rollback(s)
    BY <1>0, <2>1, <2>3, RollbackStep, MasterAside
  <2> QED BY <1>6, <2>2, <2>3 DEF SeedMasterEnd
<1> QED BY <1>3, <1>4, <1>5, <1>6 DEF SeedMasterAction

\* What each lookup finds, as a function of the rows it sees.
LEMMA LookupAt ==
    ASSUME NEW q, NEW views
    PROVE  /\ Lookups(q, views)[1] = FindExchangeSymbol(views[1], q.exchange, q.listed).candidates
           /\ Lookups(q, views)[2] = FindExternalIdentifier(views[2], q.cik)
           /\ Lookups(q, views)[3] = FindSymbol(views[3], q.symbol)
           /\ Lookups(q, views)[4] = FindActiveAlias(views[4], q.name)
           /\ Lookups(q, views)[5] = FindIssuerName(views[5], q.name)
           /\ Lookups(q, views)[6] = SuggestPrefix(views[6], q.name)
BY DEF Lookups

LEMMA LookupsOver ==
    ASSUME NEW q, NEW rows
    PROVE  LET found == Lookups(q, [k \in 1..6 |-> rows])
           IN  /\ found[1] = FindExchangeSymbol(rows, q.exchange, q.listed).candidates
               /\ found[2] = FindExternalIdentifier(rows, q.cik)
               /\ found[3] = FindSymbol(rows, q.symbol)
               /\ found[4] = FindActiveAlias(rows, q.name)
               /\ found[5] = FindIssuerName(rows, q.name)
<1>1. PICK views : views = [k \in 1..6 |-> rows]
  OBVIOUS
<1>2. views[1] = rows /\ views[2] = rows /\ views[3] = rows /\ views[4] = rows /\ views[5] = rows
  BY <1>1
<1> QED BY <1>1, <1>2, LookupAt

\* An exact lookup is a reading of the rows it saw.
LEMMA LookupIsReading ==
    ASSUME NEW q, NEW views, NEW n \in 1..5
    PROVE  Lookups(q, views)[n] \in Readings(q, views[n])
<1>1. Lookups(q, views)[n] = Lookups(q, [k \in 1..6 |-> views[n]])[n]
  <2>1. n = 1 \/ n = 2 \/ n = 3 \/ n = 4 \/ n = 5
    OBVIOUS
  <2> QED BY <2>1, LookupAt, LookupsOver
<1> QED BY <1>1 DEF Readings

LEMMA FoundAmong ==
    ASSUME NEW q, NEW views, NEW n \in 1..6
    PROVE  Lookups(q, views)[n] \subseteq views[n]
<1>1. \A rows, x, y : FindExchangeSymbol(rows, x, y).candidates \subseteq rows
  BY DEF FindExchangeSymbol, Of
<1>2. \A rows, x : /\ FindExternalIdentifier(rows, x) \subseteq rows /\ FindSymbol(rows, x) \subseteq rows
                   /\ FindActiveAlias(rows, x) \subseteq rows /\ FindIssuerName(rows, x) \subseteq rows
                   /\ SuggestPrefix(rows, x) \subseteq rows
  BY DEF FindExternalIdentifier, FindSymbol, FindActiveAlias, FindIssuerName, SuggestPrefix, Of
<1>3. n = 1 \/ n = 2 \/ n = 3 \/ n = 4 \/ n = 5 \/ n = 6
  OBVIOUS
<1> QED BY <1>1, <1>2, <1>3, LookupAt

LEMMA SubsetOfSize ==
    ASSUME NEW F, IsFiniteSet(F), NEW k \in Nat, k <= Cardinality(F)
    PROVE  kSubset(k, F) # {}
<1> DEFINE T == {x \in SUBSET F : Cardinality(x) >= k}
<1>1. PICK top \in T : \A y \in T : y \subseteq top => y = top
  <2>1. T \subseteq SUBSET F /\ F \in T
    BY FS_CardinalityType
  <2> HIDE DEF T
  <2> QED BY <2>1, SmallestMember
<1>2. IsFiniteSet(top) /\ Cardinality(top) \in Nat
  BY FS_Subset, FS_CardinalityType
<1>3. CASE Cardinality(top) # k
  <2>1. PICK m : m \in top
    BY <1>2, <1>3, FS_EmptySet
  <2>2. Cardinality(top \ {m}) = Cardinality(top) - 1
    BY <1>2, <2>1, FS_RemoveElement
  <2>3. top \ {m} \in T
    BY <1>2, <1>3, <2>2
  <2> QED BY <1>1, <2>1, <2>3
<1> QED BY <1>3 DEF kSubset

\* One candidate is reported only when one was found.
LEMMA LoadedAlone ==
    ASSUME NEW S, IsFiniteSet(S), Cardinality(LoadCandidates(S)) = 1
    PROVE  LoadCandidates(S) = S /\ S # {}
<1>1. MaxCandidates \in Nat /\ MaxCandidates > 1 /\ Cardinality(S) \in Nat
  BY MasterAssumption, CandidatesAssumption, FS_CardinalityType
<1>2. CASE Cardinality(S) <= MaxCandidates
  <2>1. LoadCandidates(S) = S
    BY <1>2 DEF LoadCandidates
  <2> QED BY <2>1, FS_EmptySet
<1>3. CASE ~(Cardinality(S) <= MaxCandidates)
  <2>1. kSubset(MaxCandidates, S) # {}
    BY <1>1, <1>3, SubsetOfSize
  <2>2. LoadCandidates(S) \in kSubset(MaxCandidates, S)
    BY <1>3, <2>1 DEF LoadCandidates
  <2> QED BY <1>1, <2>2 DEF kSubset
<1> QED BY <1>2, <1>3

\* What a query is resolved to was found by one of the exact lookups.
LEMMA ResolvedMeans ==
    ASSUME NEW q, NEW views, \A n \in 1..6 : IsFiniteSet(views[n]),
           Resolve(q, views).status = "RESOLVED"
    PROVE  \E n \in 1..5 : /\ Resolve(q, views).candidates = Lookups(q, views)[n]
                           /\ Lookups(q, views)[n] # {}
<1>1. PICK found : found = Lookups(q, views)
  OBVIOUS
<1>2. PICK hits : hits = {n \in 1..6 : found[n] # {}}
  OBVIOUS
<1>3. PICK first : first = Min(hits)
  OBVIOUS
<1>4. /\ hits # {}
      /\ Resolve(q, views) = CandidateResult(MatchTypes[first], LoadCandidates(found[first]))
  BY <1>1, <1>2, <1>3 DEF Resolve, NoCandidates
<1>5. first \in hits
  <2>1. IsFiniteSet(hits) /\ \A i \in hits : i \in Int
    BY <1>2, FS_Interval, FS_Subset
  <2>2. \E m \in hits : \A i \in hits : m <= i
    BY <1>4, <2>1, LeastNumber
  <2> QED BY <1>3, <2>2 DEF Min
<1>6. first \in 1..6 /\ found[first] # {}
  BY <1>2, <1>5
<1>7. IsFiniteSet(found[first])
  BY <1>1, <1>6, FoundAmong, FS_Subset
<1>8. PICK x, match : x = LoadCandidates(found[first]) /\ match = MatchTypes[first]
  OBVIOUS
<1>9. /\ CandidateResult(match, x).candidates = x
      /\ CandidateResult(match, x).status = "RESOLVED" =>
            Cardinality(x) = 1 /\ match # "PREFIX_SUGGESTION"
  BY DEF CandidateResult
<1>10. first # 6
  BY <1>4, <1>8, <1>9 DEF MatchTypes
<1>11. x = found[first]
  BY <1>4, <1>7, <1>8, <1>9, LoadedAlone
<1>12. first \in 1..5
  BY <1>6, <1>10
<1> QED BY <1>1, <1>4, <1>6, <1>8, <1>9, <1>11, <1>12

LEMMA MastersFinite ==
    ASSUME NEW M, IsFiniteSet(M), NEW m \in Masters(M)
    PROVE  IsFiniteSet(m)
<1>1. IsFiniteSet(ToSet(Manifest))
  <2>1. IsFiniteSet(DOMAIN Manifest)
    BY MasterAssumption, FS_Interval
  <2>2. Manifest \in Surjection(DOMAIN Manifest, ToSet(Manifest))
    BY MasterAssumption DEF ToSet, Surjection
  <2> QED BY <2>1, <2>2, FS_Surjection
<1> QED BY <1>1, FS_Union DEF Masters

LEMMA ResolveKeepsMaster ==
    ASSUME SessionsOK, NEW M, IsFiniteSet(M), MasterFrom(M), NEW s \in Sessions,
           (\E q \in Queries : ResolveStart(s, q)) \/ ResolveLookups(s) \/ ResolveEnd(s)
    PROVE  MasterFrom(M)'
<1>0. Step(s, "resolve")
  BY ResolveSteps DEF Quiet
<1>1. PICK stored : stored = db["security_master"]
  OBVIOUS
<1>2. stored \in Masters(M) /\ ResolvingFrom(M, db, sess[s])
  BY <1>1 DEF MasterFrom
<1>3. CASE \E q \in Queries : ResolveStart(s, q)
  <2>1. PICK q \in Queries : ResolveStart(s, q)
    BY <1>3
  <2>2. PICK work : work = [q |-> q, before |-> stored] /\ Start(s, "resolve", "lookups", work)
    BY <1>1, <2>1 DEF ResolveStart
  <2>3. /\ sess'[s].cmd = "resolve" /\ sess'[s].pc = "lookups" /\ sess'[s].work = work
        /\ db' = db
    BY <2>2 DEF Start, SessionsOK
  <2>4. SeedingFrom(M, db', sess'[s]) /\ ResolvingFrom(M, db', sess'[s])
    BY <1>1, <1>2, <2>2, <2>3 DEF SeedingFrom, ResolvingFrom
  <2> QED BY <1>0, <2>3, <2>4, MasterKept
<1>4. CASE ResolveLookups(s)
  <2>1. /\ sess[s].cmd = "resolve" /\ sess[s].pc = "lookups"
        /\ Transaction(sess[s].tx, "resolve")
    BY <1>4, PhaseCommand DEF ResolveLookups, Phase
  <2>2. PICK q, before : q = sess[s].work.q /\ before = sess[s].work.before
    OBVIOUS
  <2>3. q \in Queries /\ before \in Masters(M) /\ before \subseteq stored
    BY <1>1, <1>2, <2>1, <2>2 DEF ResolvingFrom
  <2>4. PICK views, k :
            /\ k \in 0..6 /\ views = [n \in 1..6 |-> IF n <= k THEN before ELSE stored]
            /\ Goto(s, "answer", sess[s].tx, [q |-> q, result |-> Resolve(q, views)])
    BY <1>1, <1>4, <2>2 DEF ResolveLookups
  <2>5. PICK result, work : /\ result = Resolve(q, views) /\ work = [q |-> q, result |-> result]
                            /\ Goto(s, "answer", sess[s].tx, work)
    BY <2>4
  <2>6. /\ sess'[s].cmd = "resolve" /\ sess'[s].pc = "answer" /\ sess'[s].work = work
        /\ db' = db
    BY <2>1, <2>5, GotoStep DEF Phase
  <2>7. \A n \in 1..6 : views[n] \in Masters(M) /\ views[n] \subseteq stored
    BY <1>2, <2>3, <2>4
  <2>8. ASSUME result.status = "RESOLVED" PROVE FoundIn(M, stored, q, result.candidates)
    <3>1. \A n \in 1..6 : IsFiniteSet(views[n])
      BY <2>7, MastersFinite
    <3>2. PICK n \in 1..5 : result.candidates = Lookups(q, views)[n] /\ Lookups(q, views)[n] # {}
      BY <2>5, <2>8, <3>1, ResolvedMeans
    <3>3. views[n] \in Masters(M) /\ views[n] \subseteq stored
      BY <2>7
    <3> QED BY <3>2, <3>3, LookupIsReading DEF FoundIn
  <2>9. SeedingFrom(M, db', sess'[s]) /\ ResolvingFrom(M, db', sess'[s])
    BY <1>1, <2>3, <2>5, <2>6, <2>8 DEF SeedingFrom, ResolvingFrom
  <2> QED BY <1>0, <2>6, <2>9, MasterKept
<1>5. CASE ResolveEnd(s)
  <2>1. sess[s].cmd = "resolve" /\ Rollback(s)
    BY <1>5, PhaseCommand DEF ResolveEnd, Phase
  <2> QED BY <1>0, <2>1, RollbackStep, MasterAside
<1> QED BY <1>3, <1>4, <1>5

\* A lookup over more rows finds no fewer.
LEMMA LookupGrows ==
    ASSUME NEW q, NEW rows, NEW m, m \subseteq rows, NEW n \in 1..5
    PROVE  Lookups(q, [k \in 1..6 |-> m])[n] \subseteq Lookups(q, [k \in 1..6 |-> rows])[n]
<1>0. \A table : Of(m, table) \subseteq Of(rows, table)
  BY DEF Of
<1>1. \A x, y : FindExchangeSymbol(m, x, y).candidates \subseteq FindExchangeSymbol(rows, x, y).candidates
  BY <1>0 DEF FindExchangeSymbol
<1>2. \A x : FindExternalIdentifier(m, x) \subseteq FindExternalIdentifier(rows, x)
  BY <1>0 DEF FindExternalIdentifier
<1>3. \A x : FindSymbol(m, x) \subseteq FindSymbol(rows, x)
  BY <1>0 DEF FindSymbol
<1>4. \A x : FindActiveAlias(m, x) \subseteq FindActiveAlias(rows, x)
  <2>1. \A s : CurrentAliases(m, s) \subseteq CurrentAliases(rows, s)
    BY <1>0 DEF CurrentAliases
  <2> QED BY <1>0, <2>1 DEF FindActiveAlias
<1>5. \A x : FindIssuerName(m, x) \subseteq FindIssuerName(rows, x)
  <2>1. \A s : IssuerNames(m, s) \subseteq IssuerNames(rows, s)
    BY <1>0 DEF IssuerNames
  <2> QED BY <1>0, <2>1 DEF FindIssuerName
<1>6. n = 1 \/ n = 2 \/ n = 3 \/ n = 4 \/ n = 5
  OBVIOUS
<1>7. PICK old, new : /\ old = Lookups(q, [k \in 1..6 |-> m])
                      /\ new = Lookups(q, [k \in 1..6 |-> rows])
  OBVIOUS
<1>8. /\ old[1] = FindExchangeSymbol(m, q.exchange, q.listed).candidates
      /\ old[2] = FindExternalIdentifier(m, q.cik) /\ old[3] = FindSymbol(m, q.symbol)
      /\ old[4] = FindActiveAlias(m, q.name) /\ old[5] = FindIssuerName(m, q.name)
  BY <1>7, LookupsOver
<1>9. /\ new[1] = FindExchangeSymbol(rows, q.exchange, q.listed).candidates
      /\ new[2] = FindExternalIdentifier(rows, q.cik) /\ new[3] = FindSymbol(rows, q.symbol)
      /\ new[4] = FindActiveAlias(rows, q.name) /\ new[5] = FindIssuerName(rows, q.name)
  BY <1>7, LookupsOver
<1>10. /\ old[1] \subseteq new[1] /\ old[2] \subseteq new[2] /\ old[3] \subseteq new[3]
       /\ old[4] \subseteq new[4] /\ old[5] \subseteq new[5]
  BY <1>1, <1>2, <1>3, <1>4, <1>5, <1>8, <1>9
<1> QED BY <1>6, <1>7, <1>10

\* What was found is what the query names among the rows that are stored.
LEMMA FoundIsNamed ==
    ASSUME NEW before \in InitialStates, NEW M, M = before.db["security_master"],
           NEW rows \in Masters(M), NEW q \in Queries, NEW found, FoundIn(M, rows, q, found)
    PROVE  NamedBy(q, rows) = found
<1>1. PICK m \in Masters(M) : m \subseteq rows /\ found \in Readings(q, m) /\ found # {}
  BY DEF FoundIn
<1>2. PICK n \in 1..5 : found = Lookups(q, [k \in 1..6 |-> m])[n]
  BY <1>1 DEF Readings
<1>3. PICK now : now = Lookups(q, [k \in 1..6 |-> rows])
  OBVIOUS
<1>4. \A i \in 1..5 : now[i] \in Readings(q, rows)
  BY <1>3 DEF Readings
<1>5. \A i \in 1..5 : now[i] = {} \/ now[i] = found
  BY <1>1, <1>4, NamesAssumption
<1>6. now[n] = found
  <2>1. found \subseteq now[n]
    BY <1>1, <1>2, <1>3, LookupGrows
  <2> QED BY <1>1, <1>5, <2>1
<1>7. PICK explicit : explicit = FindExchangeSymbol(rows, q.exchange, q.listed)
  OBVIOUS
<1>8. /\ now[1] = explicit.candidates /\ now[2] = FindExternalIdentifier(rows, q.cik)
      /\ now[3] = FindSymbol(rows, q.symbol) /\ now[4] = FindActiveAlias(rows, q.name)
      /\ now[5] = FindIssuerName(rows, q.name)
  BY <1>3, <1>7, LookupsOver
<1>9. CASE explicit.recognized
  <2>1. explicit.candidates # {}
    <3> SUFFICES ASSUME explicit.candidates = {} PROVE FALSE
        OBVIOUS
    <3>1. Readings(q, m) = {{}}
      BY <1>7, <1>9, NamesAssumption
    <3> QED BY <1>1, <3>1
  <2>2. NamedBy(q, rows) = explicit.candidates
    BY <1>7, <1>9 DEF NamedBy
  <2> QED BY <1>5, <1>8, <2>1, <2>2
<1>10. CASE ~explicit.recognized
  <2>1. explicit.candidates = {}
    BY <1>7, <1>10 DEF FindExchangeSymbol
  <2>2. NamedBy(q, rows) = now[2] \cup now[3] \cup now[4] \cup now[5]
    BY <1>7, <1>8, <1>10 DEF NamedBy
  <2>3. n \in 2..5
    BY <1>1, <1>6, <1>8, <2>1
  <2> QED BY <1>5, <1>6, <2>2, <2>3
<1> QED BY <1>9, <1>10

LEMMA MasterStep ==
    ASSUME PipelineOK, SeedInv, MasterInv, [Next]_vars
    PROVE  MasterInv'
<1> USE DEF PipelineOK
<1>0. PICK before \in InitialStates : MasterFrom(before.db["security_master"])
  BY DEF MasterInv
<1>m. PICK M : M = before.db["security_master"] /\ MasterFrom(M)
  BY <1>0
<1>f. IsFiniteSet(M)
  BY <1>m, NamesAssumption
<1> SUFFICES MasterFrom(M)'
    BY <1>m DEF MasterInv
<1>1. CASE UNCHANGED dataVars
  <2>1. db' = db /\ sess' = sess
    BY <1>1 DEF dataVars
  <2> QED BY <1>m, <2>1 DEF MasterFrom
<1>2. CASE Next
  <2>1. PICK s \in Sessions : SecuritiesStep(s) \/ DataStep(s) \/ FinancialsStep(s) \/ KnowledgeStep(s)
    BY <1>2 DEF Next
  <2>2. CASE SecuritiesStep(s)
    BY <1>m, <1>f, <2>2, SeedKeepsMaster, ResolveKeepsMaster DEF SecuritiesStep, SeedMasterAction
  <2>3. CASE FinancialsStep(s)
    BY <1>m, <2>3, FinancialsSteps, MasterAside DEF Quiet
  <2>4. CASE KnowledgeStep(s)
    BY <1>m, <2>4, KnowledgeSteps, MasterAside DEF Quiet
  <2>5. CASE DataStep(s)
    <3>1. CASE IngestAction(s)
      <4>1. UNCHANGED dataVars \/ Step(s, "ingest")
        BY <3>1, IngestStartStep, IngestBootstrapStep, IngestRunStep, IngestPutStep, IngestPersistStep,
           IngestUndoneStep, IngestFinishStep DEF IngestAction
      <4> QED BY <1>m, <1>1, <4>1, MasterAside
    <3>2. CASE \/ \E q \in SnapshotRequests : SnapshotStart(s, q)
               \/ GetOrCreateSnapshot(s) \/ SelectCategory(s) \/ SnapshotBuild(s) \/ SnapshotCommit(s)
      BY <1>m, <3>2, SnapshotSteps, MasterAside
    <3>3. CASE Crash(s)
      <4>1. Step(s, sess[s].cmd) /\ sess'[s] = IdleSession /\ db' = db
        BY <3>3, CrashStep
      <4> QED BY <1>m, <4>1, MasterAside
    <3> QED BY <1>1, <2>5, <3>1, <3>2, <3>3 DEF DataStep, IngestAction
  <2> QED BY <2>1, <2>2, <2>3, <2>4, <2>5
<1> QED BY <1>1, <1>2 DEF vars

\* A query is resolved only to the one security that the stored rows name by
\* it, whichever of its lookups came before and which after another process
\* stored the manifest, and it stays so while the answer is printed: the
\* manifest appears as a whole, an exact lookup over more rows finds no
\* fewer, and a suggestion or one of several candidates is never taken for
\* the answer (SecurityResolutionService.resolve).
THEOREM ResolvedAreNamed == Spec => []ResolvedIsNamed
<1>1. Init => SeedInv /\ MasterInv
  <2> SUFFICES ASSUME NEW before \in InitialStates, DataInit(before)
               PROVE  SeedInv /\ MasterInv
      BY DEF Init
  <2>1. db = before.db /\ \A s \in Sessions : sess[s].cmd = "idle"
    BY IdleSessionOK DEF DataInit
  <2>2. SeedInv
    BY <2>1 DEF SeedInv, SeedLockExclusive, HoldsSeedLock, Seeding
  <2>3. PICK M : M = before.db["security_master"]
    OBVIOUS
  <2>4. db["security_master"] \in Masters(M)
    BY <2>1, <2>3 DEF Masters
  <2>5. \A s \in Sessions : SeedingFrom(M, db, sess[s]) /\ ResolvingFrom(M, db, sess[s])
    BY <2>1 DEF SeedingFrom, ResolvingFrom
  <2>6. MasterFrom(M)
    BY <2>4, <2>5 DEF MasterFrom
  <2> QED BY <2>2, <2>3, <2>6 DEF MasterInv
<1>2. PipelineOK /\ SeedInv /\ MasterInv /\ [Next]_vars => PipelineOK' /\ SeedInv' /\ MasterInv'
  BY PipelineStep, SeedStep, MasterStep
<1>3. PipelineOK /\ MasterInv => ResolvedIsNamed
  <2> SUFFICES ASSUME PipelineOK, MasterInv, NEW s \in Sessions, At(s, "answer"),
                      sess[s].work.result.status = "RESOLVED"
               PROVE  NamedBy(sess[s].work.q, db["security_master"]) = sess[s].work.result.candidates
      BY DEF ResolvedIsNamed
  <2>1. PICK before \in InitialStates : MasterFrom(before.db["security_master"])
    BY DEF MasterInv
  <2>2. PICK M : M = before.db["security_master"] /\ MasterFrom(M)
    BY <2>1
  <2>3. sess[s].cmd = "resolve" /\ sess[s].pc = "answer"
    BY PhaseCommand DEF Phase, PipelineOK
  <2>4. PICK q, found, rows : /\ q = sess[s].work.q /\ found = sess[s].work.result.candidates
                              /\ rows = db["security_master"]
    OBVIOUS
  <2>5. rows \in Masters(M) /\ q \in Queries /\ FoundIn(M, rows, q, found)
    BY <2>2, <2>3, <2>4 DEF MasterFrom, ResolvingFrom
  <2>6. NamedBy(q, rows) = found
    BY <2>2, <2>5, FoundIsNamed
  <2> QED BY <2>4, <2>6
<1> QED BY InitPipeline, <1>1, <1>2, <1>3, PTL DEF Spec
=============================================================================
