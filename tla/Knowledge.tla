------------------------------- MODULE Knowledge -------------------------------
(***************************************************************************)
(* Documents and retrieval: exact versions of document bodies, their parse *)
(* runs, chunks and citations, lexical indexes and stored searches         *)
(* (domain/documents, domain/retrieval, their repository and tables, and   *)
(* the commands of cli_documents.py and cli_rag.py that write).            *)
(*                                                                         *)
(* The text of a document is a sequence of sections, each a set of tokens  *)
(* with a length: the passages that the chunker cuts the segments of the   *)
(* parser into, none longer than a chunk may be.  What the two make of the *)
(* bytes is a constant, since the cut depends on the text alone.  A        *)
(* citation is written with its chunk and is part of its row, as pages and *)
(* sections are of their parse run, postings of their index and hits of    *)
(* their search.  The scores of a search are left out: any of the matching *)
(* chunks may be among the first.                                          *)
(***************************************************************************)
EXTENDS Financials

CONSTANTS
    ParserOutput,       \* bytes -> [status, sections], the parsers' and the chunker's work
    ParserConfigs,      \* configurations of the parse command
    VersionRequests,    \* register-version: source number, policy, status, supersedes
    SearchRequests,     \* query, mode, snapshot, asOf, max
    MaxChunk,           \* maximum_characters of the chunker
    MaxExcerpt          \* the longest excerpt a citation may have

ASSUME KnowledgeAssumption ==
    /\ MaxChunk \in Nat \ {0} /\ MaxExcerpt \in 1..MaxChunk
    /\ \A b \in DOMAIN ParserOutput :
          /\ ParserOutput[b].sections \in Seq(ToSet(ParserOutput[b].sections))
          /\ \A x \in ToSet(ParserOutput[b].sections) : x.size \in 1..MaxChunk
    /\ \A q \in SearchRequests : q.asOf \in Nat /\ (q.snapshot = 0) # (q.asOf = 0)

ParseStatus == {"RUNNING", "PASS", "PARTIAL", "BLOCKED", "FAIL"}
SourceVersionStatus == {"ACTIVE", "WITHDRAWN", "UNKNOWN"}
IndexStatus == {"BUILDING", "COMPLETE", "PARTIAL", "BLOCKED", "FAILED"}
RetrievalStatus == {"PASS", "PARTIAL", "BLOCKED", "FAIL"}
RetrievalMode == {"LEXICAL", "VECTOR", "HYBRID"}

(***************************************************************************)
(* Tables.                                                                 *)
(***************************************************************************)
LogicalDocument(r) == DOMAIN r = {"identity"}
DocumentVersion(r) ==
    DOMAIN r = {"logical", "number", "supersedes", "source", "uri", "checksum", "size", "mime",
                "published", "retrieved", "policy", "status"}
AcceptsVersion(r) ==
    /\ r.status \in SourceVersionStatus
    /\ r.size \in 1..MaxBlobBytes /\ r.number > 0
DocumentParseRun(r) == DOMAIN r = {"version", "config", "status", "text", "meta"}
AcceptsParseRun(r) == r.status \in ParseStatus
DocumentSection(x) == DOMAIN x = {"tokens", "size"} /\ x.size > 0
DocumentChunk(r) == DOMAIN r = {"run", "index", "text", "checksum", "citation"}
AcceptsChunk(r) == r.index >= 0 /\ r.text.size <= MaxChunk
CitationAnchor(c) == DOMAIN c = {"excerpt", "text", "document"}
AcceptsCitation(c) == c.excerpt.size \in 1..MaxExcerpt
LexicalIndexVersion(r) == DOMAIN r = {"id", "status", "documents", "postings", "completed"}
AcceptsIndex(r) == r.status \in IndexStatus /\ (r.id.snapshot = 0) # (r.id.asOf = 0)
LexicalPosting(p) == DOMAIN p = {"token", "chunk"}
RetrievalRun(r) == DOMAIN r = {"request", "index", "status", "warnings", "hits"}
AcceptsRetrievalRun(r) ==
    /\ r.status \in RetrievalStatus /\ r.request.max \in 1..20
    /\ (r.request.snapshot = 0) # (r.request.asOf = 0)

ChunkId(c) == <<c.run, c.index>>
VersionId(v) == <<v.logical, v.number>>
RunId(r) == <<r.version, r.config>>

\* Hits and postings refer to chunks that are stored.
RetrievalHit(id) == \E c \in db["document_chunks"] : ChunkId(c) = id

OneRowPer(rows, key(_)) == Cardinality({key(r) : r \in rows}) = Cardinality(rows)

KnowledgeTypeOK ==
    /\ \A r \in db["logical_documents"] : LogicalDocument(r)
    /\ \A r \in db["document_versions"] : DocumentVersion(r) /\ AcceptsVersion(r)
    /\ OneRowPer(db["document_versions"], LAMBDA r : <<r.logical, r.number>>)
    /\ OneRowPer(db["document_versions"], LAMBDA r : <<r.logical, r.checksum>>)
    /\ \A r \in db["document_parse_runs"] :
          /\ DocumentParseRun(r) /\ AcceptsParseRun(r) /\ r.status # "RUNNING"
          /\ \A i \in DOMAIN r.text : DocumentSection(r.text[i])
    /\ OneRowPer(db["document_parse_runs"], RunId)
    /\ \A c \in db["document_chunks"] :
          /\ DocumentChunk(c) /\ AcceptsChunk(c)
          /\ CitationAnchor(c.citation) /\ AcceptsCitation(c.citation)
    /\ OneRowPer(db["document_chunks"], ChunkId)
    /\ \A r \in db["lexical_index_versions"] :
          /\ LexicalIndexVersion(r) /\ AcceptsIndex(r)
          /\ \A p \in r.postings : LexicalPosting(p) /\ RetrievalHit(p.chunk)
    /\ OneRowPer(db["lexical_index_versions"], LAMBDA r : r.id)
    /\ \A r \in db["retrieval_runs"] :
          RetrievalRun(r) /\ AcceptsRetrievalRun(r) /\ \A id \in r.hits : RetrievalHit(id)
    /\ OneRowPer(db["retrieval_runs"], LAMBDA r : <<r.request, r.index>>)

(***************************************************************************)
(* register-version: the exact bytes of a stored source document.          *)
(***************************************************************************)
\* A body is available, with its address, checksum, size and type.
HasBody(r) == r.rec.status = "AVAILABLE" /\ r.rec.body.uri # ""
GetSourceBody(s, n) ==
    {r \in Visible(s, "source_documents") : HasBody(r) /\ r.rec.body.source = n}

IdentityOf(r) == r.rec.body.identity

FindVersion(s, logical, checksum) ==
    {v \in Visible(s, "document_versions") : v.logical = logical /\ v.checksum = checksum}
NextVersionNumber(s, logical) ==
    1 + Max({0} \cup {v.number : v \in {x \in Visible(s, "document_versions") : x.logical = logical}})

\* Metadata, bytes and checksum of the blob are those of the body.
BlobMatches(body) ==
    LET read == ReadVerified(body.uri)
    IN  /\ read.error = NoError /\ read.bytes = body.checksum
        /\ LET meta == Sidecar(InodeUnder(body.uri, "sidecar").put)
           IN  meta.size = body.size /\ meta.type = body.mime

SameContentMetadata(v, body) ==
    /\ v.source = body.source /\ v.uri = body.uri
    /\ v.checksum = body.checksum /\ v.size = body.size /\ v.mime = body.mime
SamePolicy(v, write) ==
    /\ v.supersedes = write.supersedes /\ v.published = write.published
    /\ v.retrieved = write.retrieved /\ v.policy = write.policy /\ v.status = write.status

ValidateSupersedesRelation(s, write) ==
    write.supersedes # 0 =>
        /\ \E v \in Visible(s, "document_versions") : VersionId(v) = <<write.logical, write.supersedes>>
        /\ write.supersedes < write.number

VersionWrite(s, r, req) ==
    LET body == r.rec.body
    IN  [logical |-> body.identity, number |-> NextVersionNumber(s, body.identity),
         supersedes |-> req.supersedes, source |-> body.source, uri |-> body.uri,
         checksum |-> body.checksum, size |-> body.size, mime |-> body.mime,
         published |-> r.rec.published, retrieved |-> r.retrieved, policy |-> req.policy,
         status |-> req.status]

\* What is said of a version that was there: the one asked for, or refused.
Reused(existing, write) ==
    IF \E v \in existing : SamePolicy(v, write) THEN "REUSED" ELSE "BLOCKED"

\* The service takes a superseded version with the request; the command line never
\* gives one.
RegisterStart(s, req) ==
    \E r \in GetSourceBody(s, req.source) :
        /\ IdentityOf(r) # ""
        /\ Start(s, "register", "logical",
                 [row |-> r, req |-> req, write |-> <<>>, result |-> "BLOCKED",
                  known |-> \E l \in db["logical_documents"] : l.identity = IdentityOf(r)])

\* The insert has no savepoint: a second writer of the identity fails.
GetOrCreateLogicalDocument(s) ==
    /\ At(s, "logical")
    /\ LET w == sess[s].work
           new == [identity |-> IdentityOf(w.row)]
       IN  \/ w.known /\ Goto(s, "register", sess[s].tx, w)
           \/ /\ ~w.known /\ new \notin Pending(s, "logical_documents")
              /\ IF new \in db["logical_documents"] THEN Rollback(s)
                 ELSE Goto(s, "register", Insert(s, "logical_documents", {new}), w)
    /\ UNCHANGED blobVars

\* A refused registration commits nothing but the logical document.
RegisterVersion(s) ==
    /\ At(s, "register")
    /\ LET w == sess[s].work
           body == w.row.rec.body
           write == VersionWrite(s, w.row, w.req)
           existing == FindVersion(s, write.logical, body.checksum)
           refused == \/ \E v \in existing : ~SameContentMetadata(v, body)
                      \/ ~BlobMatches(body)
       IN  IF refused \/ existing # {} \/ ~ValidateSupersedesRelation(s, write)
           THEN Goto(s, "written", sess[s].tx,
                     [w EXCEPT !.result = IF refused THEN "BLOCKED" ELSE Reused(existing, write)])
           ELSE Goto(s, "version", sess[s].tx, [w EXCEPT !.write = write])
    /\ UNCHANGED blobVars

\* The triggers of document_versions: its identity and its source exist, and
\* what it supersedes is an older version of the same document.
LineageAccepts(s, write) ==
    /\ \E l \in Visible(s, "logical_documents") : l.identity = write.logical
    /\ \E r \in Visible(s, "source_documents") :
          r.rec.body.source = write.source /\ r.rec.body.identity = write.logical
SupersessionAccepts(s, write) ==
    write.supersedes = 0 \/ \E v \in Visible(s, "document_versions") :
        VersionId(v) = <<write.logical, write.supersedes>> /\ v.number < write.number

SameVersionKey(v, write) ==
    v.logical = write.logical /\ (v.checksum = write.checksum \/ v.number = write.number)

\* The winner of the same bytes is reused; the winner of the number is not.
AcquireVersion(s) ==
    /\ At(s, "version")
    /\ LET w == sess[s].work
           taken == {v \in db["document_versions"] : SameVersionKey(v, w.write)}
           winner == FindVersion(s, w.write.logical, w.write.checksum)
       IN  /\ \A v \in Pending(s, "document_versions") : ~SameVersionKey(v, w.write)
           /\ IF taken = {} /\ LineageAccepts(s, w.write) /\ SupersessionAccepts(s, w.write)
              THEN Goto(s, "written", Insert(s, "document_versions", {w.write}),
                        [w EXCEPT !.result = "CREATED"])
              ELSE IF winner # {}
              THEN Goto(s, "written", sess[s].tx,
                        [w EXCEPT !.result =
                            IF \A v \in winner : SameContentMetadata(v, w.row.rec.body)
                            THEN Reused(winner, w.write) ELSE "BLOCKED"])
              ELSE Rollback(s)
    /\ UNCHANGED blobVars

(***************************************************************************)
(* parse: one parse run, its artifacts, chunks and citations.              *)
(***************************************************************************)
FindParseRun(s, id) == {r \in Visible(s, "document_parse_runs") : RunId(r) = id}

\* A stored document comes back without what its parser said of it.
GetParsedDocument(run) == [run EXCEPT !.meta = "postgresql"]

\* One chunk per passage; its checksum covers the parser's metadata.
Chunk(run) ==
    {[run |-> RunId(run), index |-> i, text |-> run.text[i],
      checksum |-> <<run.text, run.meta, i>>] : i \in DOMAIN run.text}

CreateCitation(draft, run, version) ==
    [excerpt |-> draft.text, text |-> run.text, document |-> version.checksum]

Cited(run, version) ==
    {[run |-> d.run, index |-> d.index, text |-> d.text, checksum |-> d.checksum,
      citation |-> CreateCitation(d, run, version)] : d \in Chunk(run)}

ChunksOf(s, run) == {c \in Visible(s, "document_chunks") : c.run = RunId(run)}

\* add_chunks_and_citations for a run that is there: the chunks must be the
\* stored ones, or the command fails.
ChunksAgree(s, run) ==
    {c.checksum : c \in ChunksOf(s, run)} = {d.checksum : d \in Chunk(GetParsedDocument(run))}

\* The run is read, then the bytes.
ParseStart(s, v, config) ==
    LET id == <<VersionId(v), config>>
        read == ReadVerified(v.uri)
    IN  Start(s, "parse",
              IF FindParseRun(s, id) # {} THEN "parsed"
              ELSE IF read.error # NoError THEN "written" ELSE "parse",
              [id |-> id, version |-> v, bytes |-> read.bytes])

ParsedRun(w) ==
    LET output == ParserOutput[w.bytes]
    IN  [version |-> w.id[1], config |-> w.id[2], status |-> output.status, text |-> output.sections,
         meta |-> "parser"]

\* The insert of the run waits for another parse of the same generation.
AcquireParseRun(s) ==
    /\ At(s, "parse")
    /\ LET w == sess[s].work
           run == ParsedRun(w)
           chunks == Cited(run, w.version)
       IN  /\ \A r \in Pending(s, "document_parse_runs") : RunId(r) # w.id
           /\ IF FindParseRun(s, w.id) # {} THEN Goto(s, "parsed", sess[s].tx, w)
              ELSE IF \E c \in chunks : ~(AcceptsChunk(c) /\ AcceptsCitation(c.citation))
              THEN Rollback(s)
              ELSE Goto(s, "written", [Insert(s, "document_parse_runs", {run}) EXCEPT
                                          !["document_chunks"] = @ \cup chunks], w)
    /\ UNCHANGED blobVars

ReuseParseRun(s) ==
    /\ At(s, "parsed")
    /\ LET w == sess[s].work
       IN  IF \A run \in FindParseRun(s, w.id) : ChunksAgree(s, run)
           THEN Goto(s, "written", sess[s].tx, w) ELSE Rollback(s)
    /\ UNCHANGED blobVars

(***************************************************************************)
(* Supersession and the chunks that can be indexed.                        *)
(***************************************************************************)
VersionById(s, id) == CHOOSE v \in Visible(s, "document_versions") : VersionId(v) = id
Superseders(s, v) ==
    {x \in Visible(s, "document_versions") : x.logical = v.logical /\ x.supersedes = v.number}
\* When a version was superseded, for which a publication must be known.
SupersessionState(s, v) ==
    LET by == Superseders(s, v)
        times == {x.published : x \in by} \ {0}
    IN  [superseded |-> by # {}, at |-> IF times = {} THEN 0 ELSE Min(times),
         unknown |-> \E x \in by : x.published = 0]
SupersededAt(s, v, asOf) ==
    LET state == SupersessionState(s, v)
    IN  state.superseded /\ (state.unknown \/ asOf = 0 \/ state.at <= asOf)

SnapshotIds(s, v) == {l.snapshot : l \in {x \in Visible(s, "snapshot_document_versions") :
                                            x.version = VersionId(v)}}

ListIndexableChunks(s) == Visible(s, "document_chunks")

(***************************************************************************)
(* build-lexical-index.  An index is named by its scope and its documents. *)
(***************************************************************************)
EligibleChunk(s, c, scope) ==
    LET v == VersionById(s, c.run[1])
    IN  IF scope.snapshot # 0 THEN scope.snapshot \in SnapshotIds(s, v)
        ELSE v.published # 0 /\ v.published <= scope.asOf /\ ~SupersededAt(s, v, scope.asOf)

BuildIndex(s, scope) ==
    LET eligible == {c \in ListIndexableChunks(s) : EligibleChunk(s, c, scope)}
        documents == {<<c.run[1], c.citation.document>> : c \in eligible}
    IN  [id |-> [snapshot |-> scope.snapshot, asOf |-> scope.asOf, documents |-> documents],
         status |-> "COMPLETE", documents |-> documents,
         postings |-> UNION {{[token |-> t, chunk |-> ChunkId(c)] : t \in c.text.tokens} :
                               c \in eligible},
         completed |-> commands + 1]

Scope(q) == [snapshot |-> q.snapshot, asOf |-> q.asOf]

BuildStart(s, scope) ==
    /\ ListIndexableChunks(s) # {}
    /\ Start(s, "build", "index", [index |-> BuildIndex(s, scope)])

\* An index of the same name is kept, whatever its postings are.
PersistLexicalIndex(s) ==
    /\ At(s, "index")
    /\ LET w == sess[s].work
           stored == {i \in db["lexical_index_versions"] : i.id = w.index.id}
       IN  /\ \A i \in Pending(s, "lexical_index_versions") : i.id # w.index.id
           /\ Goto(s, "written",
                   IF stored # {} THEN sess[s].tx
                   ELSE Insert(s, "lexical_index_versions", {w.index}), w)
    /\ UNCHANGED blobVars

(***************************************************************************)
(* Citations.                                                              *)
(***************************************************************************)
ValidBlob(v) ==
    LET read == ReadVerified(v.uri) IN read.error = NoError /\ read.bytes = v.checksum

LocatorExists(c, run) == c.index \in DOMAIN run.text
ExcerptMatches(c, run) == run.text[c.index] = c.citation.excerpt /\ c.text = c.citation.excerpt

\* Mutant: a withdrawn source may still be cited.
VerifyCitationWithdrawn(s, c, scope, strict) ==
    LET v == VersionById(s, c.run[1])
    IN  IF SupersededAt(s, v, scope.asOf) THEN "STALE_REFERENCE"
        ELSE IF ~ValidBlob(v) THEN "SOURCE_MISSING" ELSE "VALID"

\* CitationVerifier.verify, in its order.
VerifyCitation(s, c, scope, strict) ==
    LET v == VersionById(s, c.run[1])
        run == CHOOSE r \in FindParseRun(s, c.run) : TRUE
    IN  IF ReadVerified(v.uri).error # NoError THEN "SOURCE_MISSING"
        ELSE IF c.citation.document # v.checksum THEN "STALE_REFERENCE"
        ELSE IF scope.snapshot # 0 /\ scope.snapshot \notin SnapshotIds(s, v) THEN "STALE_REFERENCE"
        ELSE IF v.status = "WITHDRAWN" THEN "STALE_REFERENCE"
        ELSE IF SupersededAt(s, v, scope.asOf) THEN "STALE_REFERENCE"
        ELSE IF strict /\ v.published = 0 THEN "INVALID"
        ELSE IF scope.asOf # 0 /\ v.published > scope.asOf THEN "FUTURE_DATA"
        ELSE IF ~ValidBlob(v) THEN "SOURCE_MISSING"
        ELSE IF ~LocatorExists(c, run) \/ c.citation.text # run.text THEN "INVALID"
        ELSE IF ~ExcerptMatches(c, run) THEN "INVALID"
        ELSE "VALID"

(***************************************************************************)
(* What earlier commands may have left.                                    *)
(***************************************************************************)
\* Bytes that are in the directory and that the parsers have an answer for.
ValidBytes(x, entries, puts) ==
    /\ x.checksum \in DOMAIN ParserOutput
    /\ \E put \in DOMAIN puts : WholeBlob(entries, puts, put, x.uri, x.checksum)

\* A parse run is of a stored version and comes with the chunks of all of
\* its sections, and no others.
WholeParses(runs, chunks, versions) ==
    /\ \A r \in runs :
          /\ r.text \in Seq(ToSet(r.text))
          /\ \E v \in versions : VersionId(v) = r.version
          /\ \A i \in DOMAIN r.text : \E c \in chunks : c.run = RunId(r) /\ c.index = i
    /\ \A c \in chunks : \E r \in runs : c.run = RunId(r) /\ c.index \in DOMAIN r.text

\* A hit of a stored search leads to a passage of a version that was there
\* for the search, and to a posting of its index.
Cites(d, run, id) ==
    /\ run.request.snapshot = 0 /\ run.request.asOf \in Nat
    /\ \E c \in d["document_chunks"], r \in d["document_parse_runs"], v \in d["document_versions"] :
          /\ ChunkId(c) = id /\ c.run = RunId(r) /\ r.version = VersionId(v)
          /\ v.status # "WITHDRAWN" /\ v.published \in 1..run.request.asOf
          /\ c.citation.document = v.checksum /\ c.citation.text = r.text
          /\ LocatorExists(c, r) /\ ExcerptMatches(c, r)
    /\ \E i \in d["lexical_index_versions"] :
          run.index = <<i.id>> /\ \E p \in i.postings : p.chunk = id /\ p.token \in run.request.query

ValidDocuments(d, entries, puts) ==
    /\ \A r \in d["source_documents"] :
          HasBody(r) => r.rec.published \in Nat /\ ValidBytes(r.rec.body, entries, puts)
    /\ \A v \in d["document_versions"] : v.published \in Nat /\ ValidBytes(v, entries, puts)
    /\ \A v, x \in d["document_versions"] : VersionId(v) = VersionId(x) => v = x
    /\ \A r, q \in d["document_parse_runs"] : RunId(r) = RunId(q) => r = q
    /\ \A c, x \in d["document_chunks"] : ChunkId(c) = ChunkId(x) => c = x
    /\ WholeParses(d["document_parse_runs"], d["document_chunks"], d["document_versions"])
    /\ \A run \in d["retrieval_runs"] : \A id \in run.hits : Cites(d, run, id)
    /\ d["snapshot_document_versions"] = {}

(***************************************************************************)
(* search.                                                                 *)
(***************************************************************************)
\* The index of the scope whose transaction began last.
FindLexicalIndex(s, scope) ==
    LET of == {i \in Visible(s, "lexical_index_versions") :
                  /\ i.status = "COMPLETE" /\ i.id.snapshot = scope.snapshot
                  /\ scope.snapshot = 0 => i.id.asOf = scope.asOf}
    IN  {i \in of : \A j \in of : j.completed <= i.completed}

MatchesFilters(s, c, q) ==
    LET v == VersionById(s, c.run[1])
    IN  /\ q.snapshot # 0 => q.snapshot \in SnapshotIds(s, v)
        /\ q.asOf # 0 => v.published # 0 /\ v.published <= q.asOf /\ ~SupersededAt(s, v, q.asOf)

LexicalSearch(s, index, q) ==
    {c \in ListIndexableChunks(s) :
        /\ \E p \in index.postings : p.chunk = ChunkId(c) /\ p.token \in q.query
        /\ MatchesFilters(s, c, q)}

\* The state of the run before its citations are checked.
Retrieve(q, found) ==
    CASE q.mode = "VECTOR" -> [status |-> "BLOCKED", hits |-> {}, warnings |-> 1]
      [] q.mode = "HYBRID" -> [status |-> "PARTIAL", hits |-> found, warnings |-> 1]
      [] OTHER -> [status |-> "PASS", hits |-> found, warnings |-> 0]

GenerationId(q, index) == IF q.mode = "VECTOR" THEN <<>> ELSE <<index.id>>
FindRun(s, q, generation) ==
    {r \in Visible(s, "retrieval_runs") : r.request = q /\ r.index = generation}

SearchStart(s, q) ==
    \E index \in FindLexicalIndex(s, Scope(q)) :
        Start(s, "search", "retrieve", [q |-> q, index |-> index, hits |-> {}])

\* Chunks are read after the index; a stored run answers at once.
SearchRetrieve(s) ==
    /\ At(s, "retrieve")
    /\ LET w == sess[s].work
           found == LexicalSearch(s, w.index, w.q)
       IN  IF FindRun(s, w.q, GenerationId(w.q, w.index)) # {}
           THEN Goto(s, "written", sess[s].tx, w)
           ELSE \E top \in kSubset(Min({w.q.max, Cardinality(found)}), found) :
                   Goto(s, "execute", sess[s].tx, [w EXCEPT !.hits = top])
    /\ UNCHANGED blobVars

\* Hits whose citation does not verify are dropped, with a warning.
Execute(s, w) ==
    LET prepared == Retrieve(w.q, w.hits)
        valid == {c \in prepared.hits : VerifyCitation(s, c, Scope(w.q), TRUE) = "VALID"}
        dropped == valid # prepared.hits
    IN  [request |-> w.q, index |-> GenerationId(w.q, w.index),
         status |-> IF dropped /\ valid = {} THEN "BLOCKED"
                    ELSE IF dropped /\ prepared.status = "PASS" THEN "PARTIAL" ELSE prepared.status,
         warnings |-> prepared.warnings + (IF dropped THEN 1 ELSE 0),
         hits |-> {ChunkId(c) : c \in valid}]

SearchExecute(s) ==
    /\ At(s, "execute")
    /\ LET w == sess[s].work
           generation == GenerationId(w.q, w.index)
       IN  /\ \A r \in Pending(s, "retrieval_runs") : ~(r.request = w.q /\ r.index = generation)
           /\ Goto(s, "written",
                   IF FindRun(s, w.q, generation) # {} THEN sess[s].tx
                   ELSE Insert(s, "retrieval_runs", {Execute(s, w)}), w)
    /\ UNCHANGED blobVars

KnowledgeCommit(s) == At(s, "written") /\ Commit(s) /\ UNCHANGED blobVars

KnowledgeStep(s) ==
    \/ \E req \in VersionRequests : RegisterStart(s, req)
    \/ GetOrCreateLogicalDocument(s) \/ RegisterVersion(s) \/ AcquireVersion(s)
    \/ \E v \in db["document_versions"], config \in ParserConfigs : ParseStart(s, v, config)
    \/ AcquireParseRun(s) \/ ReuseParseRun(s)
    \/ \E q \in SearchRequests : BuildStart(s, Scope(q)) \/ SearchStart(s, q)
    \/ PersistLexicalIndex(s) \/ SearchRetrieve(s) \/ SearchExecute(s) \/ KnowledgeCommit(s)

(***************************************************************************)
(* Reading back.                                                           *)
(***************************************************************************)
ChunkById(id) == CHOOSE c \in db["document_chunks"] : ChunkId(c) = id

\* The bundle of a stored run: its hits whose citations verify now.
BundleForRun(s, run) ==
    {id \in run.hits : VerifyCitation(s, ChunkById(id), Scope(run.request), TRUE) = "VALID"}

\* What a stored search found stays evidence: each hit is a passage of a
\* parsed document that was published by the search's cutoff and never
\* withdrawn, that the named index lists under a word of the query, and
\* whose citation verifies against the stored bytes at any later time,
\* unless a newer version of the document has retired it; and every parsed
\* document has the citations of all of its sections.
EvidenceCitable ==
    \A s \in Sessions :
        /\ sess[s].cmd = "idle" => \A run \in db["retrieval_runs"] : \A id \in run.hits :
              LET v == VersionById(s, ChunkById(id).run[1])
              IN  /\ v.status # "WITHDRAWN"
                  /\ v.published \in 1..run.request.asOf
                  /\ \E i \in db["lexical_index_versions"] :
                        run.index = <<i.id>> /\ \E p \in i.postings :
                            p.chunk = id /\ p.token \in run.request.query
                  /\ id \in BundleForRun(s, run) \/ SupersededAt(s, v, run.request.asOf)
        /\ sess[s].cmd = "idle" => \A run \in db["document_parse_runs"] :
              Cardinality(ChunksOf(s, run)) = Len(run.text)
=============================================================================
