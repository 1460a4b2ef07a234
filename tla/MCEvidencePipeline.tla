-------------------------- MODULE MCEvidencePipeline --------------------------
(* Two processes over a fresh installation, over one whose provider is     *)
(* known, over one with reported revenue, a late third quarter, snapshots  *)
(* at two cutoffs and prices that came after them, or over one with filed  *)
(* documents of which some were withdrawn or replaced.  Two commands over  *)
(* the first two, and three over the others.                               *)
EXTENDS EvidencePipeline

TheTables ==
  {"data_providers", "provider_instrument_mappings", "ingestion_runs", "provider_request_logs",
   "raw_payloads", "daily_price_bars", "corporate_actions", "provider_financial_facts",
   "source_documents", "data_snapshots", "canonical_financial_concepts", "formula_definitions",
   "normalized_financial_facts", "calculation_runs", "logical_documents", "document_versions",
   "document_parse_runs", "document_chunks", "snapshot_document_versions",
   "lexical_index_versions", "retrieval_runs", "security_master"}

Early == 600
Late == 700

(* The security master of V0.1, one exchange alias and one name of each    *)
(* kind, and a correction by hand: Micron suspended, with a second listing.*)
AliasOf(security, type, alias) ==
  [table |-> "security_aliases", id |-> alias, security |-> security, type |-> type,
   alias |-> alias, from |-> 0, to |-> 0, active |-> TRUE]
ListingOf(id, issuer, exchange, symbol, listing) ==
  [table |-> "securities", id |-> id, issuer |-> issuer, exchange |-> exchange, symbol |-> symbol,
   listing |-> listing, listed |-> 0, delisted |-> 0]
MarketOf(id, code) == [table |-> "markets", id |-> id, code |-> code, status |-> "UNKNOWN"]
ExchangeOf(id, market) ==
  [table |-> "exchanges", id |-> id, market |-> market, mic |-> id, status |-> "UNKNOWN"]
ExchangeAliasOf(id, exchange) ==
  [table |-> "exchange_aliases", id |-> id, exchange |-> exchange, alias |-> id, active |-> TRUE]
IssuerOf(id, legal, display) ==
  [table |-> "issuers", id |-> id, legal |-> legal, display |-> display, status |-> "UNKNOWN"]
TheRowInfo ==
  [CN |-> MarketOf("CN", "CN_A"), US |-> MarketOf("US", "US_EQUITY"),
   XSHG |-> ExchangeOf("XSHG", "CN"), XNAS |-> ExchangeOf("XNAS", "US"),
   SH |-> ExchangeAliasOf("SH", "XSHG"), NASDAQ |-> ExchangeAliasOf("NASDAQ", "XNAS"),
   FII |-> IssuerOf("FII", <<"FOXCONN">>, <<"FII">>),
   Micron |-> IssuerOf("Micron", <<"MIC", "RON", "INC">>, <<"MIC", "RON", "TECHNOLOGY">>),
   CIK |-> [table |-> "issuer_identifiers", id |-> "CIK", issuer |-> "Micron",
            scheme |-> "SEC_CIK", value |-> "723125", from |-> 0, to |-> 0],
   S601138 |-> ListingOf("S601138", "FII", "XSHG", <<"601138">>, "UNKNOWN"),
   MU |-> ListingOf("MU", "Micron", "XNAS", <<"MU">>, "UNKNOWN"),
   aFII |-> AliasOf("S601138", "SYMBOL_WITH_EXCHANGE", <<"601138.SH">>),
   aNasdaqMu |-> AliasOf("MU", "SYMBOL_WITH_EXCHANGE", <<"NASDAQ:MU">>),
   aMicron |-> AliasOf("MU", "COMPANY_SHORT_NAME", <<"MIC", "RON">>),
   suspendedMU |-> ListingOf("MU", "Micron", "XNAS", <<"MU">>, "SUSPENDED"),
   MUinShanghai |-> ListingOf("MUSH", "Micron", "XSHG", <<"MU">>, "ACTIVE")]
TheManifest ==
  <<"CN", "US", "XSHG", "XNAS", "SH", "NASDAQ", "FII", "Micron", "CIK", "S601138", "MU",
    "aFII", "aNasdaqMu", "aMicron">>
Corrected == (ToSet(TheManifest) \ {"MU"}) \cup {"suspendedMU", "MUinShanghai"}

Asks(exchange, listed, cik, symbol, name) ==
  [valid |-> TRUE, exchange |-> exchange, listed |-> listed, cik |-> cik, symbol |-> symbol,
   name |-> name]
TheSecurityQuery == Asks("", <<>>, "", <<"MU">>, <<"MU">>)
TheQueries ==
  {TheSecurityQuery,
   Asks("NASDAQ", <<"MU">>, "", <<"NASDAQ:MU">>, <<"NASDAQ:MU">>),
   Asks("SH", <<"MU">>, "", <<"MU.SH">>, <<"MU", "SH">>),
   Asks("B", <<"BRK">>, "", <<"BRK.B">>, <<"BRK", "B">>),
   Asks("", <<>>, "723125", <<"SEC_CIK:723125">>, <<"SEC_CIK:723125">>),
   Asks("", <<>>, "", <<>>, <<"MIC", "RON", "TECHNOLOGY">>),
   Asks("", <<>>, "", <<"MIC">>, <<"MIC">>),
   [Asks("", <<>>, "", <<>>, <<>>) EXCEPT !.valid = FALSE]}

Fact(id, concept, name, year, quarter, start, end, value, published) ==
  [type |-> "financial_fact", id |-> id, concept |-> concept, taxonomy |-> "us-gaap",
   statement |-> "INCOME_STATEMENT", dimensions |-> {},
   form |-> "10-K", context |-> "CONSOLIDATED", unit |-> "THOUSAND", currency |-> "USD",
   value |-> value, valued |-> TRUE, year |-> year, quarter |-> quarter, name |-> name,
   start |-> start, date |-> end, instant |-> 0, annual |-> name = "FY", cumulative |-> TRUE,
   restated |-> FALSE, published |-> published]

Reported ==
  <<Fact(1, "Revenues", "Q1", 2024, 1, 1, 91, 2, 100),
    Fact(2, "Revenues", "H1", 2024, 2, 1, 182, 5, 200),
    Fact(3, "Revenues", "FY", 2024, 0, 1, 366, 12, 400),
    Fact(4, "Revenues", "Q1", 2025, 1, 367, 456, 3, 470),
    Fact(5, "Revenues", "H1", 2025, 2, 367, 547, 7, 560)>>
NineMonths == <<Fact(6, "Revenues", "9M", 2024, 3, 1, 274, 8, 650)>>
Restated == <<[Fact(7, "Revenues", "H1", 2025, 2, 367, 547, 8, 590) EXCEPT !.restated = TRUE]>>
Price(date, published) ==
  [type |-> "daily_price", date |-> date, low |-> 1, high |-> 2, published |-> published]

Envelope(category, bytes, quality, records, retrieved) ==
  [raises |-> FALSE, exact |-> TRUE, origin |-> "fixture", version |-> 1, category |-> category,
   raw |-> [bytes |-> bytes, size |-> 1, type |-> "json"], quality |-> quality,
   records |-> records, warnings |-> 0, retrieved |-> retrieved, published |-> 0]

Facts == Envelope("FINANCIAL_FACTS", "facts", "PASS", Reported, 580)
LateFacts == Envelope("FINANCIAL_FACTS", "late", "PASS", NineMonths, 660)
Restatement == Envelope("FINANCIAL_FACTS", "restated", "PASS", Restated, 595)
Prices == Envelope("DAILY_PRICES", "prices", "PASS", <<Price(550, 0), Price(560, 565)>>, 570)
Oversized == [Prices EXCEPT !.raw.size = 2]
Mislabelled == [Prices EXCEPT !.version = 2]
BadPrices == [Envelope("DAILY_PRICES", "bad", "PASS", <<[Price(550, 0) EXCEPT !.high = 0]>>, 570)
                EXCEPT !.warnings = 1]

Adapter(status, answers) ==
  [version |-> 1, type |-> "FIXTURE", status |-> status, enabled |-> TRUE,
   capabilities |-> {"DAILY_PRICES", "FINANCIAL_FACTS"}, credentials |-> TRUE,
   symbol |-> "ACME", answers |-> answers]
TheAdapters ==
  [fixture |-> Adapter("APPROVED", [DAILY_PRICES |-> {Prices, BadPrices, Oversized, Mislabelled},
                                    FINANCIAL_FACTS |-> {Facts}]),
   vendor |-> Adapter("NEEDS_LICENSE_CONFIRMATION", [DAILY_PRICES |-> {Prices}])]

TheRequests == {[provider |-> "vendor", category |-> "DAILY_PRICES", asOf |-> Early],
               [provider |-> "fixture", category |-> "DAILY_PRICES", asOf |-> Early],
               [provider |-> "fixture", category |-> "FINANCIAL_FACTS", asOf |-> Early]}
SnapshotOf(asOf) ==
  [asOf |-> asOf, categories |-> <<"DAILY_PRICES", "FINANCIAL_FACTS">>, preference |-> <<>>]
VendorFirst == [SnapshotOf(Early) EXCEPT !.preference = <<"vendor", "fixture">>]
TheSnapshotRequests == {SnapshotOf(Early), VendorFirst}

TheFactMappings ==
  {[provider |-> "fixture", concept |-> "Revenues", taxonomy |-> "us-gaap", form |-> "10-K",
    statement |-> "INCOME_STATEMENT", status |-> "APPROVED", from |-> 0, to |-> 0,
    contexts |-> {"CONSOLIDATED"}, dimensions |-> {}, code |-> "REVENUE"]}

Unseeded == [db |-> EmptyTx, root |-> {}, written |-> <<>>, commands |-> 1]
Master(rows) == [EmptyTx EXCEPT !["security_master"] = rows]
Installed == Master(ToSet(TheManifest))
Edited == [Unseeded EXCEPT !.db = Master(Corrected)]
Empty == [db |-> Installed, root |-> {}, written |-> <<>>, commands |-> 1]

(* One put and the rows of one ingestion. *)
BlobOf(key, put) ==
  {[name |-> LocalName(key, part), inode |-> [put |-> put, part |-> part]] : part \in ToSet(Parts)}
IngestedFrom(provider, before, asOf, env, key) ==
  LET req == [provider |-> provider, category |-> env.category, asOf |-> asOf]
      run == IdempotencyKey(req)
      put == Len(before.written) + 1
  IN  [db |-> [before.db EXCEPT
                 !["ingestion_runs"] = @ \cup {CompletedRun(req, env)},
                 !["provider_request_logs"] = @ \cup {RequestLogOf(run, env)},
                 !["raw_payloads"] = @ \cup {PayloadOf(run, env, key)},
                 ![RecordTables[env.category]] = @ \cup RowsFrom(run, env)],
       commands |-> 0,
       root |-> before.root \cup BlobOf(key, put),
       written |-> Append(before.written, [key |-> key, data |-> env.raw])]
Ingested(before, asOf, env, key) == IngestedFrom("fixture", before, asOf, env, key)

Bootstrapped ==
  [Empty EXCEPT !.db = [Installed EXCEPT
      !["data_providers"] = {ProviderWrite("fixture")},
      !["provider_instrument_mappings"] = {MappingWrite("fixture")},
      !["canonical_financial_concepts"] = SeedConcepts,
      !["formula_definitions"] = SeedFormulas]]

Sealed(before, asOf) ==
  LET items == {r \in before.db["provider_financial_facts"] :
                  r.retrieved <= asOf /\ PublishedBy(r.rec, asOf)}
      w == [q |-> SnapshotOf(asOf), version |-> 1, items |-> items,
            warnings |-> {<<"MISSING_CATEGORY", "DAILY_PRICES">>}]
  IN  [before EXCEPT !.db["data_snapshots"] = @ \cup {BuiltSnapshot(w)}]

Reporting == Ingested(Bootstrapped, Early, Facts, "k1")
ReportedEarly == Sealed(Reporting, Early)
ReportingLate == Ingested(ReportedEarly, Late, LateFacts, "k2")
ReportedLate == Sealed(ReportingLate, Late)
Populated == Ingested(ReportedLate, Early, Prices, "k3")

(* Prices of the fixture under a preference for the vendor, whose own came  *)
(* after the snapshot.                                                     *)
Preferring ==
  LET before == Ingested(Bootstrapped, Early, Prices, "k1")
      items == before.db["daily_price_bars"]
      w == [q |-> VendorFirst, version |-> 1, items |-> items,
            warnings |-> CategoryWarnings(VendorFirst, "FINANCIAL_FACTS", {}, {})
                           \cup CategoryWarnings(VendorFirst, "DAILY_PRICES", items, items)]
      sealed == [before EXCEPT !.db["data_snapshots"] = {BuiltSnapshot(w)}]
  IN  [IngestedFrom("vendor", sealed, Early, Prices, "k2") EXCEPT !.commands = 2]

(* An annual report, its amendment and an undated erratum, a withdrawn     *)
(* notice and a long letter.  The report and the notice have been parsed.  *)
Section(tokens, size) == [tokens |-> tokens, size |-> size]
TheParserOutput ==
  [report |-> [status |-> "PASS", sections |-> <<Section({"sales"}, 1)>>],
   amendment |-> [status |-> "PASS", sections |-> <<Section({"sales", "restated"}, 1)>>],
   erratum |-> [status |-> "BLOCKED", sections |-> <<>>],
   notice |-> [status |-> "PASS", sections |-> <<Section({"sales"}, 1)>>],
   letter |-> [status |-> "PASS", sections |-> <<Section({"sales"}, 2)>>]]

Filed(n, identity, bytes, published) ==
  [category |-> "FILING_METADATA", provider |-> "fixture", run |-> 0, n |-> n, retrieved |-> Early,
   rec |-> [type |-> "filing_metadata", date |-> published, complete |-> TRUE,
            status |-> "AVAILABLE", published |-> published,
            body |-> [source |-> n, identity |-> identity, uri |-> bytes, checksum |-> bytes,
                      size |-> 1, mime |-> "text/plain"]]]
Report == Filed(1, "10-K", "report", 300)
Amendment == Filed(2, "10-K", "amendment", 500)
Notice == Filed(3, "8-K", "notice", 300)
Letter == Filed(4, "EX-99", "letter", 300)
Erratum == Filed(5, "10-K", "erratum", 0)

Asked(source, status, supersedes) ==
  [source |-> source, policy |-> "FILED", status |-> status, supersedes |-> supersedes]
TheVersionRequests == {Asked(1, "WITHDRAWN", 0), Asked(2, "ACTIVE", 1), Asked(4, "ACTIVE", 0),
                      Asked(5, "ACTIVE", 1)}
Query(mode, asOf, max) ==
  [query |-> {"sales"}, mode |-> mode, snapshot |-> 0, asOf |-> asOf, max |-> max]
TheSearchRequests == {Query("LEXICAL", 400, 2), Query("HYBRID", Early, 1)}

FirstVersion(r, status) ==
  LET body == r.rec.body
  IN  [logical |-> body.identity, number |-> 1, supersedes |-> 0, source |-> body.source,
       uri |-> body.uri, checksum |-> body.checksum, size |-> body.size, mime |-> body.mime,
       published |-> r.rec.published, retrieved |-> r.retrieved, policy |-> "FILED",
       status |-> status]
ParsedAs(v) ==
  ParsedRun([id |-> <<VersionId(v), "v1">>, version |-> v, bytes |-> v.checksum])

Documented ==
  LET filed == <<Report, Amendment, Notice, Letter, Erratum>>
      parsed == {FirstVersion(Report, "ACTIVE"), FirstVersion(Notice, "WITHDRAWN")}
  IN  [db |-> [Installed EXCEPT
                 !["source_documents"] = ToSet(filed),
                 !["logical_documents"] = {[identity |-> v.logical] : v \in parsed},
                 !["document_versions"] = parsed,
                 !["document_parse_runs"] = {ParsedAs(v) : v \in parsed},
                 !["document_chunks"] = UNION {Cited(ParsedAs(v), v) : v \in parsed}],
       commands |-> 0,
       root |-> UNION {BlobOf(filed[i].rec.body.uri, i) : i \in DOMAIN filed},
       written |-> [i \in DOMAIN filed |->
                      [key |-> filed[i].rec.body.uri,
                       data |-> [bytes |-> filed[i].rec.body.checksum, size |-> 1,
                                 type |-> "text/plain"]]]]

MCInitialStates == {Unseeded, Edited, Empty, Bootstrapped, Populated, Preferring, Documented}
Restating == Ingested(Reporting, 595, Restatement, "k2")
MCRestated == {Sealed(Restating, Early)}

\* The master and the evidence meet only in that a command resolves its security,
\* so seed-v0 and resolve are explored over a database without evidence.
SecuritiesBeforeEvidence ==
  (\E s \in Sessions : sess[s].cmd \in {"seed-master", "resolve"}) =>
      \A t \in Tables \ {"security_master"} : db[t] = {}

(* TLC evaluates what a constant is replaced by at every use, and a definition *)
(* that is only named there once.                                              *)
MCTables == TheTables
MCRowInfo == TheRowInfo
MCManifest == TheManifest
MCAdapters == TheAdapters
MCFactMappings == TheFactMappings
MCParserOutput == TheParserOutput
MCRequests == TheRequests
MCSnapshotRequests == TheSnapshotRequests
MCVersionRequests == TheVersionRequests
MCSearchRequests == TheSearchRequests
MCSecurityQuery == TheSecurityQuery
MCQueries == TheQueries

Symmetry == Permutations(Sessions)
=============================================================================
