---------------------------- MODULE SecurityMaster ----------------------------
(***************************************************************************)
(* The security master: what a manifest of seed rows does to the stored    *)
(* rows, and how a query is resolved to a security (domain/securities, its *)
(* repository and its tables).                                             *)
(*                                                                         *)
(* The stored rows are a set of row names; RowInfo gives the columns of a  *)
(* row, and an edited row is another name for the same id.  A name or a    *)
(* symbol is the sequence of the pieces that queries are made of, so that  *)
(* a prefix is a prefix.  A query is what the normalization functions make *)
(* of its text: whether they accept it, the exchange and symbol it names   *)
(* explicitly, the identifier, and its readings as a symbol and as a name. *)
(***************************************************************************)
EXTENDS Integers, Sequences, FiniteSets, SequencesExt, FiniteSetsExt

CONSTANTS
    RowInfo,        \* row -> table, id and columns
    Manifest,       \* the rows of a seed version, in the order of their tables
    MaxCandidates,  \* the largest number of candidates that is reported
    Today           \* the day of the clock

MasterRows == DOMAIN RowInfo

(***************************************************************************)
(* Tables.  Dates are day numbers and 0 is NULL.                           *)
(***************************************************************************)
Market(r) == DOMAIN r = {"table", "id", "code", "status"}
Exchange(r) == DOMAIN r = {"table", "id", "market", "mic", "status"}
ExchangeAlias(r) == DOMAIN r = {"table", "id", "exchange", "alias", "active"}
Issuer(r) == DOMAIN r = {"table", "id", "legal", "display", "status"}
IssuerIdentifier(r) == DOMAIN r = {"table", "id", "issuer", "scheme", "value", "from", "to"}
Security(r) == DOMAIN r = {"table", "id", "issuer", "exchange", "symbol", "listing", "listed", "delisted"}
SecurityAlias(r) == DOMAIN r = {"table", "id", "security", "type", "alias", "from", "to", "active"}

Statuses == {"ACTIVE", "INACTIVE", "UNKNOWN"}
ListingStatus == {"ACTIVE", "SUSPENDED", "DELISTED", "UNKNOWN"}
InOrder(from, to) == from = 0 \/ to = 0 \/ to >= from

AcceptsMarket(r) == r.status \in Statuses
AcceptsExchange(r) == r.mic \in {"XNAS", "XSHG"} /\ r.status \in Statuses
AcceptsExchangeAlias(r) == r.alias # ""
AcceptsIssuer(r) == r.legal # <<>> /\ r.display # <<>> /\ r.status \in Statuses
AcceptsIssuerIdentifier(r) == r.scheme = "SEC_CIK" /\ InOrder(r.from, r.to)
AcceptsSecurity(r) ==
    r.symbol # <<>> /\ r.listing \in ListingStatus /\ InOrder(r.listed, r.delisted)
AcceptsSecurityAlias(r) ==
    /\ r.alias # <<>> /\ InOrder(r.from, r.to)
    /\ r.type \in {"SYMBOL", "SYMBOL_WITH_EXCHANGE", "COMPANY_SHORT_NAME", "LEGAL_NAME",
                   "ENGLISH_NAME", "PROVIDER_SYMBOL", "FORMER_NAME"}

AcceptsMasterRow(r) ==
    CASE r.table = "markets" -> Market(r) /\ AcceptsMarket(r)
      [] r.table = "exchanges" -> Exchange(r) /\ AcceptsExchange(r)
      [] r.table = "exchange_aliases" -> ExchangeAlias(r) /\ AcceptsExchangeAlias(r)
      [] r.table = "issuers" -> Issuer(r) /\ AcceptsIssuer(r)
      [] r.table = "issuer_identifiers" -> IssuerIdentifier(r) /\ AcceptsIssuerIdentifier(r)
      [] r.table = "securities" -> Security(r) /\ AcceptsSecurity(r)
      [] r.table = "security_aliases" -> SecurityAlias(r) /\ AcceptsSecurityAlias(r)

ASSUME MasterAssumption ==
    /\ \A r \in MasterRows : AcceptsMasterRow(RowInfo[r])
    /\ Manifest \in Seq(MasterRows)
    /\ MaxCandidates \in 1..10

Of(rows, table) == {r \in rows : RowInfo[r].table = table}

(***************************************************************************)
(* Seeding.                                                                *)
(***************************************************************************)
Id(r) == <<RowInfo[r].table, RowInfo[r].id>>

\* What the natural query of a row compares, which its unique key names too.
NaturalKey(r) ==
    LET i == RowInfo[r]
    IN  CASE i.table = "markets" -> <<i.table, i.code>>
          [] i.table = "exchanges" -> <<i.table, i.mic>>
          [] i.table = "exchange_aliases" -> <<i.table, i.alias>>
          [] i.table = "issuers" -> <<i.table, i.id>>
          [] i.table = "issuer_identifiers" -> <<i.table, i.scheme, i.value>>
          [] i.table = "securities" -> <<i.table, i.exchange, i.symbol>>
          [] i.table = "security_aliases" -> <<i.table, i.security, i.type, i.alias>>

\* The rows that the foreign keys of a row name.
References(r) ==
    LET i == RowInfo[r]
    IN  CASE i.table = "exchanges" -> {<<"markets", i.market>>}
          [] i.table = "exchange_aliases" -> {<<"exchanges", i.exchange>>}
          [] i.table = "issuer_identifiers" -> {<<"issuers", i.issuer>>}
          [] i.table = "securities" -> {<<"issuers", i.issuer>>, <<"exchanges", i.exchange>>}
          [] i.table = "security_aliases" -> {<<"securities", i.security>>}
          [] OTHER -> {}

Collides(r, q) == Id(r) = Id(q) \/ NaturalKey(r) = NaturalKey(q)

\* SECURITY_MASTER_SEED_V0: its rows have their own ids and keys, and refer to
\* rows that come before them.
ASSUME ManifestAssumption ==
    \A i \in DOMAIN Manifest :
        /\ \A j \in DOMAIN Manifest : Collides(Manifest[i], Manifest[j]) => i = j
        /\ References(Manifest[i]) \subseteq {Id(Manifest[j]) : j \in 1..(i - 1)}

\* An existing row must be this row in every column, under this id and key.
ApplyRecord(stored, row) ==
    LET existing == {r \in stored : Collides(r, row)}
    IN  IF existing = {row} THEN "EXISTING"
        ELSE IF existing # {} THEN "CONFLICT"
        ELSE IF References(row) \subseteq {Id(r) : r \in stored} THEN "INSERTED" ELSE "CONFLICT"

\* What becomes of each row, when none before it was a conflict.
ApplyManifest(stored) ==
    [i \in DOMAIN Manifest |->
        ApplyRecord(stored \cup {Manifest[j] : j \in 1..(i - 1)}, Manifest[i])]

SeedConflict(stored) == "CONFLICT" \in ToSet(ApplyManifest(stored))

(***************************************************************************)
(* Resolution.  A lookup is one statement and returns securities.          *)
(***************************************************************************)
FindExchangeSymbol(rows, exchange, symbol) ==
    LET on == {RowInfo[a].exchange : a \in {a \in Of(rows, "exchange_aliases") :
                                              RowInfo[a].alias = exchange /\ RowInfo[a].active}}
    IN  [recognized |-> on # {},
         candidates |-> {s \in Of(rows, "securities") :
                            RowInfo[s].exchange \in on /\ RowInfo[s].symbol = symbol}]

FindExternalIdentifier(rows, cik) ==
    {s \in Of(rows, "securities") :
        \E i \in Of(rows, "issuer_identifiers") :
            RowInfo[i].value = cik /\ RowInfo[i].issuer = RowInfo[s].issuer}

FindSymbol(rows, symbol) == {s \in Of(rows, "securities") : RowInfo[s].symbol = symbol}

CurrentAliases(rows, s) ==
    {RowInfo[a].alias : a \in {a \in Of(rows, "security_aliases") :
        LET i == RowInfo[a]
        IN  i.security = RowInfo[s].id /\ i.active /\ i.from <= Today /\ (i.to = 0 \/ i.to >= Today)}}

FindActiveAlias(rows, name) == {s \in Of(rows, "securities") : name \in CurrentAliases(rows, s)}

IssuerNames(rows, s) ==
    UNION {{RowInfo[i].legal, RowInfo[i].display} :
             i \in {i \in Of(rows, "issuers") : RowInfo[i].id = RowInfo[s].issuer}}

FindIssuerName(rows, name) == {s \in Of(rows, "securities") : name \in IssuerNames(rows, s)}

SuggestPrefix(rows, name) ==
    {s \in Of(rows, "securities") :
        \E n \in {RowInfo[s].symbol} \cup IssuerNames(rows, s) \cup CurrentAliases(rows, s) :
            IsPrefix(name, n)}

\* At most MaxCandidates of them; the order decides which.
LoadCandidates(found) ==
    IF Cardinality(found) <= MaxCandidates THEN found
    ELSE CHOOSE first \in kSubset(MaxCandidates, found) : TRUE

NoCandidates(status) == [status |-> status, match |-> "NONE", candidates |-> {}]

\* Mutant: a single suggestion is taken for the answer.
CandidateResult_Guess(match, candidates) ==
    [status |-> IF Cardinality(candidates) = 1 THEN "RESOLVED" ELSE "AMBIGUOUS",
     match |-> match, candidates |-> candidates]

CandidateResult(match, candidates) ==
    [status |-> IF Cardinality(candidates) = 1 /\ match # "PREFIX_SUGGESTION"
                THEN "RESOLVED" ELSE "AMBIGUOUS",
     match |-> match, candidates |-> candidates]

MatchTypes == <<"EXACT_EXCHANGE_SYMBOL", "EXACT_IDENTIFIER", "EXACT_SYMBOL", "EXACT_ALIAS",
                "EXACT_ISSUER_NAME", "PREFIX_SUGGESTION">>

\* The lookups in their order; lookup n sees the rows views[n].
Lookups(q, views) ==
    <<FindExchangeSymbol(views[1], q.exchange, q.listed).candidates,
      FindExternalIdentifier(views[2], q.cik),
      FindSymbol(views[3], q.symbol),
      FindActiveAlias(views[4], q.name),
      FindIssuerName(views[5], q.name),
      SuggestPrefix(views[6], q.name)>>

\* The first lookup that finds anything decides.
Resolve(q, views) ==
    LET found == Lookups(q, views)
        hits == {n \in 1..6 : found[n] # {}}
    IN  IF ~q.valid THEN NoCandidates("INVALID_QUERY")
        ELSE IF FindExchangeSymbol(views[1], q.exchange, q.listed).recognized /\ found[1] = {}
        THEN NoCandidates("NOT_FOUND")
        ELSE IF hits = {} THEN NoCandidates("NOT_FOUND")
        ELSE CandidateResult(MatchTypes[Min(hits)], LoadCandidates(found[Min(hits)]))

\* All lookups see the same rows.
ResolveIn(q, rows) == Resolve(q, [n \in 1..6 |-> rows])
=============================================================================
