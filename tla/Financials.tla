------------------------------ MODULE Financials ------------------------------
(***************************************************************************)
(* Normalization of the financial facts of a snapshot and the metrics      *)
(* calculated from them (domain/financials, its repository, its tables and *)
(* the three commands of cli_financials.py that write).                    *)
(*                                                                         *)
(* A raw fact is identified by its id, whose order is arbitrary in the     *)
(* code (a random UUID) and breaks ties; a normalized fact gets an id next *)
(* to its source's when it is stored, before or after the quarter derived  *)
(* from it, and its inputs are their sources until then.  Dates            *)
(* are day numbers and 0 is NULL.  The rows that are written with a fact   *)
(* (its period, its inputs) and with a run (metrics, inputs) are columns   *)
(* of the fact and of the run.                                             *)
(***************************************************************************)
EXTENDS DataAccess, FinancialFormulas

CONSTANT FactMappings   \* reviewed rows of provider_fact_mappings

(***************************************************************************)
(* Tables.                                                                 *)
(***************************************************************************)
CanonicalFinancialConcept(r) == DOMAIN r = {"code", "definition"}
FormulaDefinition(r) == DOMAIN r = {"metric", "inputs"}
AcceptsConcept(r) ==
    /\ r.definition.unit \in {"MONETARY_AMOUNT", "PER_SHARE", "SHARES", "RATIO"}
    /\ r.definition.nature \in {"DURATION", "INSTANT", "PER_SHARE", "SHARES", "RATIO_INPUT"}
AcceptsFormula(r) == r.inputs # <<>>
ProviderFactMapping(m) ==
    DOMAIN m = {"provider", "concept", "taxonomy", "statement", "form", "status", "from", "to",
                "contexts", "dimensions", "code"}
AcceptsFactMapping(m) ==
    /\ m.status \in {"APPROVED", "AMBIGUOUS", "UNMAPPED", "DEPRECATED"}
    /\ m.status = "APPROVED" => m.code # ""
    /\ m.to = 0 \/ m.from = 0 \/ m.to >= m.from

ASSUME MappingAssumption == \A m \in FactMappings : ProviderFactMapping(m) /\ AcceptsFactMapping(m)

FinancialPeriod(p) ==
    DOMAIN p = {"year", "quarter", "name", "type", "start", "end", "published", "cumulative",
                "single", "standard", "form"}
AcceptsFinancialPeriod(p) ==
    /\ p.type \in {"ANNUAL", "QUARTER", "HALF_YEAR", "NINE_MONTH_YTD", "YEAR_TO_DATE", "INSTANT"}
    /\ p.quarter \in 0..4 /\ p.year \in 1900..9999
    /\ IF p.type = "INSTANT" THEN p.start = 0 /\ ~p.cumulative /\ ~p.single
       ELSE p.start # 0 /\ p.end >= p.start
\* The unique key of financial_periods: every column but the dates of filing.
PeriodIdentity(p) == [p EXCEPT !.published = 0]

NormalizedFinancialFact(r) ==
    DOMAIN r = {"id", "snapshot", "source", "code", "period", "value", "original", "unit", "scale",
                "currency", "nature", "derived", "restated", "published", "inputs"}
AcceptsNormalizedFact(r) == r.scale > 0
\* The lineage of a derived fact names other facts, in their order.
NormalizedFactInput(r) == \A i \in DOMAIN r.inputs : r.inputs[i] \in Nat
AcceptsNormalizedFactInput(r) == \A i \in DOMAIN r.inputs : r.inputs[i] # r.id

CalculationRun(r) == DOMAIN r = {"snapshot", "checksum", "status", "warnings", "metrics"}
AcceptsCalculationRun(r) == r.status \in {"RUNNING", "PASS", "PARTIAL", "BLOCKED"} /\ r.warnings >= 0
DerivedMetric(m) ==
    DOMAIN m = {"value", "state", "unit", "currency", "quality", "warnings", "period", "inputs"}
AcceptsDerivedMetric(m) ==
    /\ \/ m.state = "VALUE" /\ m.value # <<>> /\ m.value[1] # 0
       \/ m.state = "ZERO" /\ m.value # <<>> /\ m.value[1] = 0
       \/ m.state \in {"NULL", "NOT_MEANINGFUL"} /\ m.value = <<>>
    /\ m.quality \in QualityStatuses
CalculationInput(m) == \A role \in DOMAIN m.inputs : m.inputs[role] # 0

FinancialsTypeOK ==
    /\ \A r \in db["canonical_financial_concepts"] : CanonicalFinancialConcept(r) /\ AcceptsConcept(r)
    /\ \A r \in db["formula_definitions"] : FormulaDefinition(r) /\ AcceptsFormula(r)
    /\ \A r \in db["normalized_financial_facts"] :
          /\ NormalizedFinancialFact(r) /\ AcceptsNormalizedFact(r)
          /\ NormalizedFactInput(r) /\ AcceptsNormalizedFactInput(r)
          /\ FinancialPeriod(r.period) /\ AcceptsFinancialPeriod(r.period)
    /\ \A r, q \in db["normalized_financial_facts"] :
          /\ r.snapshot = q.snapshot /\ r.source = q.source /\ r.derived = q.derived => r = q
          /\ r.snapshot = q.snapshot /\ PeriodIdentity(r.period) = PeriodIdentity(q.period)
                => r.period = q.period
    /\ \A r \in db["calculation_runs"] :
          /\ CalculationRun(r) /\ AcceptsCalculationRun(r) /\ r.status # "RUNNING"
          /\ \A code \in DOMAIN r.metrics :
                LET m == r.metrics[code]
                IN  DerivedMetric(m) /\ AcceptsDerivedMetric(m) /\ CalculationInput(m)
    /\ \A r, q \in db["calculation_runs"] :
          r.snapshot = q.snapshot /\ r.checksum = q.checksum => r = q

(***************************************************************************)
(* seed-v0: concepts and formulas under an advisory lock.                  *)
(***************************************************************************)
SeedConcepts == {[code |-> c, definition |-> GetConcept(c)] :
                    c \in IncomeAmounts \cup CashFlowAmounts \cup BalanceAmounts
                          \cup PerShareConcepts \cup ShareConcepts}
SeedFormulas == {[metric |-> c, inputs |-> FormulaRegistry[c]] : c \in MetricCodes}

SeedStart(s) == Start(s, "seed", "apply", <<>>)

\* A row that is there must be the row of the manifest, or the seed fails.
ApplySeedModel(rows, stored, key) ==
    \A r \in rows, q \in stored : r[key] = q[key] => r = q

ApplyFinancialReferenceSeed(s) ==
    /\ At(s, "apply")
    /\ \A u \in Sessions \ {s} : ~(sess[u].cmd = "seed" /\ sess[u].pc = "done")
    /\ LET concepts == Visible(s, "canonical_financial_concepts")
           formulas == Visible(s, "formula_definitions")
       IN  IF /\ ApplySeedModel(SeedConcepts, concepts, "code")
              /\ ApplySeedModel(SeedFormulas, formulas, "metric")
           THEN Goto(s, "done", [Insert(s, "formula_definitions", SeedFormulas \ formulas) EXCEPT
                                   !["canonical_financial_concepts"] = SeedConcepts \ concepts], <<>>)
           ELSE Rollback(s)
    /\ UNCHANGED blobVars

(***************************************************************************)
(* Normalization of one fact.                                              *)
(***************************************************************************)
\* The facts of the snapshot that have a value, a unit and a fiscal identity.
ListSnapshotFinancialFacts(snapshot) ==
    {i \in snapshot.items : /\ i.category = "FINANCIAL_FACTS" /\ i.rec.valued
                            /\ i.rec.unit # "" /\ i.rec.year # 0 /\ i.rec.name # ""}

EligibleFact(rec, asOf) == rec.published # 0 /\ rec.published <= asOf

\* Exactly one approved rule must match, on every column, its contexts and its
\* dimensions.
ApprovedFactMappings(item, asOf) ==
    {m \in FactMappings :
        /\ m.provider = item.provider /\ m.concept = item.rec.concept
        /\ m.taxonomy = item.rec.taxonomy /\ m.form = item.rec.form
        /\ m.statement = item.rec.statement
        /\ m.status = "APPROVED"
        /\ m.from = 0 \/ m.from <= asOf
        /\ m.to = 0 \/ m.to >= asOf
        /\ m.contexts \subseteq {item.rec.context}
        /\ m.dimensions \subseteq item.rec.dimensions}
FindApprovedFactMapping(item, asOf) == Cardinality(ApprovedFactMappings(item, asOf)) = 1
ConceptOf(item, asOf) == (CHOOSE m \in ApprovedFactMappings(item, asOf) : TRUE).code

AmountScales == [ONE |-> 1, THOUSAND |-> 1000, MILLION |-> 1000000, BILLION |-> 1000000000]
\* The scale of a declared unit, 0 when it does not fit; ratios in hundredths.
NormalizeUnit(unit, expected) ==
    CASE expected = "MONETARY_AMOUNT" /\ unit \in DOMAIN AmountScales -> AmountScales[unit]
      [] expected \in {"PER_SHARE", "SHARES"} /\ unit = expected -> 1
      [] expected = "RATIO" /\ unit = "PERCENT" -> 1
      [] expected = "RATIO" /\ unit = "RATIO" -> 100
      [] OTHER -> 0
NormalizedUnit(expected) == IF expected = "MONETARY_AMOUNT" THEN "ONE" ELSE expected

PeriodType(rec, nature) ==
    IF nature = "INSTANT" THEN "INSTANT"
    ELSE IF rec.name \in {"FY", "ANNUAL"} \/ rec.annual THEN "ANNUAL"
    ELSE IF rec.name \in {"H1", "HY", "HALF_YEAR"} THEN "HALF_YEAR"
    ELSE IF rec.name \in {"9M", "Q3_YTD", "NINE_MONTH_YTD"} THEN "NINE_MONTH_YTD"
    ELSE IF rec.name \in {"YTD", "YEAR_TO_DATE"} THEN "YEAR_TO_DATE"
    ELSE IF rec.quarter # 0 \/ rec.name \in {"Q1", "Q2", "Q3", "Q4"} THEN "QUARTER"
    ELSE ""

BuildPeriod(rec, nature) ==
    LET type == PeriodType(rec, nature)
    IN  [year |-> rec.year, quarter |-> rec.quarter, name |-> rec.name, type |-> type,
         start |-> rec.start, end |-> IF type = "INSTANT" THEN rec.instant ELSE rec.date,
         published |-> rec.published, cumulative |-> rec.cumulative,
         single |-> type = "QUARTER" /\ ~rec.cumulative,
         standard |-> IF rec.taxonomy = "" THEN "PROVIDER_REPORTED" ELSE rec.taxonomy,
         form |-> rec.form]

\* FinancialPeriod.create: what it refuses.
ValidPeriod(p, nature) ==
    /\ p.type # "" /\ p.end # 0 /\ p.form # ""
    /\ p.year \in 1900..9999 /\ p.quarter \in 0..4
    /\ IF p.type = "INSTANT" THEN p.start = 0 /\ ~p.cumulative
       ELSE p.start # 0 /\ p.end >= p.start

DurationDays(p) == IF p.type = "INSTANT" THEN 0 ELSE p.end - p.start + 1

NormalizableFact(item, asOf) ==
    /\ EligibleFact(item.rec, asOf) /\ FindApprovedFactMapping(item, asOf)
    /\ LET concept == GetConcept(ConceptOf(item, asOf))
       IN  /\ ValidPeriod(BuildPeriod(item.rec, concept.nature), concept.nature)
           /\ NormalizeUnit(item.rec.unit, concept.unit) # 0

\* The fact as it is written; the database gives it its id.
ReportedNormalization(item, key) ==
    LET code == ConceptOf(item, key[1])
        concept == GetConcept(code)
        scale == NormalizeUnit(item.rec.unit, concept.unit)
    IN  [id |-> 0, snapshot |-> key,
         source |-> item.rec.id, code |-> code, period |-> BuildPeriod(item.rec, concept.nature),
         value |-> item.rec.value * scale, original |-> item.rec.value,
         unit |-> NormalizedUnit(concept.unit), scale |-> scale, currency |-> item.rec.currency,
         nature |-> concept.nature, derived |-> FALSE, restated |-> item.rec.restated,
         published |-> item.rec.published, inputs |-> <<>>]

(***************************************************************************)
(* Quarters derived from cumulative facts.                                 *)
(***************************************************************************)
CumulativeStage(p) ==
    CASE p.type = "QUARTER" /\ p.quarter = 1 -> 1
      [] p.type = "HALF_YEAR" /\ p.quarter = 2 -> 2
      [] p.type = "NINE_MONTH_YTD" /\ p.quarter = 3 -> 3
      [] p.type = "ANNUAL" -> 4
      [] OTHER -> 0

RequireCompatible(f, g) ==
    f.code = g.code /\ f.currency = g.currency /\ f.unit = g.unit
    /\ f.period.standard = g.period.standard

\* Whether a quarter can be derived from a fact and the one before it, if any.
DeaccumulateQuarter(f, before) ==
    LET stage == CumulativeStage(f.period)
    IN  /\ GetConcept(f.code).cumulative /\ f.period.cumulative /\ stage # 0
        /\ IF stage = 1 THEN before = <<>>
           ELSE /\ before # <<>>
                /\ LET g == before[1]
                   IN  /\ RequireCompatible(f, g) /\ f.period.year = g.period.year
                       /\ CumulativeStage(g.period) = stage - 1
                       /\ f.period.start = g.period.start /\ f.period.end > g.period.end

DerivedQuarter(f, before) ==
    LET quarter == IF f.period.quarter = 0 THEN 4 ELSE f.period.quarter
    IN  [f EXCEPT !.value = IF before = <<>> THEN @ ELSE @ - before[1].value,
                  !.derived = TRUE,
                  !.inputs = IF before = <<>> THEN <<f.source>> ELSE <<before[1].source, f.source>>,
                  !.period = [@ EXCEPT
                     !.quarter = quarter, !.name = <<"Q1", "Q2", "Q3", "Q4">>[quarter],
                     !.type = "QUARTER", !.cumulative = FALSE, !.single = TRUE,
                     !.start = IF before = <<>> THEN @ ELSE before[1].period.end + 1]]

CumulativeGroup(f, reported) ==
    {g \in reported : /\ g.nature = "DURATION" /\ g.period.cumulative
                      /\ g.code = f.code /\ g.period.year = f.period.year
                      /\ g.currency = f.currency /\ g.period.standard = f.period.standard}

EndsBefore(f, g) ==
    f.period.end < g.period.end \/ (f.period.end = g.period.end /\ f.source < g.source)

\* The fact of its group that a fact follows in the order of the ends, if any.
Preceding(f, reported) ==
    LET before == {g \in CumulativeGroup(f, reported) : EndsBefore(g, f)}
        last == {g \in before : \A h \in before : h = g \/ EndsBefore(h, g)}
    IN  IF last = {} THEN <<>> ELSE <<CHOOSE g \in last : TRUE>>

DeriveCumulativeQuarters(reported) ==
    {DerivedQuarter(f, Preceding(f, reported)) :
        f \in {g \in reported : /\ g.nature = "DURATION" /\ g.period.cumulative
                                /\ DeaccumulateQuarter(g, Preceding(g, reported))}}

\* The facts of a snapshot, and the rows they become under their ids.
ReportedFacts(snapshot, key) ==
    {ReportedNormalization(i, key) :
        i \in {j \in ListSnapshotFinancialFacts(snapshot) : NormalizableFact(j, key[1])}}
NormalizedFacts(snapshot, key) ==
    LET reported == ReportedFacts(snapshot, key)
    IN  reported \cup DeriveCumulativeQuarters(reported)

\* Ids are random; what depends on them is which of two facts of one period end and
\* publication comes first, and such are a reported fact and the quarter derived of
\* it: derivedFirst is the order in which they fall.
FactId(source, derived, derivedFirst) == 2 * source + (IF derived = derivedFirst THEN 0 ELSE 1)
Identified(f, derivedFirst) ==
    [f EXCEPT !.id = FactId(f.source, f.derived, derivedFirst),
              !.inputs = [i \in DOMAIN @ |-> FactId(@[i], FALSE, derivedFirst)]]
NormalizedRows(snapshot, key, derivedFirst) ==
    {Identified(f, derivedFirst) : f \in NormalizedFacts(snapshot, key)}

(***************************************************************************)
(* normalize: one transaction; rows that are there are kept.               *)
(***************************************************************************)
SnapshotKey(r) == <<r.asOf, r.version>>
FactsOf(d, key) == {f \in d["normalized_financial_facts"] : f.snapshot = key}

NormalizeStart(s, key) ==
    /\ \E snapshot \in db["data_snapshots"] :
        /\ SnapshotKey(snapshot) = key
        /\ \E derivedFirst \in BOOLEAN :
              Start(s, "normalize", "write",
                    [key |-> key,
                     stored |-> FactsOf(db, key),
                     rows |-> NormalizedRows(snapshot, key, derivedFirst)])
    /\ SecurityResolved(s)

SameFact(r, q) == r.snapshot = q.snapshot /\ r.source = q.source /\ r.derived = q.derived

\* get_or_create looks for a period with all of its columns, filing dates
\* included, and inserts one when there is none.
PeriodsClash(rows) ==
    \E r, q \in rows : /\ PeriodIdentity(r.period) = PeriodIdentity(q.period)
                       /\ r.period # q.period

\* The insert waits for who writes the same rows, and fails if they commit.
NormalizeWrite(s) ==
    /\ At(s, "write") /\ sess[s].cmd = "normalize"
    /\ LET w == sess[s].work
           new == {r \in w.rows : \A q \in w.stored : ~SameFact(r, q)}
           now == FactsOf(db, w.key)
       IN  /\ new # {} => \A q \in Pending(s, "normalized_financial_facts") : q.snapshot # w.key
           /\ IF (new # {} /\ now # w.stored) \/ PeriodsClash(new \cup w.stored)
              THEN Goto(s, "refused", sess[s].tx, w)
              ELSE Goto(s, "done", Insert(s, "normalized_financial_facts", new), w)
    /\ UNCHANGED blobVars

NormalizeRefused(s) == At(s, "refused") /\ Rollback(s) /\ UNCHANGED blobVars

(***************************************************************************)
(* Binding of a formula's inputs.                                          *)
(***************************************************************************)
\* Mutant: the query forgets which snapshot it is about.
ListNormalizedFactsOfAll(s, key) == Visible(s, "normalized_financial_facts")

ListNormalizedFacts(s, key) ==
    {f \in Visible(s, "normalized_financial_facts") : f.snapshot = key /\ f.published # 0}

InputChecksum(facts) ==
    {<<f.id, f.code, f.period, f.value, f.unit, f.currency, f.published>> : f \in facts}

RoleConcept == [
    current_revenue |-> "REVENUE", prior_revenue |-> "REVENUE", revenue |-> "REVENUE",
    cost_of_revenue |-> "COST_OF_REVENUE", operating_income |-> "OPERATING_INCOME",
    net_income_parent |-> "NET_INCOME_ATTRIBUTABLE_TO_PARENT", net_income_total |-> "NET_INCOME",
    opening_equity_parent |-> "EQUITY_ATTRIBUTABLE_TO_PARENT",
    closing_equity_parent |-> "EQUITY_ATTRIBUTABLE_TO_PARENT",
    opening_total_assets |-> "TOTAL_ASSETS", closing_total_assets |-> "TOTAL_ASSETS",
    opening_total_equity |-> "TOTAL_EQUITY", closing_total_equity |-> "TOTAL_EQUITY",
    opening_total_debt |-> "TOTAL_DEBT", closing_total_debt |-> "TOTAL_DEBT",
    opening_cash |-> "CASH_AND_CASH_EQUIVALENTS", closing_cash |-> "CASH_AND_CASH_EQUIVALENTS",
    reported_ocf |-> "OPERATING_CASH_FLOW", operating_cash_flow |-> "OPERATING_CASH_FLOW",
    capital_expenditures |-> "CAPITAL_EXPENDITURES", total_liabilities |-> "TOTAL_LIABILITIES",
    total_assets |-> "TOTAL_ASSETS", total_debt |-> "TOTAL_DEBT",
    cash |-> "CASH_AND_CASH_EQUIVALENTS", reported_basic_eps |-> "BASIC_EPS",
    reported_diluted_eps |-> "DILUTED_EPS",
    actual_shares_outstanding |-> "PERIOD_END_SHARES_OUTSTANDING",
    equity_parent |-> "EQUITY_ATTRIBUTABLE_TO_PARENT", preferred_equity |-> "PREFERRED_EQUITY",
    minority_interest |-> "MINORITY_INTEREST"]
OpeningRoles == {"opening_equity_parent", "opening_total_assets", "opening_total_equity",
                 "opening_total_debt", "opening_cash"}
ClosingRoles == {"closing_equity_parent", "closing_total_assets", "closing_total_equity",
                 "closing_total_debt", "closing_cash"}

TtmConcept == [revenue_ttm |-> "REVENUE",
               net_income_parent_ttm |-> "NET_INCOME_ATTRIBUTABLE_TO_PARENT",
               ebitda_ttm |-> "EBITDA"]

Earlier(f, g) ==
    \/ f.period.end < g.period.end
    \/ f.period.end = g.period.end /\ f.published < g.published
    \/ f.period.end = g.period.end /\ f.published = g.published /\ f.id < g.id
FactsForConcept(facts, code) == {f \in facts : f.code = code}
\* The fact that n others follow in that order, if there is one.
FromLast(facts, n) == {f \in facts : Cardinality({g \in facts : Earlier(f, g)}) = n}
The(facts) == CHOOSE f \in facts : TRUE

SameTtmBasis(facts) ==
    \A f, g \in facts : /\ f.unit = g.unit /\ f.currency # "" /\ f.currency = g.currency
                        /\ f.period.standard = g.period.standard

\* Mutant: any four single quarters will do.
QuartersOnOneBasis(quarters) == SameTtmBasis(ToSet(quarters))

QuartersAreComparable(quarters) ==
    /\ SameTtmBasis(ToSet(quarters))
    /\ \A i \in DOMAIN quarters : quarters[i].period.quarter # 0
    /\ \A i \in 1..(Len(quarters) - 1) :
          LET f == quarters[i].period
              g == quarters[i + 1].period
          IN  g.year * 4 + g.quarter = f.year * 4 + f.quarter + 1

DurationsAreComparable(f, g) == DurationDays(f.period) - DurationDays(g.period) \in -7..7

YtdOf(f) == f.period.cumulative /\ f.period.type # "ANNUAL"

\* The candidates for the bridge: an annual fact, the YTD of the next year
\* and the last YTD of the same span in the annual's year.
BridgesOf(facts) ==
    {bridge \in facts \X facts \X facts :
        LET annual == bridge[1]
            ytd == bridge[2]
            prior == bridge[3]
        IN  /\ annual.period.type = "ANNUAL" /\ annual.period.cumulative
            /\ YtdOf(ytd) /\ ytd.period.year = annual.period.year + 1
            /\ YtdOf(prior) /\ prior.period.year = annual.period.year
            /\ prior.period.quarter = ytd.period.quarter /\ prior.period.type = ytd.period.type
            /\ \A f \in facts :
                  /\ YtdOf(f) /\ f.period.year = annual.period.year
                  /\ f.period.quarter = ytd.period.quarter /\ f.period.type = ytd.period.type
                  => ~Earlier(prior, f)
            /\ SameTtmBasis({annual, ytd, prior}) /\ DurationsAreComparable(ytd, prior)}

\* The last annual fact first, then the last YTD.
BestBridges(bridges) ==
    {b \in bridges :
        \A c \in bridges : Earlier(c[1], b[1]) \/ (c[1] = b[1] /\ ~Earlier(b[2], c[2]))}

BindTtmInputs(facts, code) ==
    LET candidates == FactsForConcept(facts, code)
        singles == {f \in candidates : f.period.single /\ ~f.period.cumulative}
        last == [i \in 1..4 |-> FromLast(singles, 4 - i)]
        bridges == BestBridges(BridgesOf(candidates))
    IN  IF (\A i \in 1..4 : last[i] # {}) /\ QuartersAreComparable([i \in 1..4 |-> The(last[i])])
        THEN [role \in ToSet(Quarters) |-> The(last[CHOOSE i \in 1..4 : Quarters[i] = role])]
        ELSE IF bridges # {}
        THEN LET best == The(bridges)
             IN  [latest_fy |-> best[1], latest_ytd |-> best[2], prior_ytd |-> best[3]]
        ELSE <<>>

BindRevenueGrowth(facts) ==
    LET revenue == FactsForConcept(facts, "REVENUE")
        current == FromLast(revenue, 0)
        prior == FromLast({f \in revenue \ current :
                            LET period == The(current).period
                            IN  /\ f.period.year = period.year - 1
                                /\ f.period.type = period.type
                                /\ f.period.quarter = period.quarter
                                /\ f.period.cumulative = period.cumulative}, 0)
    IN  IF current = {} THEN <<>>
        ELSE IF prior = {} THEN [current_revenue |-> The(current)]
        ELSE [current_revenue |-> The(current), prior_revenue |-> The(prior)]

\* The last fact of the first role that has one fixes the period.
LatestAnchor(roles, facts) ==
    LET anchors == {i \in DOMAIN roles :
                      /\ roles[i] \in DOMAIN RoleConcept \ (OpeningRoles \cup ClosingRoles)
                      /\ FactsForConcept(facts, RoleConcept[roles[i]]) # {}}
    IN  IF anchors = {} THEN {}
        ELSE FromLast(FactsForConcept(facts, RoleConcept[roles[Min(anchors)]]), 0)

\* What a role may be bound to: the last but one, the last, or the last of
\* the anchor's period.
RoleCandidates(role, anchor, facts) ==
    LET candidates == FactsForConcept(facts, RoleConcept[role])
    IN  IF role \in OpeningRoles THEN FromLast(candidates, 1)
        ELSE IF role \in ClosingRoles THEN FromLast(candidates, 0)
        ELSE FromLast({f \in candidates : \A a \in anchor : f.period = a.period}, 0)

BindByRole(roles, facts) ==
    LET anchor == LatestAnchor(roles, facts)
        bound == {role \in ToSet(roles) \cap DOMAIN RoleConcept :
                    RoleCandidates(role, anchor, facts) # {}}
    IN  [role \in bound |-> The(RoleCandidates(role, anchor, facts))]

BindInputs(code, facts) ==
    IF code \in DOMAIN TtmConcept THEN BindTtmInputs(facts, TtmConcept[code])
    ELSE IF code = "revenue_growth" THEN BindRevenueGrowth(facts)
    ELSE BindByRole(FormulaRegistry[code], facts)

FormulaInputs(selected) ==
    [role \in DOMAIN selected |-> [value |-> selected[role].value, unit |-> selected[role].unit,
                                   currency |-> selected[role].currency]]

MetricPeriod(code, selected) ==
    IF code \in DOMAIN TtmConcept
    THEN IF "quarter_1" \in DOMAIN selected THEN "TTM:FOUR_QUARTERS"
         ELSE IF "latest_fy" \in DOMAIN selected THEN "TTM:ANNUAL_YTD_BRIDGE" ELSE "TTM:BLOCKED"
    ELSE IF DOMAIN selected = {} THEN "SNAPSHOT"
    ELSE LET used == {selected[role] : role \in DOMAIN selected}
         IN  (CHOOSE f \in used : \A g \in used :
                 \/ g.period.end < f.period.end
                 \/ g.period.end = f.period.end /\ g.id <= f.id).period.name

MetricRow(code, selected, result) ==
    [value |-> result.value, state |-> result.state, unit |-> result.unit,
     currency |-> result.currency, quality |-> result.quality, warnings |-> result.warnings,
     period |-> MetricPeriod(code, selected),
     inputs |-> [role \in DOMAIN selected |-> selected[role].id]]
MetricOf(code, facts) ==
    LET selected == BindInputs(code, facts)
    IN  MetricRow(code, selected, ExecuteFormula(code, FormulaInputs(selected)))

AggregateStatus(metrics) ==
    LET qualities == {metrics[code].quality : code \in DOMAIN metrics}
    IN  IF qualities = {"PASS"} THEN "PASS"
        ELSE IF qualities \cap {"PASS", "PARTIAL"} # {} THEN "PARTIAL" ELSE "BLOCKED"

(***************************************************************************)
(* calculate: the facts are read before the lock on their checksum.        *)
(***************************************************************************)
CalculateStart(s, key) ==
    /\ \E snapshot \in db["data_snapshots"] : SnapshotKey(snapshot) = key
    /\ Start(s, "calculate", "lock", [key |-> key, facts |-> ListNormalizedFacts(s, key)])
    /\ SecurityResolved(s)

CalculationLocked(s, key, facts) ==
    \E u \in Sessions \ {s} : /\ sess[u].cmd = "calculate" /\ sess[u].pc = "done"
                              /\ sess[u].work.key = key /\ sess[u].work.facts = facts

FindCalculationRun(s, key, facts) ==
    {r \in Visible(s, "calculation_runs") :
        r.snapshot = key /\ r.status # "RUNNING" /\ r.checksum = InputChecksum(facts)}

\* Without facts every metric is missing.
MissingMetric(code) ==
    [value |-> <<>>, state |-> "NULL", unit |-> OutputUnit(code), currency |-> "",
     quality |-> "BLOCKED", warnings |-> 1, period |-> "SNAPSHOT", inputs |-> <<>>]

WarningCount(metrics) == MapThenSumSet(LAMBDA code : metrics[code].warnings, MetricCodes)
CalculationRunOf(key, facts, metrics) ==
    [snapshot |-> key, checksum |-> InputChecksum(facts),
     status |-> AggregateStatus(metrics),
     warnings |-> WarningCount(metrics),
     metrics |-> metrics]
CompletedCalculation(key, facts) ==
    CalculationRunOf(key, facts, [code \in MetricCodes |->
        IF facts = {} THEN MissingMetric(code) ELSE MetricOf(code, facts)])

CalculateSnapshot(s) ==
    /\ At(s, "lock")
    /\ LET w == sess[s].work
           seeded == {r.metric : r \in Visible(s, "formula_definitions")}
           existing == FindCalculationRun(s, w.key, w.facts)
       IN  /\ ~CalculationLocked(s, w.key, w.facts)
           /\ \/ existing # {} /\ Goto(s, "done", sess[s].tx, w)
              \/ existing = {} /\ ~(MetricCodes \subseteq seeded) /\ Rollback(s)
              \/ /\ existing = {} /\ MetricCodes \subseteq seeded
                 /\ LET run == CompletedCalculation(w.key, w.facts)
                    IN  Goto(s, "done", Insert(s, "calculation_runs", {run}), w)
    /\ UNCHANGED blobVars

\* The three commands commit whatever their result was.
FinancialsCommit(s) ==
    /\ At(s, "done") /\ sess[s].cmd \in {"seed", "normalize", "calculate"}
    /\ Commit(s)
    /\ UNCHANGED blobVars

FinancialsStep(s) ==
    \/ SeedStart(s) \/ ApplyFinancialReferenceSeed(s)
    \/ \E r \in db["data_snapshots"] : NormalizeStart(s, SnapshotKey(r)) \/ CalculateStart(s, SnapshotKey(r))
    \/ NormalizeWrite(s) \/ NormalizeRefused(s) \/ CalculateSnapshot(s) \/ FinancialsCommit(s)

(***************************************************************************)
(* What the commands leave: one snapshot under a key, the facts of one     *)
(* whole normalization of it, and runs whose inputs are among them.        *)
(***************************************************************************)
WholeNormalization(d, key, rows) ==
    \E r \in d["data_snapshots"], derivedFirst \in BOOLEAN :
        SnapshotKey(r) = key /\ rows = NormalizedRows(r, key, derivedFirst)
InputsStored(d, run) ==
    \A code \in DOMAIN run.metrics : \A role \in DOMAIN run.metrics[code].inputs :
        \E f \in FactsOf(d, run.snapshot) : f.id = run.metrics[code].inputs[role]
ValidFinancials(d) ==
    /\ \A r, q \in d["data_snapshots"] : SnapshotKey(r) = SnapshotKey(q) => r = q
    /\ \A f \in d["normalized_financial_facts"] :
          WholeNormalization(d, f.snapshot, FactsOf(d, f.snapshot))
    /\ \A run \in d["calculation_runs"] : InputsStored(d, run)
=============================================================================
