-------------------------- MODULE FinancialFormulas --------------------------
(***************************************************************************)
(* Canonical concepts, the formula registry and what each formula computes *)
(* from its bound inputs (domain/financials/concepts.py and formulas.py).  *)
(* An input is a value with its unit and currency; a result is the pair of *)
(* its exact terms, or none.                                               *)
(***************************************************************************)
EXTENDS Integers, Sequences, SequencesExt

(***************************************************************************)
(* Canonical concepts.                                                     *)
(***************************************************************************)
IncomeAmounts == {"REVENUE", "COST_OF_REVENUE", "GROSS_PROFIT", "OPERATING_INCOME", "EBITDA",
                  "PRETAX_INCOME", "INCOME_TAX_EXPENSE", "NET_INCOME",
                  "NET_INCOME_ATTRIBUTABLE_TO_PARENT"}
CashFlowAmounts == {"OPERATING_CASH_FLOW", "INVESTING_CASH_FLOW", "FINANCING_CASH_FLOW",
                    "CAPITAL_EXPENDITURES", "CASH_DIVIDENDS_PAID", "SHARE_REPURCHASES"}
BalanceAmounts == {"CASH_AND_CASH_EQUIVALENTS", "SHORT_TERM_INVESTMENTS", "ACCOUNTS_RECEIVABLE",
                   "INVENTORY", "TOTAL_CURRENT_ASSETS", "TOTAL_ASSETS", "SHORT_TERM_DEBT",
                   "LONG_TERM_DEBT", "TOTAL_DEBT", "TOTAL_CURRENT_LIABILITIES", "TOTAL_LIABILITIES",
                   "TOTAL_EQUITY", "EQUITY_ATTRIBUTABLE_TO_PARENT", "MINORITY_INTEREST",
                   "PREFERRED_EQUITY"}
PerShareConcepts == {"BASIC_EPS", "DILUTED_EPS"}
ShareConcepts == {"BASIC_WEIGHTED_AVERAGE_SHARES", "DILUTED_WEIGHTED_AVERAGE_SHARES",
                  "PERIOD_END_SHARES_OUTSTANDING"}

DurationAmount(code) == [nature |-> "DURATION", unit |-> "MONETARY_AMOUNT", cumulative |-> TRUE]
InstantAmount(code) == [nature |-> "INSTANT", unit |-> "MONETARY_AMOUNT", cumulative |-> FALSE]
PerShare(code) == [nature |-> "PER_SHARE", unit |-> "PER_SHARE", cumulative |-> FALSE]
Shares(code) == [nature |-> "SHARES", unit |-> "SHARES", cumulative |-> FALSE]
GetConcept(code) ==
    CASE code \in IncomeAmounts \cup CashFlowAmounts -> DurationAmount(code)
      [] code \in BalanceAmounts -> InstantAmount(code)
      [] code \in PerShareConcepts -> PerShare(code)
      [] code \in ShareConcepts -> Shares(code)

(***************************************************************************)
(* Formulas: the registry and what each formula computes from its inputs.  *)
(***************************************************************************)
Quarters == <<"quarter_1", "quarter_2", "quarter_3", "quarter_4">>
Bridge == <<"latest_fy", "latest_ytd", "prior_ytd">>

FormulaRegistry == [
    revenue_growth |-> <<"current_revenue", "prior_revenue">>,
    gross_margin |-> <<"revenue", "cost_of_revenue">>,
    operating_margin |-> <<"operating_income", "revenue">>,
    net_margin_parent |-> <<"net_income_parent", "revenue">>,
    roe_parent |-> <<"net_income_parent", "opening_equity_parent", "closing_equity_parent">>,
    roa_total |-> <<"net_income_total", "opening_total_assets", "closing_total_assets">>,
    roic |-> <<"operating_income", "pretax_income", "income_tax_expense", "opening_total_equity",
               "closing_total_equity", "opening_total_debt", "closing_total_debt",
               "opening_cash", "closing_cash">>,
    operating_cash_flow |-> <<"reported_ocf">>,
    free_cash_flow |-> <<"operating_cash_flow", "capital_expenditures">>,
    liabilities_to_assets |-> <<"total_liabilities", "total_assets">>,
    net_debt |-> <<"total_debt", "cash">>,
    basic_eps |-> <<"reported_basic_eps">>,
    diluted_eps |-> <<"reported_diluted_eps">>,
    market_cap |-> <<"price", "actual_shares_outstanding">>,
    pe_ttm_diluted |-> <<"market_cap", "net_income_parent_ttm">>,
    pb_parent |-> <<"market_cap", "equity_parent">>,
    ps_ttm |-> <<"market_cap", "revenue_ttm">>,
    enterprise_value |-> <<"market_cap", "total_debt", "preferred_equity", "minority_interest",
                           "cash">>,
    ev_to_ebitda_ttm |-> <<"enterprise_value", "ebitda_ttm">>,
    fcf_yield_ttm |-> <<"free_cash_flow_ttm", "market_cap">>,
    revenue_ttm |-> Quarters, net_income_parent_ttm |-> Quarters, ebitda_ttm |-> Quarters]
MetricCodes == DOMAIN FormulaRegistry

AmountMetrics == {"operating_cash_flow", "free_cash_flow", "net_debt", "market_cap",
                  "enterprise_value", "revenue_ttm", "net_income_parent_ttm", "ebitda_ttm"}
OutputUnit(code) ==
    IF code \in AmountMetrics THEN "ONE"
    ELSE IF code \in {"basic_eps", "diluted_eps"} THEN "PER_SHARE" ELSE "RATIO"

\* A number, PASS or PARTIAL with a warning; or none, BLOCKED or not meaningful.
Numeric(n, d, unit, currency, warn) ==
    [value |-> <<n, d>>, state |-> IF n = 0 THEN "ZERO" ELSE "VALUE", unit |-> unit,
     currency |-> currency, quality |-> IF warn THEN "PARTIAL" ELSE "PASS",
     warnings |-> IF warn THEN 1 ELSE 0]
NonNumeric(code, state) ==
    [value |-> <<>>, state |-> state, unit |-> OutputUnit(code), currency |-> "",
     quality |-> IF state = "NULL" THEN "BLOCKED" ELSE "PASS", warnings |-> 1]

Required(in, roles) == ToSet(roles) \subseteq DOMAIN in
SameAmountBasis(in, roles) ==
    \A r, q \in ToSet(roles) : /\ in[r].currency # "" /\ in[r].currency = in[q].currency
                               /\ in[r].unit = in[q].unit
Usable(in, roles) == Required(in, roles) /\ SameAmountBasis(in, roles)

RatioFormula(code, in, num, den, warnNegative) ==
    IF ~Usable(in, <<num, den>>) THEN NonNumeric(code, "NULL")
    ELSE IF in[den].value <= 0 THEN NonNumeric(code, "NOT_MEANINGFUL")
    ELSE Numeric(in[num].value, in[den].value, "RATIO", "", warnNegative /\ in[num].value < 0)

RevenueGrowth(in) ==
    LET current == in["current_revenue"].value
        prior == in["prior_revenue"].value
    IN  IF ~Usable(in, FormulaRegistry["revenue_growth"]) THEN NonNumeric("revenue_growth", "NULL")
        ELSE IF prior <= 0 THEN NonNumeric("revenue_growth", "NOT_MEANINGFUL")
        ELSE Numeric(current - prior, prior, "RATIO", "", current < 0)

GrossMargin(in) ==
    LET revenue == in["revenue"].value
        cost == in["cost_of_revenue"].value
    IN  IF ~Usable(in, FormulaRegistry["gross_margin"]) THEN NonNumeric("gross_margin", "NULL")
        ELSE IF revenue <= 0 THEN NonNumeric("gross_margin", "NOT_MEANINGFUL")
        ELSE Numeric(revenue - cost, revenue, "RATIO", "", revenue < cost)

\* The numerator over the mean of opening and closing.
AverageReturn(code, in) ==
    LET roles == FormulaRegistry[code]
        double == in[roles[2]].value + in[roles[3]].value
    IN  IF ~Usable(in, roles) THEN NonNumeric(code, "NULL")
        ELSE IF double <= 0 THEN NonNumeric(code, "NOT_MEANINGFUL")
        ELSE Numeric(2 * in[roles[1]].value, double, "RATIO", "", FALSE)

Roic(in) ==
    LET v(role) == in[role].value
        pretax == v("pretax_income")
        tax == v("income_tax_expense")
        double == v("opening_total_equity") + v("opening_total_debt") - v("opening_cash")
                  + v("closing_total_equity") + v("closing_total_debt") - v("closing_cash")
    IN  IF ~Usable(in, FormulaRegistry["roic"]) THEN NonNumeric("roic", "NULL")
        ELSE IF pretax <= 0 \/ tax < 0 \/ tax > pretax THEN NonNumeric("roic", "NULL")
        ELSE IF double <= 0 THEN NonNumeric("roic", "NOT_MEANINGFUL")
        ELSE Numeric(2 * v("operating_income") * (pretax - tax), pretax * double, "RATIO", "", FALSE)

SignedAmount(code, in, roles, total) ==
    IF ~Usable(in, roles) THEN NonNumeric(code, "NULL")
    ELSE Numeric(total, 1, in[roles[1]].unit, in[roles[1]].currency, FALSE)

TtmAmount(code, in) ==
    LET v(role) == in[role].value
    IN  IF Required(in, Quarters)
        THEN SignedAmount(code, in, Quarters,
                 v("quarter_1") + v("quarter_2") + v("quarter_3") + v("quarter_4"))
        ELSE IF Required(in, Bridge)
        THEN SignedAmount(code, in, Bridge, v("latest_fy") + v("latest_ytd") - v("prior_ytd"))
        ELSE NonNumeric(code, "NULL")

ReportedEps(code, in) ==
    LET eps == in[FormulaRegistry[code][1]]
    IN  IF ~Required(in, FormulaRegistry[code]) THEN NonNumeric(code, "NULL")
        ELSE IF eps.unit # "PER_SHARE" \/ eps.currency = "" THEN NonNumeric(code, "NULL")
        ELSE Numeric(eps.value, 1, "PER_SHARE", eps.currency, FALSE)

MarketCap(in) ==
    LET price == in["price"]
        shares == in["actual_shares_outstanding"]
    IN  IF ~Required(in, FormulaRegistry["market_cap"]) THEN NonNumeric("market_cap", "NULL")
        ELSE IF price.unit # "PER_SHARE" \/ shares.unit # "SHARES" THEN NonNumeric("market_cap", "NULL")
        ELSE IF price.currency = "" \/ shares.currency # "" THEN NonNumeric("market_cap", "NULL")
        ELSE IF price.value <= 0 \/ shares.value <= 0 THEN NonNumeric("market_cap", "NOT_MEANINGFUL")
        ELSE Numeric(price.value * shares.value, 1, "ONE", price.currency, FALSE)

EnterpriseValue(in) ==
    LET roles == FormulaRegistry["enterprise_value"]
        total == in["market_cap"].value + in["total_debt"].value + in["preferred_equity"].value
                 + in["minority_interest"].value - in["cash"].value
    IN  IF ~Usable(in, roles) THEN NonNumeric("enterprise_value", "NULL")
        ELSE Numeric(total, 1, in["cash"].unit, in["cash"].currency, total < 0)

LiabilitiesToAssets(in) ==
    IF "total_liabilities" \in DOMAIN in /\ in["total_liabilities"].value < 0
    THEN NonNumeric("liabilities_to_assets", "NULL")
    ELSE RatioFormula("liabilities_to_assets", in, "total_liabilities", "total_assets", FALSE)

ExecuteFormula(code, in) ==
    LET roles == FormulaRegistry[code]
    IN  CASE code = "revenue_growth" -> RevenueGrowth(in)
          [] code = "gross_margin" -> GrossMargin(in)
          [] code \in {"roe_parent", "roa_total"} -> AverageReturn(code, in)
          [] code = "roic" -> Roic(in)
          [] code = "operating_cash_flow" ->
                SignedAmount(code, in, roles, in["reported_ocf"].value)
          [] code = "free_cash_flow" ->
                SignedAmount(code, in, roles,
                             in["operating_cash_flow"].value - in["capital_expenditures"].value)
          [] code = "net_debt" ->
                SignedAmount(code, in, roles, in["total_debt"].value - in["cash"].value)
          [] code = "liabilities_to_assets" -> LiabilitiesToAssets(in)
          [] code \in {"basic_eps", "diluted_eps"} -> ReportedEps(code, in)
          [] code = "market_cap" -> MarketCap(in)
          [] code = "enterprise_value" -> EnterpriseValue(in)
          [] code \in {"revenue_ttm", "net_income_parent_ttm", "ebitda_ttm"} -> TtmAmount(code, in)
          [] OTHER -> RatioFormula(code, in, roles[1], roles[2],
                         code \in {"operating_margin", "net_margin_parent", "ev_to_ebitda_ttm"})
=============================================================================
