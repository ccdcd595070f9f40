-------------------------------- MODULE Reports --------------------------------
(***************************************************************************)
(* The reports of app/modules/reporting/services.py, as functions of the   *)
(* rows of journal_entries: each is one query, so it sees one committed    *)
(* state.  A report over a range of dates is given the days of the range.  *)
(* What is stored is whole cents, and so is every sum of it: the rounding  *)
(* of the results to two places changes none of them.                      *)
(***************************************************************************)
EXTENDS Books

CONSTANT AccountType   \* the type of each account: where a report places it

AccountTypes == {"asset", "liability", "equity", "revenue", "expense"}

ASSUME ReportsAssumption == AccountType \in [DOMAIN AccountType -> AccountTypes]

\* Slip: a voided entry left out, its reversal still counted.
ReportablePostedOnly == {"POSTED"}
ReportableStatuses == {"POSTED", "VOID"}

\* Slip: the filter on tenant_id forgotten.
PostedLinesOfAll(es, t, days) ==
  UNION {{i} \X DOMAIN es[i].lines : i \in
    {k \in DOMAIN es : es[k].status \in ReportableStatuses /\ es[k].date \in days}}

\* Every line, as <<entry, line>>, of the workspace's reportable entries.
PostedLines(es, t, days) ==
  UNION {{i} \X DOMAIN es[i].lines : i \in
    {k \in DOMAIN es : es[k].tenant = t /\ es[k].status \in ReportableStatuses
                       /\ es[k].date \in days}}

LineAt(es, o) == es[o[1]].lines[o[2]]

OnAccount(es, a, lines) == {o \in lines : LineAt(es, o).account = a}
OfType(es, type, lines) == {o \in lines : AccountType[LineAt(es, o).account] = type}

Debits(es, lines)  == SumFunction([o \in lines |-> LineAt(es, o).debit])
Credits(es, lines) == SumFunction([o \in lines |-> LineAt(es, o).credit])

\* One row per account with activity.
TrialBalance(es, t, days) ==
  LET lines == PostedLines(es, t, days)
  IN  [a \in {LineAt(es, o).account : o \in lines} |->
         [debit  |-> Debits(es, OnAccount(es, a, lines)),
          credit |-> Credits(es, OnAccount(es, a, lines))]]

TotalDebits(tb)  == SumFunction([a \in DOMAIN tb |-> tb[a].debit])
TotalCredits(tb) == SumFunction([a \in DOMAIN tb |-> tb[a].credit])
IsBalanced(tb) == TotalDebits(tb) = TotalCredits(tb)

\* Assets and expenses grow on the debit side, the other types on the credit.
Amount(es, lines) == Debits(es, lines) - Credits(es, lines)
Signed(type, amount) == IF type \in {"asset", "expense"} THEN amount ELSE -amount

\* The rows of a section: what every account of the type with activity comes to.
Rows(es, type, lines) ==
  LET those == OfType(es, type, lines)
  IN  [a \in {LineAt(es, o).account : o \in those} |->
         Signed(type, Amount(es, OnAccount(es, a, those)))]
Total(rows) == SumFunction(rows)

\* Slip: the sign of the expenses.
NetGross(revenue, expenses) == revenue + expenses
Net(revenue, expenses) == revenue - expenses

ProfitAndLoss(es, t, days) ==
  LET lines    == PostedLines(es, t, days)
      revenue  == Rows(es, "revenue", lines)
      expenses == Rows(es, "expense", lines)
  IN  [revenue |-> revenue, expenses |-> expenses,
       total_revenue |-> Total(revenue), total_expenses |-> Total(expenses),
       net_income |-> Net(Total(revenue), Total(expenses))]

\* Net income to date stands in equity as retained earnings, with a row of its
\* own unless it is nothing.
Retained == "retained earnings"
EquityRows(rows, income) ==
  [a \in DOMAIN rows \cup (IF income = 0 THEN {} ELSE {Retained}) |->
     IF a = Retained THEN income ELSE rows[a]]

BalanceSheet(es, t, days) ==
  LET lines       == PostedLines(es, t, days)
      assets      == Rows(es, "asset", lines)
      liabilities == Rows(es, "liability", lines)
      equity      == Rows(es, "equity", lines)
      income      == ProfitAndLoss(es, t, days).net_income
  IN  [assets |-> assets, liabilities |-> liabilities,
       equity |-> EquityRows(equity, income),
       total_assets      |-> Total(assets),
       total_liabilities |-> Total(liabilities),
       total_equity      |-> Total(equity) + income]

\* The report worker's CSV: sections of rows, each with the total printed for
\* it.  The worker asks for no dates: its days are all days.
ReportTypes == {"trial_balance", "profit_and_loss", "balance_sheet"}
Section(rows, total) == [rows |-> rows, total |-> total]
Export(type, es, t, days) ==
  LET tb    == TrialBalance(es, t, days)
      pl    == ProfitAndLoss(es, t, days)
      sheet == BalanceSheet(es, t, days)
  IN  CASE type = "trial_balance" ->
             <<Section([a \in DOMAIN tb |-> tb[a].debit], TotalDebits(tb)),
               Section([a \in DOMAIN tb |-> tb[a].credit], TotalCredits(tb))>>
        [] type = "profit_and_loss" ->
             <<Section(pl.revenue, pl.total_revenue),
               Section(pl.expenses, pl.total_expenses)>>
        [] type = "balance_sheet" ->
             <<Section(sheet.assets, sheet.total_assets),
               Section(sheet.liabilities, sheet.total_liabilities),
               Section(sheet.equity, sheet.total_equity)>>
=============================================================================
