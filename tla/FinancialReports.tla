--------------------------- MODULE FinancialReports ---------------------------
(***************************************************************************)
(* The reports of apps/accounting/reports.py: trial balance, profit and    *)
(* loss, balance sheet.  They only read.  Their input is, per account,     *)
(* debits minus credits (net) of the entries the dates of the request      *)
(* select, and the set of the accounts whose is_active is set.             *)
(***************************************************************************)
EXTENDS Integers, FiniteSets, Functions

CONSTANTS Assets, Liabilities, Equity, Income, Spending  \* the account types

AllAccounts == Assets \cup Liabilities \cup Equity \cup Income \cup Spending

\* The entries dated in a set of days; a book keeps one net function per day.
Dated(book, days) ==
    [a \in AllAccounts |-> SumFunctionOnSet([d \in days |-> book[d][a]], days)]

OnlyAssetsDebitNormal(a) == a \in Assets                        \* faulty: expenses left out
DebitNormal(a) == a \in Assets \cup Spending
Balance(net, a) == IF DebitNormal(a) THEN net[a] ELSE 0 - net[a]

\* Accounts without journal activity are listed with a balance of zero.
AccountBalances(net, active, types) == [a \in active \cap types |-> Balance(net, a)]

Total(net, active, types) ==
    SumFunctionOnSet(AccountBalances(net, active, types), active \cap types)

\* total_debit - total_credit over every account listed; is_balanced says it is zero.
TrialBalance(net, active) == SumFunctionOnSet(net, active)

ProfitAndLoss(net, active) == Total(net, active, Income) - Total(net, active, Spending)

BalanceSheet(net, active) ==
    [assets      |-> Total(net, active, Assets),
     liabilities |-> Total(net, active, Liabilities),
     equity      |-> Total(net, active, Equity)]
=============================================================================
