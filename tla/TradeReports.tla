----------------------------- MODULE TradeReports -----------------------------
(***************************************************************************)
(* The reports of apps/reports/views.py as operators on what the tables    *)
(* hold: documents (a sequence of invoices and till sales), items (stock   *)
(* per product, one warehouse), outs (the STOCK_OUT movements) and         *)
(* receipts (cost received per day).  Days are numbers, amounts are in a   *)
(* unit small enough to be whole.  A CSV export has the same rows.         *)
(***************************************************************************)
EXTENDS Integers, Sequences, SequencesExt, FiniteSetsExt

CONSTANTS Products,
          Price,                                \* unit price of a product
          TaxPercent,                           \* VAT on every line
          NewMonth                              \* the day on which a month begins

MonthStart(d) == IF d < NewMonth THEN 1 ELSE NewMonth

PartPaidLeftOut == {"confirmed", "paid"}                      \* faulty
SaleStatuses == {"confirmed", "partially_paid", "paid"}

IsSale(doc) == IF doc.kind = "invoice" THEN doc.status \in SaleStatuses
                                       ELSE doc.status = "completed"

\* An invoice counts on its issue date, which is the day it was drafted.
Sales(docs, days) == {i \in DOMAIN docs : IsSale(docs[i]) /\ docs[i].day \in days}

LineRevenue(doc, p) == (doc.lines[p] * Price[p] * (100 - doc.percent)) \div 100
Subtotal(doc) == SumFunction([p \in DOMAIN doc.lines |-> LineRevenue(doc, p)])
TaxTotal(doc) == (Subtotal(doc) * TaxPercent) \div 100
DocTotal(doc) == Subtotal(doc) + TaxTotal(doc)

\* today_total, month_total, period_total and series of a window of n days;
\* the month is only as long as the window.
Summary(daily, today) ==
    [series       |-> daily,
     today_total  |-> daily[today],
     month_total  |-> SumFunctionOnSet(daily, {d \in DOMAIN daily : d >= MonthStart(today)}),
     period_total |-> SumFunction(daily)]

SalesSummary(docs, today, n) ==
    Summary([d \in (today - n + 1)..today |->
                SumFunction([i \in Sales(docs, {d}) |-> DocTotal(docs[i])])], today)

PurchaseSummary(receipts, today, n) ==
    Summary([d \in (today - n + 1)..today |-> IF d \in DOMAIN receipts THEN receipts[d] ELSE 0], today)

\* Quantity and revenue of every product that has a line in the period.
SoldIn(docs, days) ==
    LET with(p) == {i \in Sales(docs, days) : p \in DOMAIN docs[i].lines}
    IN  [p \in {q \in Products : with(q) # {}} |->
            [qty     |-> SumFunction([i \in with(p) |-> docs[i].lines[p]]),
             revenue |-> SumFunction([i \in with(p) |-> LineRevenue(docs[i], p)])]]

\* By falling revenue; equal revenues in any order.
Ranked(revenue, S) ==
    CHOOSE rows \in [1..Cardinality(S) -> S] :
        /\ IsInjective(rows)
        /\ \A j, k \in DOMAIN rows : j < k => revenue[rows[j]] >= revenue[rows[k]]

TopProducts(docs, days, limit) ==
    LET sold == SoldIn(docs, days)
        rows == Ranked([p \in DOMAIN sold |-> sold[p].revenue], DOMAIN sold)
    IN  [k \in 1..Min({limit, Len(rows)}) |-> [product |-> rows[k], sold |-> sold[rows[k]]]]

\* The class of every product by the share of the revenue that it and the
\* products ranked before it make up.
AbcClasses(revenue, a_threshold, b_threshold) ==
    LET ranked == Ranked(revenue, {p \in DOMAIN revenue : revenue[p] > 0})
        upto(k) == SumFunction([j \in 1..k |-> revenue[ranked[j]]])
        class(k) == IF upto(k) * 100 <= a_threshold * upto(Len(ranked)) THEN "A"
                    ELSE IF upto(k) * 100 <= b_threshold * upto(Len(ranked)) THEN "B" ELSE "C"
    IN  [k \in DOMAIN ranked |-> [product |-> ranked[k], class |-> class(k)]]

InventoryValuation(items) ==
    SumFunctionOnSet([p \in Products |-> items[p].onHand * items[p].cost],
                     {p \in Products : items[p].onHand > 0})

FirstOut(outs, p) == Min({outs[i].utc : i \in {j \in DOMAIN outs : outs[j].product = p}})  \* faulty
LastOut(outs, p) == Max({outs[i].utc : i \in {j \in DOMAIN outs : outs[j].product = p}})

\* The cutoff is a local date, the date of the last movement is taken in UTC.
DeadStock(items, outs, today, n) ==
    {p \in Products :
        /\ items[p].onHand > 0
        /\ (\E i \in DOMAIN outs : outs[i].product = p) => LastOut(outs, p) < today - n}
=============================================================================
