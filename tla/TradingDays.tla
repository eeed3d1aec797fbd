------------------------------ MODULE TradingDays ------------------------------
(***************************************************************************)
(* A company's trading over several days, as the reports read it: invoices *)
(* and till sales, goods received, stock put in, taken out or adjusted by  *)
(* hand, deletions, the journal and its closing, and the notices all of    *)
(* these raise.  Requests are whole here; how they race is the matter of   *)
(* the modules of the components.  There is one warehouse.  Payments to    *)
(* suppliers and expenses are left out: no report or property here reads   *)
(* the accounts they move.                                                 *)
(***************************************************************************)
EXTENDS TradeReports, DemandInsights, Notices

CONSTANTS Orders,                                \* what an invoice or a till sale may ask for:
                                                 \* lines, percent, by and the days until it is due
          Deliveries,                            \* what may be received or put in: product, qty, cost
          Corrections                            \* what may be taken out or adjusted: product, qty

ASSUME DaysConstants ==
    /\ IsFiniteSet(Products) /\ Price \in [Products -> Nat] /\ TaxPercent \in Nat
    /\ \A o \in Orders :
          /\ DOMAIN o.lines \subseteq Products /\ o.lines \in [DOMAIN o.lines -> Nat \ {0}]
          /\ o.percent \in 0..100 /\ o.by \in Users /\ o.term \in Nat
    /\ \A r \in Deliveries : r.product \in Products /\ r.qty \in Nat \ {0} /\ r.cost \in Nat
    /\ \A r \in Corrections : r.product \in Products /\ r.qty \in Nat \ {0}

Books == INSTANCE FinancialReports WITH
            Assets <- {"cash", "receivable", "inventory", "vat_receivable"},
            Liabilities <- {"payable", "vat_payable"}, Equity <- {"retained"},
            Income <- {"revenue"}, Spending <- {"cogs"}

VARIABLES today, early,                          \* the local date; UTC is still a day behind
          documents, items, outs, receipts,
          book                                   \* debits minus credits per day and account

trade == <<documents, items, outs, receipts, book>>
dayVars == <<today, early, trade, noticeVars>>

Days == 1..today

DaysInit ==
        /\ today = 1 /\ early \in BOOLEAN
        /\ documents = <<>> /\ outs = <<>> /\ receipts = <<0>>
        /\ items = [p \in Products |-> [onHand |-> 0, cost |-> 0]]
        /\ book = <<[a \in Books!AllAccounts |-> 0]>>
        /\ NoticesInit

AllDays == Books!Dated(book, Days)

\* create_journal_entry: an entry of nothing is refused, and the request with it.
Post(amounts) ==
    /\ \E a \in DOMAIN amounts : amounts[a] # 0
    /\ book' = [book EXCEPT ![today] = [a \in DOMAIN @ |->
                   @[a] + IF a \in DOMAIN amounts THEN amounts[a] ELSE 0]]

Enough(lines) == \A p \in DOMAIN lines : items[p].onHand >= lines[p]

CostOf(lines, cost) == SumFunction([p \in DOMAIN lines |-> lines[p] * cost[p]])

LowAlerts(lines, S) ==
    SetToSeq({NewNotice("low_stock", p, Everyone) : p \in
        {q \in S : items[q].onHand - lines[q] <= ReorderLevel /\ ~Pending("low_stock", q)}})

StockOut(lines) ==
    /\ Enough(lines)
    /\ items' = [p \in Products |-> IF p \in DOMAIN lines
                   THEN [items[p] EXCEPT !.onHand = @ - lines[p]] ELSE items[p]]
    /\ outs' = outs \o SetToSeq({[product |-> p, qty |-> lines[p], day |-> today,
                                   utc |-> IF early THEN today - 1 ELSE today] : p \in DOMAIN lines})
    /\ Create(LowAlerts(lines, DOMAIN lines), TRUE)

AtLatestCost(lines, cost) ==                     \* faulty: the new cost revalues what is there
    items' = [p \in Products |-> IF p \notin DOMAIN lines THEN items[p]
                ELSE [onHand |-> items[p].onHand + lines[p], cost |-> cost[p]]]

\* stock_in: the average cost is weighted by the quantities.
Average(item, qty, cost) == (item.onHand * item.cost + qty * cost) \div (item.onHand + qty)
StockIn(lines, cost) ==
    items' = [p \in Products |-> IF p \notin DOMAIN lines THEN items[p]
                ELSE [onHand |-> items[p].onHand + lines[p],
                      cost |-> Average(items[p], lines[p], cost[p])]]

\* The cost the lines leave at, and the entry of the sale.
CostsNow(lines) == [p \in DOMAIN lines |-> items[p].cost]
SaleEntry(doc, cost, debited) ==
    [a \in {debited, "revenue", "vat_payable", "cogs", "inventory"} |->
        CASE a = debited       -> DocTotal(doc)
          [] a = "revenue"     -> 0 - Subtotal(doc)
          [] a = "vat_payable" -> 0 - TaxTotal(doc)
          [] a = "cogs"        -> CostOf(doc.lines, cost)
          [] a = "inventory"   -> 0 - CostOf(doc.lines, cost)]

Document(kind, status, o) ==
    [kind |-> kind, status |-> status, day |-> today, lines |-> o.lines,
     percent |-> o.percent, due |-> today + o.term, by |-> o.by,
     cost |-> IF kind = "pos" THEN CostsNow(o.lines) ELSE [p \in DOMAIN o.lines |-> 0]]

DraftInvoice(o) ==
    /\ documents' = Append(documents, Document("invoice", "draft", o))
    /\ UNCHANGED <<today, early, items, outs, receipts, book, noticeVars>>

ConfirmInvoice(d) ==
    /\ documents[d].kind = "invoice" /\ documents[d].status = "draft"
    /\ StockOut(documents[d].lines)
    /\ documents' = [documents EXCEPT ![d].status = "confirmed"]
    /\ Post(SaleEntry(documents[d], CostsNow(documents[d].lines), "receivable"))
    /\ UNCHANGED <<today, early, receipts, online, scans>>

\* Half of the invoice, or what is left of it.
PayInvoice(d, rest) ==
    LET half == DocTotal(documents[d]) \div 2
        due == IF documents[d].status = "confirmed" THEN DocTotal(documents[d])
                                                    ELSE DocTotal(documents[d]) - half
        amount == IF rest THEN due ELSE half
    IN  /\ documents[d].kind = "invoice"
        /\ documents[d].status \in IF rest THEN {"confirmed", "partially_paid"} ELSE {"confirmed"}
        /\ documents' = [documents EXCEPT ![d].status = IF rest THEN "paid" ELSE "partially_paid"]
        /\ Post([cash |-> amount, receivable |-> 0 - amount])
        /\ UNCHANGED <<today, early, items, outs, receipts, noticeVars>>

RingUp(o) ==
    LET sale == Document("pos", "completed", o)
    IN  /\ StockOut(o.lines)
        /\ documents' = Append(documents, sale)
        /\ Post(SaleEntry(sale, sale.cost, "cash"))
        /\ UNCHANGED <<today, early, receipts, online, scans>>

\* A later line of an invoice or till sale is short: the lines done before
\* it, and the alerts they created, are rolled back.
Refused(lines, done) ==
    /\ ~Enough(lines)
    /\ done \subseteq {p \in DOMAIN lines : items[p].onHand >= lines[p]}
    /\ Create(LowAlerts(lines, done), FALSE)
    /\ UNCHANGED <<today, early, trade, online, scans>>

Refund(d) ==
    LET sale == documents[d]
    IN  /\ sale.kind = "pos" /\ sale.status = "completed"
        /\ StockIn(sale.lines, sale.cost)
        /\ documents' = [documents EXCEPT ![d].status = "refunded"]
        /\ Post(LET entry == SaleEntry(sale, sale.cost, "cash") IN [a \in DOMAIN entry |-> 0 - entry[a]])
        /\ UNCHANGED <<today, early, outs, receipts, noticeVars>>

Receive(p, q, cost) ==
    LET tax == (q * cost * TaxPercent) \div 100
    IN  /\ StockIn([x \in {p} |-> q], [x \in {p} |-> cost])
        /\ receipts' = [receipts EXCEPT ![today] = @ + q * cost]
        /\ Post([inventory |-> q * cost, vat_receivable |-> tax, payable |-> 0 - (q * cost + tax)])
        /\ UNCHANGED <<today, early, documents, outs, noticeVars>>

\* The stock screen: stock_in, stock_out and adjust_stock, without a journal entry.
PutIn(p, q, cost) ==
    /\ StockIn([x \in {p} |-> q], [x \in {p} |-> cost])
    /\ UNCHANGED <<today, early, documents, outs, receipts, book, noticeVars>>

TakeOut(p, q) ==
    /\ StockOut([x \in {p} |-> q])
    /\ UNCHANGED <<today, early, documents, receipts, book, online, scans>>

\* The average cost stays, no STOCK_OUT movement is written and nobody is warned.
Adjust(p, by) ==
    /\ items[p].onHand + by >= 0
    /\ items' = [items EXCEPT ![p].onHand = @ + by]
    /\ UNCHANGED <<today, early, documents, outs, receipts, book, noticeVars>>

\* Documents and receipts may be deleted at any time; neither stock nor journal
\* follows.  Receipts are kept as a sum per day: r is one that may be in it.
DeleteDocument(d) ==
    /\ documents[d].status # "deleted"
    /\ documents' = [documents EXCEPT ![d].status = "deleted"]
    /\ UNCHANGED <<today, early, items, outs, receipts, book, noticeVars>>

DeleteReceipt(day, r) ==
    /\ r.qty * r.cost \in 1..receipts[day]
    /\ receipts' = [receipts EXCEPT ![day] = @ - r.qty * r.cost]
    /\ UNCHANGED <<today, early, documents, items, outs, book, noticeVars>>

\* Income and expense accounts are emptied into retained earnings.
ClosePeriod ==
    /\ Post([revenue  |-> 0 - AllDays["revenue"], cogs |-> 0 - AllDays["cogs"],
             retained |-> AllDays["revenue"] + AllDays["cogs"]])
    /\ UNCHANGED <<today, early, documents, items, outs, receipts, noticeVars>>

Overdue == {<<d, documents[d].by>> : d \in
    {i \in DOMAIN documents : /\ documents[i].kind = "invoice" /\ documents[i].due < today
                              /\ documents[i].status \in {"confirmed", "partially_paid"}}}

\* UTC reaches the local date, or a new local day begins.
Tick == /\ early' = ~early
        /\ today' = IF early THEN today ELSE today + 1
        /\ receipts' = IF early THEN receipts ELSE Append(receipts, 0)
        /\ book' = IF early THEN book ELSE Append(book, [a \in Books!AllAccounts |-> 0])
        /\ UNCHANGED <<documents, items, outs, noticeVars>>

Trade ==
    \/ \E o \in Orders : DraftInvoice(o) \/ RingUp(o)
    \/ \E d \in DOMAIN documents : ConfirmInvoice(d) \/ Refund(d) \/ DeleteDocument(d)
    \/ \E d \in DOMAIN documents, rest \in BOOLEAN : PayInvoice(d, rest)
    \/ \E o \in Orders : \E done \in SUBSET DOMAIN o.lines : Refused(o.lines, done)
    \/ \E r \in Deliveries : Receive(r.product, r.qty, r.cost) \/ PutIn(r.product, r.qty, r.cost)
    \/ \E r \in Corrections : TakeOut(r.product, r.qty)
    \/ \E r \in Corrections : \E by \in {r.qty, 0 - r.qty} : Adjust(r.product, by)
    \/ \E r \in Deliveries, day \in Days : DeleteReceipt(day, r)
    \/ ClosePeriod

Notify ==
    /\ \/ \E u \in Users : Connect(u) \/ Disconnect(u) \/ MarkAllRead(u)
       \/ \E u \in Users : \E i \in DOMAIN notices : MarkRead(u, i)
       \/ \E d \in DOMAIN documents : documents[d].status # "deleted" /\ PortalActs(d, documents[d].by)
       \/ \E s \in Scanners : StartScan(s, Overdue) \/ ScanDies(s)
       \/ \E s \in Scanners : \E o \in scans[s].todo : Look(s, o)
       \/ \E s \in Scanners : \E o \in scans[s].adding : AddReminder(s, o)
    /\ UNCHANGED <<today, early, trade>>

DaysNext == Trade \/ Notify \/ Tick

DaysSpec == DaysInit /\ [][DaysNext]_dayVars
-----------------------------------------------------------------------------
ReportsMeetTheBooks ==
    LET net == AllDays
    IN  /\ SalesSummary(documents, today, today).period_total = 0 - net["revenue"] - net["vat_payable"]
        /\ LET best == TopProducts(documents, Days, Cardinality(Products))
           IN  SumFunction([k \in DOMAIN best |-> best[k].sold.revenue])
                 = Books!Total(net, Books!AllAccounts, {"revenue"})
        /\ PurchaseSummary(receipts, today, today).period_total
             = net["inventory"] + net["cogs"]

\* DeadStockView, whose cutoff is local and whose last movement is a UTC date: a
\* product reported as dead stock had no STOCK_OUT on a local day after the cutoff,
\* and one on the shelf that is not reported had one on or after it.  What was
\* adjusted away is no movement of that type, for the view as for the claim.
DeadStockIsIdle ==
    \A n \in 0..today : \A p \in Products :
        LET moved(first) == \E i \in DOMAIN outs : outs[i].product = p /\ outs[i].day >= first
        IN  /\ p \in DeadStock(items, outs, today, n) => ~moved(today - n + 1)
            /\ items[p].onHand > 0 /\ ~moved(today - n) => p \in DeadStock(items, outs, today, n)
=============================================================================
