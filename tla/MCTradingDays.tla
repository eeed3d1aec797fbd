----------------------------- MODULE MCTradingDays -----------------------------
(* A finite instance of TradingDays.  A behaviour explores the reports or   *)
(* the notices, chosen at the start; between them they take every action.   *)
EXTENDS TradingDays, ReportChecks

CONSTANTS p1, p2, ana, Themes, LastDay, MaxDocuments, MaxOuts, MaxReceipts, MaxNotices

VARIABLES
    theme,    \* what the behaviour explores
    plain,    \* no stock was put in, taken out or adjusted by hand
    kept,     \* no sale or receipt was deleted, and the books were not closed
    prompt,   \* documents were confirmed and refunded on the day they were made
    alone,    \* no scan began while another was under way
    received  \* how often goods were received or put in

history == <<theme, plain, kept, prompt, alone, received>>

OwnPrice == (p1 :> 2000) @@ (p2 :> 6000)
Never == 99

Order(lines, percent, by, term) == [lines |-> lines, percent |-> percent, by |-> by, term |-> term]
One(p, q) == p :> q
SalesOrders == {Order(One(p1, 1), 0, ana, Never), Order(One(p2, 2), 50, ana, Never),
                Order(One(p1, 1) @@ One(p2, 1), 0, ana, Never)}
StockOrders == {Order(One(p1, 1), 0, ana, Never), Order(One(p1, 2), 0, ana, Never)}
NoticeOrders == {Order(One(p1, 1), 0, u, 0) : u \in Users}
AnyOrders == SalesOrders \cup StockOrders \cup NoticeOrders

Delivery(p, q, cost) == [product |-> p, qty |-> q, cost |-> cost]
AnyDeliveries == {Delivery(p, 2, 1440) : p \in Products} \cup {Delivery(p1, 1, 2880)}
AnyCorrections == {[product |-> p1, qty |-> 1]}

Settled(d) == documents[d].status \in {"draft", "completed"} /\ documents'[d].status \in {"confirmed", "refunded"}
Unmade(d) == IsSale(documents[d]) /\ documents'[d].status = "deleted"
Deleted == {d \in DOMAIN documents' : documents'[d].status = "deleted"}
Withdrawn == \E d \in Days : receipts'[d] < receipts[d]
Closed == book' # book /\ documents' = documents /\ receipts' = receipts
NoScan == \A s \in Scanners : scans[s] = Nothing

MCDaysInit == /\ DaysInit /\ theme \in Themes /\ received = 0
          /\ plain = TRUE /\ kept = TRUE /\ prompt = TRUE /\ alone = TRUE
MCDaysNext ==
    /\ DaysNext
    /\ theme' = theme
    /\ plain' = (plain /\ (items' = items \/ book' # book))
    /\ kept' = (kept /\ ~Closed /\ ~Withdrawn /\ \A d \in DOMAIN documents : ~Unmade(d))
    /\ prompt' = (prompt /\ \A d \in DOMAIN documents : Settled(d) => documents[d].day = today)
    /\ alone' = (alone /\ (NoScan \/ \A s \in Scanners : scans[s] = Nothing => scans'[s] = Nothing))
    /\ received' = IF \E r \in Deliveries : items'[r.product].onHand = items[r.product].onHand + r.qty
                                            /\ documents' = documents
                      THEN received + 1 ELSE received
LikeScanners == Permutations(Scanners)
MCDaysSpec == MCDaysInit /\ [][MCDaysNext]_<<dayVars, history>>

Asked(orders, kinds) ==
    Len(documents') > Len(documents) =>
        LET doc == documents'[Len(documents')]
        IN  /\ Order(doc.lines, doc.percent, doc.by, doc.due - doc.day) \in orders
            /\ doc.kind \in kinds
Quiet == UNCHANGED <<online, scans>> /\ (trade' = trade => UNCHANGED notices)

\* Documents of several lines and with a discount, out of stock of one cost.
OfSales == /\ Quiet /\ plain' /\ ((kept /\ ~early) \/ UNCHANGED trade)
           /\ Asked(SalesOrders, {"invoice", "pos"}) /\ items'[p1].cost \in {0, 1440}
           /\ (Deleted # {} => ~kept')
\* Stock of several costs, sold at the till and moved by hand.
OfStock == /\ Quiet /\ kept' /\ items'[p2] = items[p2] /\ Len(outs') <= 2 /\ Asked(StockOrders, {"pos"})
           /\ Deleted = {} /\ (items' = items \/ Len(outs') > Len(outs) \/ book' # book
                                \/ (outs = <<>> /\ received' = 1 /\ today = 1 /\ ~early))
\* One product, invoices that fall due, and everything that happens to notices.
OfNotices == /\ prompt' /\ plain' /\ items'[p2] = items[p2] /\ items'[p1].cost \in {0, 1440}
             /\ Asked(NoticeOrders, {"invoice"}) /\ received' <= 1
             /\ Len(documents') > Len(documents) \/ received' > received => today = 1 /\ NoScan
             /\ early => ~early'
             /\ Deleted \subseteq {1} /\ ~Closed /\ ~Withdrawn /\ (Deleted # {} => ~kept' /\ Len(documents') = 1)
             /\ online' # online => NoScan /\ online' \subseteq {ana}
             /\ \A d \in DOMAIN documents' : documents'[d].status # "partially_paid"
             /\ \A i \in DOMAIN notices' : notices'[i].type = "system" => Len(documents') = 1 /\ NoScan

InBounds ==
    /\ today' <= LastDay /\ Len(documents') <= MaxDocuments /\ Len(outs') <= MaxOuts
    /\ received' <= MaxReceipts /\ Len(notices') <= MaxNotices
    /\ theme = "sales" => OfSales
    /\ theme = "stock" => OfStock
    /\ theme = "notices" => OfNotices
-----------------------------------------------------------------------------
\* While no sale or goods receipt was deleted and the books were not closed: over
\* the days, what the sales summary counts is what the journal charged to customers
\* and took at tills, what the best sellers earned is the income of the profit and
\* loss statement, and the purchase summary is the goods in the inventory account
\* and those since sold out of it (reports/views.py against accounting/reports.py).
\* Day by day the sales are so while documents were decided on the day they were
\* made: the summary goes by the day of the document, the journal by the entry's.
\* A deletion takes no entry back, and a closing empties the accounts compared.
PromptSalesMeetTheBooks ==
  kept =>
    /\ ReportsMeetTheBooks
    /\ prompt => \A d \in Days : SalesSummary(documents, today, today).series[d]
                                  = 0 - book[d]["revenue"] - book[d]["vat_payable"]

\* While no stock was put in, taken out or adjusted by hand, which makes no entry,
\* the inventory valuation is the balance of the inventory account, at whatever
\* costs stock came, went and came back, and whatever was deleted or closed.
PlainWorthIsInventory == plain => InventoryValuation(items) = AllDays["inventory"]

\* A product has one unread low stock alert at most, and an invoice one unread
\* reminder as long as scans did not overlap (create_notification's dedupe).
AloneRemindedOnce ==
    \A i, j \in DOMAIN notices :
        /\ i # j /\ ~notices[i].read /\ ~notices[j].read
        /\ notices[i].type = notices[j].type /\ notices[i].ref = notices[j].ref
        => notices[i].type = "system" \/ (notices[i].type = "overdue" /\ ~alone)
=============================================================================
