------------------------------- MODULE PosTill -------------------------------
(***************************************************************************)
(* The point of sale, apps/pos: a cashier opens a till session with a      *)
(* cash float, rings up sales that take goods out of stock at once,        *)
(* refunds them, and closes the session against the cash it should hold.   *)
(*                                                                         *)
(* A handler reads its row without a lock (the Load actions) and decides   *)
(* on that snapshot; a sale, a refund and the end of a close each commit   *)
(* in one transaction.  All sales are of one product.                      *)
(***************************************************************************)
EXTENDS Integers, FiniteSets, Functions

CONSTANTS
    Cashiers,    \* the users who work a till
    Tills,       \* POSSession rows
    Sales,       \* POSTransaction rows
    Requests,    \* the HTTP requests that may be in flight at once
    Floats,      \* the cash floats a session may open with
    Price,       \* of a unit of the product
    Quantities,  \* the quantities sold at once
    Stock,       \* the units on hand before the first sale
    Irregular    \* which of "edit", "delete" and a "tracked" product to explore

None == "none"
Methods == {"cash", "bank"}

ASSUME PosConstants ==
    /\ IsFiniteSet(Sales)
    /\ None \notin Cashiers \cup Tills
    /\ Floats \subseteq Nat /\ 0 \in Floats
    /\ Price \in Nat \ {0}
    /\ Quantities \subseteq Nat \ {0}
    /\ Stock \in Nat
    /\ Irregular \subseteq {"edit", "delete", "tracked"}

VARIABLES
    till,      \* the POSSession rows
    sale,      \* the POSTransaction rows
    onHand,    \* the StockItem of the product in the till's warehouse
    returned,  \* how often the goods of a sale were put back
    stripped,  \* the sales whose POSTransactionItem rows a deletion took along
    posted,    \* what the journal entries of a sale leave in cash and in bank
    drawer,    \* the cash in a till's drawer (no column holds it)
    handler    \* what each request in flight has loaded

vars == <<till, sale, onHand, returned, stripped, posted, drawer, handler>>
goods == <<onHand, returned, stripped>>

TillRow == [status : {None, "open", "closed"}, cashier : Cashiers \cup {None},
            opening : Floats, expected : Nat]
SaleRow == [status : {None, "completed", "refunded"}, till : Tills \cup {None},
            method : Methods, qty : Quantities \cup {0}]
NoTill == [status |-> None, cashier |-> None, opening |-> 0, expected |-> 0]
NoSale == [status |-> None, till |-> None, method |-> "cash", qty |-> 0]

Idle == [op |-> None]
Loaded == [op : {"open"}, doc : Cashiers, seen : BOOLEAN]
          \cup [op : {"sell", "close", "save", "editTill"}, doc : Tills, seen : TillRow]
          \cup [op : {"refund", "editSale"}, doc : Sales, seen : SaleRow]

TypeOK ==
    /\ till \in [Tills -> TillRow]
    /\ sale \in [Sales -> SaleRow]
    /\ onHand \in Nat
    /\ returned \in [Sales -> Nat]
    /\ stripped \subseteq Sales
    /\ posted \in [Sales -> [Methods -> Int]]
    /\ drawer \in [Tills -> Int]
    /\ handler \in [Requests -> Loaded \cup {Idle}]

Init ==
    /\ till = [s \in Tills |-> NoTill]
    /\ sale = [t \in Sales |-> NoSale]
    /\ onHand = Stock
    /\ returned = [t \in Sales |-> 0]
    /\ stripped = {}
    /\ posted = [t \in Sales |-> [m \in Methods |-> 0]]
    /\ drawer = [s \in Tills |-> 0]
    /\ handler = [r \in Requests |-> Idle]

Begin(r, op, doc, seen) ==
    /\ handler[r] = Idle
    /\ handler' = [handler EXCEPT ![r] = [op |-> op, doc |-> doc, seen |-> seen]]
    /\ UNCHANGED <<till, sale, goods, posted, drawer>>
Done(r) == handler' = [handler EXCEPT ![r] = Idle]

Worth(row) == Price * row.qty
Cash(method, amount) == IF method = "cash" THEN amount ELSE 0

----------------------------------------------------------------------------
(* Sessions.                                                               *)

MayOpenAnyway(c) == TRUE                             \* faulty
MayOpen(c) == \A s \in Tills : ~ (till[s].status = "open" /\ till[s].cashier = c)

LoadOpen(r, c) == Begin(r, "open", c, MayOpen(c))

OpenTill(r, s, float) ==
    LET h == handler[r]
    IN  /\ h.op = "open" /\ h.seen
        /\ till[s] = NoTill
        /\ till' = [till EXCEPT ![s] = [status |-> "open", cashier |-> h.doc,
                                        opening |-> float, expected |-> 0]]
        /\ drawer' = [drawer EXCEPT ![s] = float]
        /\ Done(r)
        /\ UNCHANGED <<sale, goods, posted>>

LoadTill(r, op, s) ==
    /\ till[s] # NoTill
    /\ op = "editTill" => "edit" \in Irregular
    /\ Begin(r, op, s, till[s])

CashSalesMade(s) ==                                  \* faulty: refunded ones too
    {t \in Sales : sale[t].till = s /\ sale[t].method = "cash"}
CashSales(s) ==
    {t \in Sales : /\ sale[t].till = s /\ sale[t].method = "cash"
                   /\ sale[t].status = "completed"}

\* close: the sales are summed up first, then the row is saved.
SumUp(r) ==
    LET h == handler[r]
        taken == SumFunctionOnSet([t \in Sales |-> Worth(sale[t])], CashSales(h.doc))
    IN  /\ h.op = "close" /\ h.seen.status = "open"
        /\ handler' = [handler EXCEPT ![r].op = "save",
                                      ![r].seen.expected = h.seen.opening + taken]
        /\ UNCHANGED <<till, sale, goods, posted, drawer>>

\* Only the counted columns and the status are saved.
CloseTill(r) ==
    LET h == handler[r]
    IN  /\ h.op = "save"
        /\ till[h.doc] # NoTill
        /\ till' = [till EXCEPT ![h.doc].status = "closed",
                                ![h.doc].expected = h.seen.expected]
        /\ Done(r)
        /\ UNCHANGED <<sale, goods, posted, drawer>>

\* PATCH of the opening float saves every column of the snapshot.
Edited(seen, float) == [seen EXCEPT !.opening = float]
EditTill(r, float) ==
    LET h == handler[r]
    IN  /\ h.op = "editTill"
        /\ till' = [till EXCEPT ![h.doc] = Edited(h.seen, float)]
        /\ Done(r)
        /\ UNCHANGED <<sale, goods, posted, drawer>>

\* DELETE: a session with sales is protected.
DeleteTill(s) ==
    /\ "delete" \in Irregular
    /\ till[s] # NoTill
    /\ \A t \in Sales : sale[t].till # s
    /\ till' = [till EXCEPT ![s] = NoTill]
    /\ UNCHANGED <<sale, goods, posted, drawer, handler>>

----------------------------------------------------------------------------
(* Sales and refunds.                                                      *)

AcceptsAnySale(seen) == TRUE                         \* faulty
AcceptsSale(seen) == seen.status = "open"            \* validate_session

Sell(r, t, method, qty) ==
    LET h == handler[r]
        row == [status |-> "completed", till |-> h.doc, method |-> method, qty |-> qty]
    IN  /\ h.op = "sell" /\ AcceptsSale(h.seen)
        /\ till[h.doc] # NoTill
        /\ sale[t] = NoSale /\ t \notin stripped         \* a new row
        /\ qty <= onHand
        /\ sale' = [sale EXCEPT ![t] = row]
        /\ onHand' = onHand - qty
        /\ posted' = [posted EXCEPT ![t][method] = @ + Worth(row)]
        /\ drawer' = [drawer EXCEPT ![h.doc] = @ + Cash(method, Worth(row))]
        /\ Done(r)
        /\ UNCHANGED <<till, returned, stripped>>

LoadSale(r, op, t) ==
    /\ sale[t] # NoSale
    /\ op = "editSale" => "edit" \in Irregular
    /\ Begin(r, op, t, sale[t])

Refundable(seen) == seen.status = "completed"

\* stock_in is called for each item, without a batch or serial numbers.
Returnable(t) == "tracked" \notin Irregular \/ t \in stripped

Refunded(row) == [m \in Methods |-> IF m = row.method THEN Worth(row) ELSE 0]

PutBack(t, row) == IF t \in stripped THEN 0 ELSE row.qty

\* Cash handed back for a sale of a closed till does not come from its drawer.
Refund(r) ==
    LET h == handler[r]
        t == h.doc
    IN  /\ h.op = "refund" /\ Refundable(h.seen) /\ Returnable(t)
        /\ sale[t] # NoSale
        /\ onHand' = onHand + PutBack(t, h.seen)
        /\ returned' = IF t \in stripped THEN returned ELSE [returned EXCEPT ![t] = @ + 1]
        /\ sale' = [sale EXCEPT ![t].status = "refunded"]
        /\ posted' = [posted EXCEPT ![t] = [m \in Methods |-> @[m] - Refunded(h.seen)[m]]]
        /\ drawer' = [drawer EXCEPT ![h.seen.till] =
                        IF till[h.seen.till].status = "open"
                        THEN @ - Cash(h.seen.method, Worth(h.seen)) ELSE @]
        /\ Done(r)
        /\ UNCHANGED <<till, stripped>>

EditedToRefunded(seen, method, s) ==                 \* faulty: status is writable
    [seen EXCEPT !.method = method, !.till = s, !.status = "refunded"]
EditedSale(seen, method, s) == [seen EXCEPT !.method = method, !.till = s]

\* PATCH of a sale: the method and the session are writable, a new session is
\* validated, and every column of the snapshot is saved: a row deleted meanwhile is
\* inserted again, without its items.
EditSale(r, method, s) ==
    LET h == handler[r]
    IN  /\ h.op = "editSale"
        /\ till[s] # NoTill
        /\ s # h.seen.till => AcceptsSale(till[s])
        /\ sale' = [sale EXCEPT ![h.doc] = EditedSale(h.seen, method, s)]
        /\ Done(r)
        /\ UNCHANGED <<till, goods, posted, drawer>>

\* DELETE removes the row and its items, and undoes nothing.
DeleteSale(t) ==
    /\ "delete" \in Irregular
    /\ sale[t] # NoSale
    /\ sale' = [sale EXCEPT ![t] = NoSale]
    /\ stripped' = stripped \cup {t}
    /\ UNCHANGED <<till, onHand, returned, posted, drawer, handler>>

----------------------------------------------------------------------------
\* A guard refuses the request.
Refuse(r) ==
    LET h == handler[r]
    IN  /\ \/ h.op = "open" /\ ~ h.seen
           \/ h.op \in {"sell", "editTill", "editSale"}   \* or its payload is invalid
           \/ h.op = "close" /\ h.seen.status # "open"
           \/ h.op = "save" /\ till[h.doc] = NoTill
           \/ h.op = "refund" /\ (~ Refundable(h.seen) \/ ~ Returnable(h.doc) \/ sale[h.doc] = NoSale)
        /\ Done(r)
        /\ UNCHANGED <<till, sale, goods, posted, drawer>>

Load(r) ==
    \/ \E c \in Cashiers : LoadOpen(r, c)
    \/ \E s \in Tills, op \in {"sell", "close", "editTill"} : LoadTill(r, op, s)
    \/ \E t \in Sales, op \in {"refund", "editSale"} : LoadSale(r, op, t)

Finish(r) ==
    \/ \E s \in Tills, float \in Floats : OpenTill(r, s, float)
    \/ SumUp(r) \/ CloseTill(r) \/ Refund(r) \/ Refuse(r)
    \/ \E float \in Floats : EditTill(r, float)
    \/ \E t \in Sales, method \in Methods, qty \in Quantities : Sell(r, t, method, qty)
    \/ \E method \in Methods, s \in Tills : EditSale(r, method, s)

Next ==
    \/ \E r \in Requests : Load(r) \/ Finish(r)
    \/ \E s \in Tills : DeleteTill(s)
    \/ \E t \in Sales : DeleteSale(t)

Spec == Init /\ [][Next]_vars

\* A worker that has read its rows runs its handler to the end.
Fairness == \A r \in Requests : WF_vars(Finish(r))
FairSpec == Spec /\ Fairness

----------------------------------------------------------------------------
(* Properties of one request at a time.                                    *)

\* "Expected cash (opening float + completed cash sales)": what a closed till is
\* said to hold is what its cashier has put in and handed out until the close.
ExpectedIsDrawer ==
    \A s \in Tills : till[s].status = "closed" => till[s].expected = drawer[s]

\* The entries of a sale and of its refund are "mirrored pairs": a completed sale
\* has its worth in the account of its method, any other one nothing anywhere.
PostingsMirror ==
    \A t \in Sales :
        posted[t] = IF sale[t].status = "completed" THEN Refunded(sale[t])
                                                    ELSE [m \in Methods |-> 0]

\* What is missing from the shelf is what the completed sales took.
GoodsMatchSales ==
    onHand + SumFunctionOnSet([t \in Sales |-> sale[t].qty],
                              {t \in Sales : sale[t].status = "completed"}) = Stock

\* "Refunding a completed sale restores stock": a refund begun on a completed sale
\* is carried out.
RefundsRestore ==
    \A t \in Sales :
        (\E r \in Requests : /\ handler[r].op = "refund" /\ handler[r].doc = t
                             /\ handler[r].seen.status = "completed")
            ~> sale[t].status = "refunded"

\* "A cashier can only have one open session at a time."
OneOpenSession ==
    \A s, z \in Tills : till[s].status = "open" /\ till[z].status = "open"
                            /\ till[s].cashier = till[z].cashier => s = z

\* A step leaves the outcome of a closed session that is kept, and adds no sale.
LeavesClosed ==
    \A s \in Tills : till[s].status = "closed" /\ till'[s] # NoTill =>
        /\ till'[s].status = "closed" /\ till'[s].expected = till[s].expected
        /\ \A t \in Sales : sale'[t].till = s => sale[t].till = s

\* "A closed session rejects new sales", and nothing else that is done after it
\* was closed changes its outcome.
ClosedForGood == [][LeavesClosed]_vars

(* A property that survives any interleaving, stale edit and deletion.     *)

\* A sale shown as refunded has had its goods put back, unless a deletion had taken
\* its items along before an edit brought its row back.
RefundedIsReturned ==
    \A t \in Sales \ stripped : sale[t].status = "refunded" => returned[t] > 0
=============================================================================
