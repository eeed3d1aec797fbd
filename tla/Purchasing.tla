----------------------------- MODULE Purchasing -----------------------------
(***************************************************************************)
(* The buying side, apps/purchasing: purchase requests with their approval *)
(* workflow, purchase orders, goods receipts and supplier payments, and    *)
(* the supplier's acknowledgement of portal/views.py.                      *)
(*                                                                         *)
(* As on the selling side a handler decides on rows read without a lock    *)
(* (the Load actions) and commits later.  A goods receipt commits in one   *)
(* transaction; a supplier payment is three commits in a row, and the      *)
(* process may die between them.  Deleting an order takes its lines and    *)
(* payment rows with it and undoes nothing else.                           *)
(***************************************************************************)
EXTENDS Integers, FiniteSets, Functions

CONSTANTS
    Demands,      \* PurchaseRequest rows
    Orders,       \* PurchaseOrder rows, created as needed
    Items,        \* PurchaseOrderItem rows
    Owner,        \* Owner[i]: the order of an item
    Quantity,     \* Quantity[i]: what was ordered
    Total,        \* what an order comes to, in money
    Requests,     \* the HTTP requests that may be in flight at once
    MaxEntries,   \* entries one receipt may list
    MaxQty,       \* bound: quantity of one entry
    Amounts,      \* the amounts paid at once
    Irregular,    \* which of "edit", "crash", "delete", receipts of "foreign" items and
                  \* of a product "swap"ped for the one ordered to explore
    MaxPayments,  \* bound: money paid explored per order
    MaxStocked,   \* bound: goods received explored per item
    MaxDecisions  \* bound: decisions explored per purchase request

None == "none"
DemandStatus == {None, "draft", "submitted", "approved", "rejected", "converted"}
OrderStatus == {None, "draft", "sent", "approved", "partially_received", "received"}
OnDemand == {"submit", "approve", "reject", "convert", "edit"}
OnOrder == {"send", "acknowledge", "receive", "pay", "credit", "post", "edit"}

ASSUME PurchasingConstants ==
    /\ IsFiniteSet(Items) /\ IsFiniteSet(Requests)
    /\ Owner \in [Items -> Orders]
    /\ Quantity \in [Items -> Nat \ {0}]
    /\ Total \in Nat
    /\ MaxEntries \in Nat /\ MaxQty \in Nat
    /\ Amounts \subseteq Nat \ {0}
    /\ Irregular \subseteq {"edit", "crash", "delete", "foreign", "swap"}
    /\ MaxPayments \in Nat /\ MaxStocked \in Nat /\ MaxDecisions \in Nat
    /\ Demands \cap Orders = {}

VARIABLES
    demand,      \* the PurchaseRequest's status
    approvals, rejections, \* how often it was decided either way
    ordersMade,  \* the orders it was converted to
    order,       \* the PurchaseOrder: status and amount_paid
    received,    \* quantity_received of every item
    stocked,     \* what receipts took into stock under it, of whatever product
    strayed,     \* the part of that which is not the product or variant ordered
    payments,    \* what the order's PurchasePayment rows add up to
    posted,      \* what the ledger says was paid for the order
    deleted,     \* the requests and orders that were deleted, their lines with them
    handler      \* what each request in flight has loaded

vars == <<demand, approvals, rejections, ordersMade, order, received, stocked, strayed,
          payments, posted, deleted, handler>>

workflow == <<demand, approvals, rejections, ordersMade>>
goods == <<received, stocked, strayed>>
money == <<payments, posted>>

Row == [status : OrderStatus, paid : Nat]
NoRow == [status |-> None, paid |-> 0]
Counts == [Items -> Nat]
Zero == [i \in Items |-> 0]
Idle == [op |-> None]
Loaded == [op : OnDemand, doc : Demands, seen : DemandStatus, counts : Counts, amount : Nat]
          \cup [op : OnOrder, doc : Orders, seen : Row, counts : Counts, amount : Nat]

TypeOK ==
    /\ demand \in [Demands -> DemandStatus]
    /\ approvals \in [Demands -> Nat] /\ rejections \in [Demands -> Nat]
    /\ ordersMade \in [Demands -> Nat]
    /\ order \in [Orders -> Row]
    /\ received \in Counts /\ stocked \in Counts /\ strayed \in Counts
    /\ payments \in [Orders -> Nat] /\ posted \in [Orders -> Nat]
    /\ deleted \subseteq Demands \cup Orders
    /\ handler \in [Requests -> Loaded \cup {Idle}]

Init ==
    /\ demand = [d \in Demands |-> "draft"]
    /\ approvals = [d \in Demands |-> 0] /\ rejections = [d \in Demands |-> 0]
    /\ ordersMade = [d \in Demands |-> 0]
    /\ order = [o \in Orders |-> NoRow]
    /\ received = Zero /\ stocked = Zero /\ strayed = Zero
    /\ payments = [o \in Orders |-> 0] /\ posted = [o \in Orders |-> 0]
    /\ deleted = {}
    /\ handler = [r \in Requests |-> Idle]

Done(r) == handler' = [handler EXCEPT ![r] = Idle]
Begin(r, h) == handler[r] = Idle /\ handler' = [handler EXCEPT ![r] = h]

\* A save of named fields fails when the row is gone; a row that an edit brought
\* back after its deletion has no lines.
Exists(o) == order[o].status # None
Lines(o) == {i \in Items : Owner[i] = o /\ o \notin deleted}

----------------------------------------------------------------------------
(* Purchase requests.                                                      *)

LoadDemand(r, op, d) ==
    /\ demand[d] # None
    /\ op = "edit" => "edit" \in Irregular
    /\ Begin(r, [op |-> op, doc |-> d, seen |-> demand[d], counts |-> Zero, amount |-> 0])
    /\ UNCHANGED <<workflow, order, goods, money, deleted>>

Submit(r) ==
    LET h == handler[r]
    IN  /\ h.op = "submit" /\ h.seen = "draft"
        /\ demand[h.doc] # None /\ h.doc \notin deleted
        /\ demand' = [demand EXCEPT ![h.doc] = "submitted"]
        /\ Done(r)
        /\ UNCHANGED <<approvals, rejections, ordersMade, order, goods, money, deleted>>

Decidable(seen) == seen = "submitted"

Approve(r) ==
    LET h == handler[r]
    IN  /\ h.op = "approve" /\ Decidable(h.seen)
        /\ demand[h.doc] # None
        /\ approvals[h.doc] < MaxDecisions
        /\ demand' = [demand EXCEPT ![h.doc] = "approved"]
        /\ approvals' = [approvals EXCEPT ![h.doc] = @ + 1]
        /\ Done(r)
        /\ UNCHANGED <<rejections, ordersMade, order, goods, money, deleted>>

Reject(r) ==
    LET h == handler[r]
    IN  /\ h.op = "reject" /\ Decidable(h.seen)
        /\ demand[h.doc] # None
        /\ rejections[h.doc] < MaxDecisions
        /\ demand' = [demand EXCEPT ![h.doc] = "rejected"]
        /\ rejections' = [rejections EXCEPT ![h.doc] = @ + 1]
        /\ Done(r)
        /\ UNCHANGED <<approvals, ordersMade, order, goods, money, deleted>>

ConvertibleEarly(seen) == seen \in {"submitted", "approved"}  \* faulty: not yet approved
Convertible(seen) == seen = "approved"

ConvertToPo(r, o) ==
    LET h == handler[r]
    IN  /\ h.op = "convert" /\ Convertible(h.seen)
        /\ demand[h.doc] # None /\ h.doc \notin deleted
        /\ order[o] = NoRow /\ o \notin deleted
        /\ order' = [order EXCEPT ![o].status = "draft"]
        /\ ordersMade' = [ordersMade EXCEPT ![h.doc] = @ + 1]
        /\ demand' = [demand EXCEPT ![h.doc] = "converted"]
        /\ Done(r)
        /\ UNCHANGED <<approvals, rejections, goods, money, deleted>>

DeleteDemand(d) ==
    /\ "delete" \in Irregular /\ demand[d] # None
    /\ demand' = [demand EXCEPT ![d] = None]
    /\ deleted' = deleted \cup {d}
    /\ UNCHANGED <<approvals, rejections, ordersMade, order, goods, money, handler>>

----------------------------------------------------------------------------
(* Purchase orders.                                                        *)

CreateOrder(o) ==
    /\ order[o] = NoRow /\ o \notin deleted
    /\ order' = [order EXCEPT ![o].status = "draft"]
    /\ UNCHANGED <<workflow, goods, money, deleted, handler>>

LoadOrder(r, op, o, amount) ==
    /\ Exists(o)
    /\ op \in {"send", "acknowledge", "receive", "pay"} \cup (Irregular \cap {"edit"})
    /\ amount \in IF op = "pay" THEN Amounts ELSE {0}
    /\ Begin(r, [op |-> op, doc |-> o, seen |-> order[o], amount |-> amount,
                 counts |-> IF op = "receive" THEN received ELSE Zero])
    /\ UNCHANGED <<workflow, order, goods, money, deleted>>

\* Staff send a draft; the supplier acknowledges it through the portal.
Advance(r) ==
    LET h == handler[r]
    IN  /\ \/ h.op = "send" /\ h.seen.status = "draft"
           \/ h.op = "acknowledge" /\ h.seen.status = "sent"
        /\ Exists(h.doc)
        /\ order' = [order EXCEPT ![h.doc].status = IF h.op = "send" THEN "sent" ELSE "approved"]
        /\ Done(r)
        /\ UNCHANGED <<workflow, goods, money, deleted>>

\* DELETE of an order: its lines and payment rows go with it; what the ledger holds
\* and what is in stock stay.  Its receipts protect it and are deleted first.
DeleteOrder(o) ==
    /\ "delete" \in Irregular /\ Exists(o)
    /\ order' = [order EXCEPT ![o] = NoRow]
    /\ received' = [i \in Items |-> IF Owner[i] = o THEN 0 ELSE received[i]]
    /\ payments' = [payments EXCEPT ![o] = 0]
    /\ deleted' = deleted \cup {o}
    /\ UNCHANGED <<workflow, stocked, strayed, posted, handler>>

Receivable(seen, entry) == entry.qty <= Quantity[entry.item] - seen[entry.item]

\* The bodies a receipt may have: nothing ties the product an entry names to the
\* one its order item orders.
Entry == [item : Items, qty : 1..MaxQty,
          asOrdered : IF "swap" \in Irregular THEN BOOLEAN ELSE {TRUE}]
Entries == UNION {[1..n -> Entry] : n \in 0..MaxEntries}

EntriesOf(entries, i) == {e \in DOMAIN entries : entries[e].item = i}
Quantities(entries) == [e \in DOMAIN entries |-> entries[e].qty]
Arriving(entries, i) == SumFunctionOnSet(Quantities(entries), EntriesOf(entries, i))
Straying(entries, i) ==
    SumFunctionOnSet(Quantities(entries), {e \in EntriesOf(entries, i) : ~ entries[e].asOrdered})

\* Each entry increments its own copy of the item row: the last one stays.
CountedTwice(seen, entries, i) == seen[i] + 2 * Arriving(entries, i)      \* faulty
Counted(seen, entries, i) ==
    LET last == CHOOSE e \in EntriesOf(entries, i) :
                    \A f \in EntriesOf(entries, i) : f <= e
    IN  seen[i] + entries[last].qty

ReceivedWhenAny(counts, o) ==                                             \* faulty
    \E i \in Lines(o) : counts[i] >= Quantity[i]
FullyReceived(counts, o) == \A i \in Lines(o) : counts[i] >= Quantity[i]

\* GoodsReceiptSerializer: any order's items may be listed, as any product, and no
\* status of the order is refused; the status is computed from the rows after the
\* updates.
Receive(r, entries) ==
    LET h == handler[r]
        touched == {i \in Items : EntriesOf(entries, i) # {}}
    IN  /\ h.op = "receive" /\ Exists(h.doc)
        /\ \A e \in DOMAIN entries :
              /\ Receivable(h.counts, entries[e])
              /\ "foreign" \notin Irregular => Owner[entries[e].item] = h.doc
              /\ entries[e].item \in Lines(Owner[entries[e].item])
              /\ Exists(Owner[entries[e].item])
        /\ \A i \in touched : stocked[i] + Arriving(entries, i) <= MaxStocked
        /\ stocked' = [i \in Items |-> IF i \in touched THEN stocked[i] + Arriving(entries, i)
                                                        ELSE stocked[i]]
        /\ strayed' = [i \in Items |-> strayed[i] + Straying(entries, i)]
        /\ received' = [i \in Items |-> IF i \in touched THEN Counted(h.counts, entries, i)
                                                         ELSE received[i]]
        /\ order' = [order EXCEPT ![h.doc].status =
                        IF FullyReceived(received', h.doc) THEN "received"
                                                           ELSE "partially_received"]
        /\ Done(r)
        /\ UNCHANGED <<workflow, money, deleted>>

Payable(seen, amount) == seen.paid + amount <= Total

\* record_payment: the payment row, the order's amount_paid, the posting.
SavePayment(r) ==
    LET h == handler[r]
    IN  /\ h.op = "pay" /\ Exists(h.doc)
        /\ Payable(h.seen, h.amount)
        /\ payments[h.doc] + h.amount <= MaxPayments
        /\ payments' = [payments EXCEPT ![h.doc] = @ + h.amount]
        /\ handler' = [handler EXCEPT ![r].op = "credit"]
        /\ UNCHANGED <<workflow, order, goods, posted, deleted>>

CreditTwice(seen, amount) == seen.paid + amount + amount   \* faulty
Credit(seen, amount) == seen.paid + amount
CreditOrder(r) ==
    LET h == handler[r]
    IN  /\ h.op = "credit" /\ Exists(h.doc)
        /\ order' = [order EXCEPT ![h.doc].paid = Credit(h.seen, h.amount)]
        /\ handler' = [handler EXCEPT ![r].op = "post"]
        /\ UNCHANGED <<workflow, goods, money, deleted>>

PostPayment(r) ==
    LET h == handler[r]
    IN  /\ h.op = "post"
        /\ posted' = [posted EXCEPT ![h.doc] = @ + h.amount]
        /\ Done(r)
        /\ UNCHANGED <<workflow, order, goods, payments, deleted>>

----------------------------------------------------------------------------

\* PATCH of the notes saves every column of the snapshot, and inserts the row again
\* when it was deleted meanwhile.
Edit(r) ==
    LET h == handler[r]
    IN  /\ h.op = "edit"
        /\ IF h.doc \in Demands
           THEN demand' = [demand EXCEPT ![h.doc] = h.seen] /\ UNCHANGED order
           ELSE order' = [order EXCEPT ![h.doc] = h.seen] /\ UNCHANGED demand
        /\ Done(r)
        /\ UNCHANGED <<approvals, rejections, ordersMade, goods, money, deleted>>

\* A request ends without (further) effect: a guard refuses, the row is gone, or,
\* between the commits of a payment, the process dies.
Abort(r) ==
    /\ handler[r] # Idle
    /\ \/ handler[r].op \notin {"credit", "post"}
       \/ handler[r].op = "credit" /\ ~ Exists(handler[r].doc)
       \/ "crash" \in Irregular
    /\ Done(r)
    /\ UNCHANGED <<workflow, order, goods, money, deleted>>

Serve(r) ==
    \/ \E d \in Demands, op \in OnDemand : LoadDemand(r, op, d)
    \/ \E o \in Orders, op \in OnOrder, amount \in Amounts \cup {0} : LoadOrder(r, op, o, amount)
    \/ Submit(r) \/ Approve(r) \/ Reject(r) \/ Advance(r)
    \/ \E o \in Orders : ConvertToPo(r, o)
    \/ \E entries \in Entries : Receive(r, entries)
    \/ SavePayment(r) \/ CreditOrder(r) \/ PostPayment(r)
    \/ Edit(r) \/ Abort(r)

Next ==
    \/ \E r \in Requests : Serve(r)
    \/ \E o \in Orders : CreateOrder(o) \/ DeleteOrder(o)
    \/ \E d \in Demands : DeleteDemand(d)

Spec == Init /\ [][Next]_vars

----------------------------------------------------------------------------
\* As much has been taken into stock under every item as the order asks for.
AllStocked(o) == \A i \in Lines(o) : stocked[i] >= Quantity[i]

\* What is in stock of the product that an item orders.
AsOrdered(i) == stocked[i] - strayed[i]

(* Properties of one request at a time.                                    *)

\* "Over-receiving is blocked": no more of an item is taken into stock than was
\* ordered, and quantity_received tells how much of its product.
NeverOverreceived ==
    \A o \in Orders : \A i \in Lines(o) :
        stocked[i] <= Quantity[i] /\ received[i] = AsOrdered(i)

\* Receipts "auto-update PO status": once goods arrived the status tells whether
\* all of them have.
StatusTellsReceipts ==
    \A o \in Orders :
        (\E i \in Lines(o) : stocked[i] > 0) =>
            order[o].status = IF \A i \in Lines(o) : AsOrdered(i) >= Quantity[i]
                              THEN "received" ELSE "partially_received"

\* "Overpayment is blocked", and whenever no payment of an order is under way the
\* payment rows, the order and the ledger agree on what it has been paid.
SupplierNotOverpaid ==
    \A o \in Orders \ deleted :
        /\ payments[o] <= Total
        /\ (\A r \in Requests : handler[r].op \in {"credit", "post"} => handler[r].doc # o) =>
              order[o].paid = payments[o] /\ posted[o] = payments[o]

\* "Only a submitted request can be approved or rejected and only an approved one
\* can be converted": it is decided once, and makes at most one order.
DecidedOnce ==
    \A d \in Demands : /\ approvals[d] + rejections[d] <= 1
                       /\ ordersMade[d] <= 1
                       /\ demand[d] = "rejected" => ordersMade[d] = 0

(* Properties that survive any interleaving, crash, edit and deletion of   *)
(* other orders.                                                           *)

\* No order is made from a request nobody has approved.
OrderedWasApproved == \A d \in Demands : ordersMade[d] > 0 => approvals[d] > 0

\* No order item counts more than receipts have taken into stock under it, and an
\* order shown as received, unless it was deleted and an edit brought its row back,
\* has had as much taken into stock under each item as it orders: of the product
\* ordered, but for what a receipt itself called another product.
ReceivedIsStocked ==
    /\ \A i \in Items : received[i] <= stocked[i]
    /\ \A o \in Orders \ deleted : order[o].status = "received" => AllStocked(o)

\* Of an order that was not deleted, neither its row nor the ledger claims a payment
\* that has no row.
ClaimedIsPaid ==
    \A o \in Orders \ deleted : order[o].paid <= payments[o] /\ posted[o] <= payments[o]
=============================================================================
