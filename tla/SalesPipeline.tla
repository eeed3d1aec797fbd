--------------------------- MODULE SalesPipeline ---------------------------
(***************************************************************************)
(* From quotation to sales order to draft invoices: sales/views.py, and    *)
(* the customer's answer of portal/views.py.                               *)
(*                                                                         *)
(* A quotation is sent by staff, accepted or rejected by its customer and  *)
(* converted to an order; an order is billed by any number of invoices,    *)
(* each for part of its lines.  An invoice may also be made by hand, and   *)
(* its sales_order is a plain writable field.  Every handler decides on    *)
(* rows it has read without a lock (Load) and commits later, in one        *)
(* transaction; Requests is the set of requests that may be in flight at   *)
(* once.                                                                   *)
(***************************************************************************)
EXTENDS Integers, FiniteSets, Functions

CONSTANTS
    Quotations, Orders, Invoices,  \* rows, the last two created as needed
    Lines,       \* the lines of a document; an order copies its quotation's
    Quantity,    \* Quantity[l]: the quantity of a line
    Requests,
    MaxEntries,  \* entries one convert-to-invoice request may list for a line
    Mutations,   \* which of "edit" and "delete" staff may send
    MaxAnswers   \* bound: answers explored per quotation

None == "none"
QuotationStatus == {"draft", "sent", "accepted", "rejected", "converted"}
OrderStatus == {"draft", "confirmed", "fulfilled"}
Absent == {"unused", "gone"}
OnQuotation == {"send", "accept", "reject", "convert", "edit"}
OnOrder == {"invoice", "edit"}
OnInvoice == {"patch"}

ASSUME PipelineConstants ==
    /\ IsFiniteSet(Lines) /\ IsFiniteSet(Invoices)
    /\ Quantity \in [Lines -> Nat]
    /\ MaxEntries \in Nat /\ MaxAnswers \in Nat
    /\ Mutations \subseteq {"edit", "delete"}
    /\ Quotations \cap Orders = {}
    /\ Invoices \cap (Quotations \cup Orders) = {}
    /\ None \notin Quotations \cup Orders

VARIABLES
    quotation,   \* the Quotation rows: status, and whether the lines exist
    answers,     \* how often the customer's answer was taken and staff told
    conversions, \* the orders a quotation was converted to
    order,       \* the SalesOrder rows: status, and whether the lines exist
    invoiced,    \* quantity_invoiced of every order line
    bill,        \* the Invoice rows: their order, and what they bill of its lines
    handler      \* what each request in flight has loaded

vars == <<quotation, answers, conversions, order, invoiced, bill, handler>>

Counts == [Lines -> Nat]
Quoted == [status : QuotationStatus \cup Absent, lines : BOOLEAN]
Ordered == [status : OrderStatus \cup Absent, lines : BOOLEAN]
Billing == [status : {"kept"} \cup Absent, order : Orders \cup {None}, qty : Counts]
NoCounts == [l \in Lines |-> 0]
NoBill == [status |-> "unused", order |-> None, qty |-> NoCounts]
BillOf(o, qty) == [status |-> "kept", order |-> o, qty |-> qty]
Idle == [op |-> None]
Loaded == [op : OnQuotation, doc : Quotations, seen : Quoted, counts : Counts]
          \cup [op : OnOrder, doc : Orders, seen : Ordered, counts : Counts]
          \cup [op : OnInvoice, doc : Invoices]

TypeOK ==
    /\ quotation \in [Quotations -> Quoted]
    /\ answers \in [Quotations -> Nat]
    /\ conversions \in [Quotations -> Nat]
    /\ order \in [Orders -> Ordered]
    /\ invoiced \in [Orders -> Counts]
    /\ bill \in [Invoices -> Billing]
    /\ handler \in [Requests -> Loaded \cup {Idle}]

Init ==
    /\ quotation = [q \in Quotations |-> [status |-> "draft", lines |-> TRUE]]
    /\ answers = [q \in Quotations |-> 0]
    /\ conversions = [q \in Quotations |-> 0]
    /\ order = [o \in Orders |-> [status |-> "unused", lines |-> FALSE]]
    /\ invoiced = [o \in Orders |-> NoCounts]
    /\ bill = [b \in Invoices |-> NoBill]
    /\ handler = [r \in Requests |-> Idle]

Exists(row) == row.status \notin Absent
Done(r) == handler' = [handler EXCEPT ![r] = Idle]

----------------------------------------------------------------------------
(* Quotations.                                                             *)

LoadQuotation(r, op, q) ==
    /\ handler[r] = Idle
    /\ Exists(quotation[q])
    /\ op \in OnQuotation /\ (op = "edit" => "edit" \in Mutations)
    /\ handler' = [handler EXCEPT ![r] = [op |-> op, doc |-> q, seen |-> quotation[q],
                                          counts |-> NoCounts]]
    /\ UNCHANGED <<quotation, answers, conversions, order, invoiced, bill>>

Send(r) ==
    LET h == handler[r]
    IN  /\ h.op = "send" /\ h.seen.status = "draft"
        /\ Exists(quotation[h.doc])
        /\ quotation' = [quotation EXCEPT ![h.doc].status = "sent"]
        /\ Done(r)
        /\ UNCHANGED <<answers, conversions, order, invoiced, bill>>

Answerable(seen) == seen.status = "sent"

\* The portal's accept and reject; staff are notified once per answer.
Answer(r) ==
    LET h == handler[r]
    IN  /\ h.op \in {"accept", "reject"}
        /\ Answerable(h.seen)
        /\ Exists(quotation[h.doc])
        /\ answers[h.doc] < MaxAnswers
        /\ quotation' = [quotation EXCEPT ![h.doc].status =
                            IF h.op = "accept" THEN "accepted" ELSE "rejected"]
        /\ answers' = [answers EXCEPT ![h.doc] = @ + 1]
        /\ Done(r)
        /\ UNCHANGED <<conversions, order, invoiced, bill>>

ConvertibleUnlessRejected(seen) == seen.status # "rejected"    \* faulty: converted passes
Convertible(seen) == seen.status \notin {"converted", "rejected"}

StatusOnceOrdered == "accepted"   \* faulty: as if the customer had agreed
OrderedStatus == "converted"

ConvertToOrder(r, o) ==
    LET h == handler[r]
    IN  /\ h.op = "convert"
        /\ Convertible(h.seen) /\ h.seen.lines
        /\ Exists(quotation[h.doc])
        /\ order[o].status = "unused"
        /\ order' = [order EXCEPT ![o] = [status |-> "draft", lines |-> TRUE]]
        /\ conversions' = [conversions EXCEPT ![h.doc] = @ + 1]
        /\ quotation' = [quotation EXCEPT ![h.doc].status = OrderedStatus]
        /\ Done(r)
        /\ UNCHANGED <<answers, invoiced, bill>>

----------------------------------------------------------------------------
(* Orders.                                                                 *)

CreateOrder(o) ==
    /\ order[o].status = "unused"
    /\ order' = [order EXCEPT ![o] = [status |-> "draft", lines |-> TRUE]]
    /\ UNCHANGED <<quotation, answers, conversions, invoiced, bill, handler>>

LoadOrder(r, op, o) ==
    /\ handler[r] = Idle
    /\ Exists(order[o])
    /\ op \in OnOrder /\ (op = "edit" => "edit" \in Mutations)
    /\ handler' = [handler EXCEPT ![r] = [op |-> op, doc |-> o, seen |-> order[o],
                                          counts |-> invoiced[o]]]
    /\ UNCHANGED <<quotation, answers, conversions, order, invoiced, bill>>

\* The body's entries: ask[l][e] is the quantity entry e asks of line l; entries
\* of zero are skipped.  A body without items asks for all that is outstanding.
Amounts == UNION {0..Quantity[l] : l \in Lines}
Asks == [Lines -> [1..MaxEntries -> Amounts]]
Asked(ask, l) == SumFunctionOnSet(ask[l], 1..MaxEntries)

\* Every entry is compared with what was outstanding when the lines were read.
Billable(seen, ask, l) == \A e \in 1..MaxEntries : ask[l][e] <= Quantity[l] - seen[l]

\* What the lines hold after the increments, as the handler's copies say.
CountedNot(seen, ask, l) == seen[l]                                     \* faulty: not advanced
Counted(seen, ask, l) == seen[l] + Asked(ask, l)

FulfilledBySome(counts) == \E l \in Lines : counts[l] >= Quantity[l]    \* faulty: not all
Fulfilled(counts) == \A l \in Lines : counts[l] >= Quantity[l]

ConvertToInvoice(r, b, ask) ==
    LET h == handler[r]
        o == h.doc
        counts == [l \in Lines |-> Counted(h.counts, ask, l)]
        touched == {l \in Lines : Asked(ask, l) > 0}
    IN  /\ h.op = "invoice"
        /\ h.seen.lines
        /\ touched # {}
        /\ \A l \in touched : Billable(h.counts, ask, l)
        /\ order[o].lines
        /\ bill[b] = NoBill
        /\ bill' = [bill EXCEPT ![b] = BillOf(o, [l \in Lines |-> Asked(ask, l)])]
        /\ invoiced' = [invoiced EXCEPT ![o] =
                           [l \in Lines |-> IF l \in touched THEN counts[l] ELSE @[l]]]
        /\ order' = [order EXCEPT ![o].status =
                        IF Fulfilled(counts) THEN "fulfilled" ELSE "confirmed"]
        /\ Done(r)
        /\ UNCHANGED <<quotation, answers, conversions>>

----------------------------------------------------------------------------
(* Invoices written by hand.  The serializer takes any order of the        *)
(* company, or none, for sales_order, and counts nothing on its lines.     *)

Linkable(o) == o # None => Exists(order[o])

CreateInvoice(b, o, qty) ==
    /\ bill[b] = NoBill
    /\ Linkable(o)
    /\ bill' = [bill EXCEPT ![b] = BillOf(o, qty)]
    /\ UNCHANGED <<quotation, answers, conversions, order, invoiced, handler>>

LoadInvoice(r, b) ==
    /\ handler[r] = Idle
    /\ "edit" \in Mutations
    /\ bill[b].status = "kept"
    /\ handler' = [handler EXCEPT ![r] = [op |-> "patch", doc |-> b]]
    /\ UNCHANGED <<quotation, answers, conversions, order, invoiced, bill>>

\* The save writes the order the body names, or else the one it has read, and
\* inserts a deleted invoice again, without its lines.
EditInvoice(r, o) ==
    LET h == handler[r]
    IN  /\ h.op = "patch"
        /\ Linkable(o)
        /\ bill' = [bill EXCEPT ![h.doc].status = "kept", ![h.doc].order = o]
        /\ Done(r)
        /\ UNCHANGED <<quotation, answers, conversions, order, invoiced>>

----------------------------------------------------------------------------
(* Edits of quotations and orders, and deletions.                          *)

\* PATCH of the notes saves every column of the snapshot, and inserts the row
\* again (its lines stay gone) when it has been deleted.
Edit(r) ==
    LET h == handler[r]
    IN  /\ h.op = "edit"
        /\ IF h.doc \in Quotations
           THEN quotation' = [quotation EXCEPT ![h.doc].status = h.seen.status] /\ UNCHANGED order
           ELSE order' = [order EXCEPT ![h.doc].status = h.seen.status] /\ UNCHANGED quotation
        /\ Done(r)
        /\ UNCHANGED <<answers, conversions, invoiced, bill>>

Gone == [status |-> "gone", lines |-> FALSE]
DeleteQuotation(q) ==
    /\ "delete" \in Mutations
    /\ Exists(quotation[q])
    /\ quotation' = [quotation EXCEPT ![q] = Gone]
    /\ UNCHANGED <<answers, conversions, order, invoiced, bill, handler>>

\* The order's lines cascade; its invoices stay and lose the link.
DeleteOrder(o) ==
    /\ "delete" \in Mutations
    /\ Exists(order[o])
    /\ order' = [order EXCEPT ![o] = Gone]
    /\ invoiced' = [invoiced EXCEPT ![o] = NoCounts]
    /\ bill' = [b \in Invoices |-> IF bill[b].order = o THEN [bill[b] EXCEPT !.order = None]
                                                       ELSE bill[b]]
    /\ UNCHANGED <<quotation, answers, conversions, handler>>

\* Deleting an invoice leaves the quantity_invoiced of its order's lines alone.
DeleteInvoice(b) ==
    /\ "delete" \in Mutations
    /\ bill[b].status = "kept"
    /\ bill' = [bill EXCEPT ![b] = [NoBill EXCEPT !.status = "gone"]]
    /\ UNCHANGED <<quotation, answers, conversions, order, invoiced, handler>>

\* A request ends without effect: a guard refuses, a row is gone.
Abort(r) ==
    /\ handler[r] # Idle
    /\ Done(r)
    /\ UNCHANGED <<quotation, answers, conversions, order, invoiced, bill>>

Serve(r) ==
    \/ \E q \in Quotations, op \in OnQuotation : LoadQuotation(r, op, q)
    \/ \E o \in Orders, op \in OnOrder : LoadOrder(r, op, o)
    \/ Send(r) \/ Answer(r) \/ Edit(r) \/ Abort(r)
    \/ \E o \in Orders : ConvertToOrder(r, o)
    \/ \E b \in Invoices, ask \in Asks : ConvertToInvoice(r, b, ask)
    \/ \E b \in Invoices : LoadInvoice(r, b)
    \/ \E o \in Orders \cup {None} : EditInvoice(r, o)

Next ==
    \/ \E r \in Requests : Serve(r)
    \/ \E o \in Orders : CreateOrder(o) \/ DeleteOrder(o)
    \/ \E q \in Quotations : DeleteQuotation(q)
    \/ \E b \in Invoices : DeleteInvoice(b)
    \/ \E b \in Invoices, o \in Orders \cup {None}, qty \in [Lines -> Amounts] :
          CreateInvoice(b, o, qty)

Spec == Init /\ [][Next]_vars

----------------------------------------------------------------------------
(* What the invoices of an order bill of one of its lines.                 *)
BilledBy(o, l) == [b \in Invoices |-> IF bill[b].order = o THEN bill[b].qty[l] ELSE 0]
Billed(o, l) == SumFunctionOnSet(BilledBy(o, l), Invoices)

(* Properties of one request at a time.                                    *)

\* "over-invoicing is blocked per line": the invoices of an order never bill
\* more of a line than was ordered.
NeverOverbilled == \A o \in Orders, l \in Lines : Billed(o, l) <= Quantity[l]

\* Nothing an order's invoices bill is still outstanding.
BilledIsCounted ==
    \A o \in Orders, l \in Lines : order[o].lines => Billed(o, l) <= invoiced[o][l]

\* The portal takes a customer's answer "exactly once"; a quotation becomes at
\* most one order, and "cannot be converted" once the customer has rejected it.
DecidedOnce ==
    \A q \in Quotations : /\ answers[q] <= 1 /\ conversions[q] <= 1
                          /\ quotation[q].status = "rejected" => conversions[q] = 0

(* Properties that survive any interleaving of requests and edits.         *)

\* Lost updates only ever understate what has been invoiced, and an order shown
\* as fulfilled has every line billed in full, as long as no invoice is deleted or
\* taken off its order.
CountedIsBilled ==
    \A o \in Orders, l \in Lines :
        /\ invoiced[o][l] <= Billed(o, l)
        /\ order[o].status = "fulfilled" => Billed(o, l) >= Quantity[l]

\* A quotation's status is backed by what happened: converted by an order,
\* accepted or rejected by an answer.
StatusIsBacked ==
    \A q \in Quotations :
        /\ quotation[q].status = "converted" => conversions[q] > 0
        /\ quotation[q].status \in {"accepted", "rejected"} => answers[q] > 0
=============================================================================
