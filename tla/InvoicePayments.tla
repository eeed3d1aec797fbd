-------------------------- MODULE InvoicePayments --------------------------
(***************************************************************************)
(* Invoices and the money collected for them: the confirm, record-payment, *)
(* edit and delete endpoints of sales/views.py, record_invoice_payment of  *)
(* sales/services.py, and the payment intents of apps/payments, which a    *)
(* gateway webhook (or the sandbox's simulated callback) settles.          *)
(*                                                                         *)
(* A handler loads the rows it works on with a plain SELECT, decides on    *)
(* that snapshot, and commits in one transaction later: READ COMMITTED and *)
(* no row lock on invoices or intents, so another request may commit in    *)
(* between.  Requests is the set of requests that may be in flight at once.*)
(* Money is in the smallest currency unit.                                 *)
(***************************************************************************)
EXTENDS Integers

CONSTANTS
    Invoices, Intents, Requests,
    Total,       \* Total[i]: the invoice's total
    Amounts,     \* the amounts payments and intents ask for
    Mutations,   \* which of "edit" and "delete" staff may send
    MaxConfirmations, \* bound: confirmations explored per invoice
    MaxCollected \* bound: money collected explored per invoice

None == "none"
Open == {"confirmed", "partially_paid"}
InvoiceStatus == Open \cup {"draft", "paid"}
Settling == {"pending", "succeeded", "failed"}
IntentStatus == Settling \cup {None, "deleted"}
Operations == {"confirm", "pay", "intent", "checkout", "settle", "fail", "edit", "delete"}

ASSUME PaymentConstants ==
    /\ Total \in [Invoices -> Nat]
    /\ Amounts \subseteq Nat \ {0}
    /\ Mutations \subseteq {"edit", "delete"}
    /\ MaxConfirmations \in Nat /\ MaxCollected \in Nat
    /\ None \notin Invoices /\ None \notin Intents

VARIABLES
    invoice,     \* the Invoice row: whether it exists, status, amount_paid
    collected,   \* what the invoice's SalesPayment rows add up to
    confirmations, \* how often it was confirmed: its lines left stock, its total was posted
    receivable,  \* its net posting to Accounts Receivable
    intent,      \* the PaymentIntent row: status, invoice, amount, checkout_url
    settled,     \* how many SalesPayment rows carry the intent's reference
    charged,     \* the intents whose payer has completed the checkout
    handler      \* what each request in flight has loaded

vars == <<invoice, collected, confirmations, receivable, intent, settled, charged, handler>>

Row == [exists : BOOLEAN, status : InvoiceStatus, paid : Nat]
IntentRow == [status : IntentStatus, invoice : Invoices \cup {None}, amount : Nat, url : BOOLEAN]
NoIntent == [status |-> None, invoice |-> None, amount |-> 0, url |-> FALSE]

\* A request in flight: its operation, the invoice row and the intent status it
\* has seen, and the amount it is about.
Idle == [op |-> None]
Loaded == [op : Operations, invoice : Invoices, seen : Row,
           intent : Intents \cup {None}, was : IntentStatus, amount : Nat]

TypeOK ==
    /\ invoice \in [Invoices -> Row]
    /\ collected \in [Invoices -> Nat]
    /\ confirmations \in [Invoices -> Nat]
    /\ receivable \in [Invoices -> Int]
    /\ intent \in [Intents -> IntentRow]
    /\ settled \in [Intents -> Nat]
    /\ charged \subseteq Intents
    /\ handler \in [Requests -> Loaded \cup {Idle}]

Init ==
    /\ invoice = [i \in Invoices |-> [exists |-> TRUE, status |-> "draft", paid |-> 0]]
    /\ collected = [i \in Invoices |-> 0]
    /\ confirmations = [i \in Invoices |-> 0]
    /\ receivable = [i \in Invoices |-> 0]
    /\ intent = [n \in Intents |-> NoIntent]
    /\ settled = [n \in Intents |-> 0]
    /\ charged = {}
    /\ handler = [r \in Requests |-> Idle]

books == <<collected, confirmations, receivable>>
Done(r) == handler' = [handler EXCEPT ![r] = Idle]

----------------------------------------------------------------------------
(* Loading: get_object, or the webhook's lookup of the intent with its     *)
(* invoice.                                                                *)

Load(r, op, i, amount) ==
    /\ handler[r] = Idle
    /\ invoice[i].exists
    /\ op \in {"confirm", "pay", "intent"} \cup Mutations
    /\ amount \in IF op \in {"pay", "intent"} THEN Amounts ELSE {0}
    /\ handler' = [handler EXCEPT ![r] = [op |-> op, invoice |-> i, seen |-> invoice[i],
                                          intent |-> None, was |-> None, amount |-> amount]]
    /\ UNCHANGED <<invoice, books, intent, settled, charged>>

LoadIntent(r, op, n) ==
    /\ handler[r] = Idle
    /\ intent[n].status \in Settling
    /\ op \in {"settle", "fail"}
    /\ handler' = [handler EXCEPT ![r] =
          [op |-> op, invoice |-> intent[n].invoice, seen |-> invoice[intent[n].invoice],
           intent |-> n, was |-> intent[n].status, amount |-> intent[n].amount]]
    /\ UNCHANGED <<invoice, books, intent, settled, charged>>

----------------------------------------------------------------------------
(* The transactions that end a request.                                    *)

ConfirmableUnpaid(seen) == seen.status # "paid"            \* faulty: not only drafts
Confirmable(seen) == seen.status = "draft"

\* confirm: every line is taken out of stock, then the status is saved and the
\* sale is posted (Dr Accounts Receivable).
Confirm(r) ==
    LET h == handler[r]  i == h.invoice
    IN  /\ h.op = "confirm"
        /\ Confirmable(h.seen)
        /\ invoice[i].exists
        /\ confirmations[i] < MaxConfirmations
        /\ invoice' = [invoice EXCEPT ![i].status = "confirmed"]
        /\ confirmations' = [confirmations EXCEPT ![i] = @ + 1]
        /\ receivable' = [receivable EXCEPT ![i] = @ + Total[i]]
        /\ Done(r)
        /\ UNCHANGED <<collected, intent, settled, charged>>

\* The guards of record_invoice_payment, on the snapshot.
PayableStrictly(seen, i, amount) ==                        \* faulty: off by one
    seen.status \in Open /\ seen.paid + amount < Total[i]
Payable(seen, i, amount) == seen.status \in Open /\ seen.paid + amount <= Total[i]

\* record_invoice_payment: the payment row, the invoice's amount_paid and status
\* computed from the snapshot, and the posting (Cr Accounts Receivable).
PaidByAny(i, paid) == "paid"                               \* faulty: any amount pays it
StatusWhenPaid(i, paid) == IF paid >= Total[i] THEN "paid" ELSE "partially_paid"
Credit(seen, amount) == seen.paid + amount
RecordPayment(i, seen, amount) ==
    /\ Payable(seen, i, amount)
    /\ invoice[i].exists
    /\ collected[i] + amount <= MaxCollected
    /\ collected' = [collected EXCEPT ![i] = @ + amount]
    /\ invoice' = [invoice EXCEPT ![i].paid = Credit(seen, amount),
                                  ![i].status = StatusWhenPaid(i, Credit(seen, amount))]
    /\ receivable' = [receivable EXCEPT ![i] = @ - amount]
    /\ UNCHANGED confirmations

Pay(r) ==
    LET h == handler[r]
    IN  /\ h.op = "pay"
        /\ RecordPayment(h.invoice, h.seen, h.amount)
        /\ Done(r)
        /\ UNCHANGED <<intent, settled, charged>>

\* create_payment_intent commits the intent, then asks the provider for a
\* checkout page, then commits its address: a failure in between leaves a
\* pending intent without one.
CreateIntent(r, n) ==
    LET h == handler[r]
    IN  /\ h.op = "intent"
        /\ intent[n].status = None
        /\ Payable(h.seen, h.invoice, h.amount)
        /\ invoice[h.invoice].exists
        /\ intent' = [intent EXCEPT ![n] = [status |-> "pending", invoice |-> h.invoice,
                                            amount |-> h.amount, url |-> FALSE]]
        /\ handler' = [handler EXCEPT ![r].op = "checkout", ![r].intent = n]
        /\ UNCHANGED <<invoice, books, settled, charged>>

Checkout(r) ==
    LET h == handler[r]
    IN  /\ h.op = "checkout"
        /\ intent[h.intent].status \in Settling
        /\ intent' = [intent EXCEPT ![h.intent].url = TRUE]
        /\ Done(r)
        /\ UNCHANGED <<invoice, books, settled, charged>>

SettleableUnlessFailed(was) == was # "failed"              \* faulty: succeeded passes
Settleable(was) == was = "pending"

\* confirm_payment_intent: a no-op when the intent was seen succeeded.
Settle(r) ==
    LET h == handler[r]  n == h.intent
    IN  /\ h.op = "settle"
        /\ Settleable(h.was)
        /\ intent[n].status \in Settling
        /\ RecordPayment(h.invoice, h.seen, h.amount)
        /\ settled' = [settled EXCEPT ![n] = @ + 1]
        /\ intent' = [intent EXCEPT ![n].status = "succeeded"]
        /\ Done(r)
        /\ UNCHANGED charged

\* handle_webhook of a failed payment, outside any transaction.
FailIntent(r) ==
    LET h == handler[r]
    IN  /\ h.op = "fail"
        /\ h.was = "pending"
        /\ intent[h.intent].status \in Settling
        /\ intent' = [intent EXCEPT ![h.intent].status = "failed"]
        /\ Done(r)
        /\ UNCHANGED <<invoice, books, settled, charged>>

\* PATCH of the notes: serializer.update saves every column of the snapshot,
\* and inserts the row again when it is gone.
Edit(r) ==
    LET h == handler[r]
    IN  /\ h.op = "edit"
        /\ invoice' = [invoice EXCEPT ![h.invoice] = h.seen]
        /\ Done(r)
        /\ UNCHANGED <<books, intent, settled, charged>>

\* DELETE cascades to the payments and the intents; stock and ledger stay.
Delete(r) ==
    LET i == handler[r].invoice
    IN  /\ handler[r].op = "delete"
        /\ invoice' = [invoice EXCEPT ![i].exists = FALSE]
        /\ collected' = [collected EXCEPT ![i] = 0]
        /\ intent' = [n \in Intents |-> IF intent[n].invoice # i THEN intent[n]
                                    ELSE [intent[n] EXCEPT !.status = "deleted"]]
        /\ Done(r)
        /\ UNCHANGED <<confirmations, receivable, settled, charged>>

\* A request ends without effect: a guard refuses, stock falls short, the
\* provider is unreachable, the process dies.  A transaction rolls back.
Abort(r) ==
    /\ handler[r] # Idle
    /\ Done(r)
    /\ UNCHANGED <<invoice, books, intent, settled, charged>>

\* External: the payer completes the checkout page.
PayerPays(n) ==
    /\ intent[n].status = "pending" /\ intent[n].url
    /\ charged' = charged \cup {n}
    /\ UNCHANGED <<invoice, books, intent, settled, handler>>

Begin(r) ==
    \/ \E i \in Invoices, op \in Operations, amount \in Amounts \cup {0} : Load(r, op, i, amount)
    \/ \E n \in Intents, op \in Operations : LoadIntent(r, op, n)

Commit(r) ==
    \/ Confirm(r) \/ Pay(r) \/ Checkout(r) \/ Settle(r) \/ FailIntent(r)
    \/ Edit(r) \/ Delete(r)
    \/ \E n \in Intents : CreateIntent(r, n)

Next ==
    \/ \E r \in Requests : Begin(r) \/ Commit(r) \/ Abort(r)
    \/ \E n \in Intents : PayerPays(n)

Spec == Init /\ [][Next]_vars

\* The provider delivers a charged payment again until it is settled, and a
\* delivery that can be settled is not aborted for ever.
Delivered(n) ==
    \E r \in Requests : n \in charged /\ intent[n].status = "pending" /\ LoadIntent(r, "settle", n)
Fairness ==
    /\ \A r \in Requests : SF_vars(Settle(r)) /\ WF_vars(Commit(r) \/ Abort(r))
    /\ \A n \in Intents : SF_vars(Delivered(n))
FairSpec == Spec /\ Fairness

----------------------------------------------------------------------------
(* Properties of one request at a time.                                    *)

\* "Payment exceeds the outstanding balance": no more than the total is ever
\* collected, by hand and through the gateway together.
NeverOverpaid == \A i \in Invoices : collected[i] <= Total[i]

\* "Only draft invoices can be confirmed": the goods leave and the sale is posted
\* once; the invoice agrees with its payment rows; and what the customer still
\* owes in the books is what the invoice says, nothing while it is a draft.
BooksMatchInvoice ==
    \A i \in Invoices :
        /\ confirmations[i] <= 1
        /\ invoice[i].exists =>
              /\ invoice[i].paid = collected[i]
              /\ receivable[i] = IF invoice[i].status = "draft" THEN 0
                                 ELSE Total[i] - invoice[i].paid

\* confirm_payment_intent: "a provider that delivers the same webhook twice
\* won't double-charge", and a succeeded intent has its payment.
OnePaymentPerIntent ==
    \A n \in Intents : /\ settled[n] <= 1
                       /\ intent[n].status = "succeeded" => settled[n] = 1

(* Properties that survive any interleaving of requests and edits, as long *)
(* as invoices are not deleted.                                            *)

\* Lost updates of amount_paid only ever credit the customer with too little, and
\* an invoice shown as paid has had its whole total collected.
CreditedIsCollected ==
    \A i \in Invoices : invoice[i].exists =>
        /\ invoice[i].paid <= collected[i]
        /\ invoice[i].status = "paid" => collected[i] >= Total[i]

(* Liveness.                                                               *)

\* Whoever completed a checkout has the payment recorded in the end, unless the
\* intent failed or was deleted, or the invoice no longer owes the amount (which
\* the docstring of PaymentIntent leaves out: "a later webhook confirms it").
SettledOrBlocked ==
    \A n \in Intents :
        n \in charged ~> \/ settled[n] > 0
                         \/ intent[n].status \in {"failed", "deleted"}
                         \/ /\ intent[n].status = "pending"
                            /\ LET i == intent[n].invoice
                               IN  invoice[i].paid + intent[n].amount > Total[i]
=============================================================================
