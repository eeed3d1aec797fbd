------------------------- MODULE MCInvoicePayments -------------------------
(* Finite instances of InvoicePayments.  What holds of requests served one *)
(* at a time, and what holds however they overlap, are checked in the same *)
(* run: past remembers whether two requests have been in flight together.  *)
EXTENDS InvoicePayments, FiniteSets, TLC

\* Two units of money: paid at once, or in two halves.
TotalOfTwo == [i \in Invoices |-> 2]

VARIABLE past  \* which of "overlap" and "delete" have happened

Overlap == \E r, s \in Requests : r # s /\ handler[r] # Idle /\ handler[s] # Idle
Happened ==
    {e \in {"overlap", "delete"} :
        IF e = "overlap" THEN Overlap' ELSE \E i \in Invoices : ~ invoice'[i].exists}

MCInit == Init /\ past = {}
MCNext == Next /\ past' = past \cup Happened
MCSpec == MCInit /\ [][MCNext]_<<vars, past>>
MCFairSpec == MCSpec /\ Fairness

\* Bound: no behaviour has both an overlap and a deletion.
OneTrouble == Cardinality(past') <= 1

Interchangeable == Permutations(Requests) \cup Permutations(Intents)

\* As long as requests do not overlap: payments by hand and through the gateway
\* never exceed the invoice's total, an invoice is confirmed once, and its payment
\* rows and the books agree with it.
AloneBooksMatchInvoice == "overlap" \notin past => NeverOverpaid /\ BooksMatchInvoice

\* As long as requests do not overlap: a webhook delivered twice is settled once.
AloneOnePaymentPerIntent == "overlap" \notin past => OnePaymentPerIntent
=============================================================================
