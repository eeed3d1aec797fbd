-------------------------- MODULE MCSalesPipeline --------------------------
(* Finite instances of SalesPipeline.  What holds of requests served one   *)
(* at a time, and what holds however they overlap, are checked in the same *)
(* run: past remembers what has happened.                                  *)
EXTENDS SalesPipeline, TLC

CONSTANTS l1, l2

\* One line that can be billed in two parts and one that cannot.
TwoAndOne == [l \in Lines |-> IF l = l1 THEN 2 ELSE 1]

VARIABLE past  \* which of "overlap", "delete", "link" and "unlink" have happened

Overlap == \E r, s \in Requests : r # s /\ handler[r] # Idle /\ handler[s] # Idle
Deletion ==
    \/ \E o \in Orders : DeleteOrder(o)
    \/ \E q \in Quotations : DeleteQuotation(q)
    \/ \E b \in Invoices : DeleteInvoice(b)

\* An invoice made or edited by hand is given an order it had not, or taken off one.
Ends(r) == handler[r] # Idle /\ handler'[r] = Idle
ByHand == \A r \in Requests : Ends(r) => handler[r].op = "patch"
Linking == ByHand /\ \E b \in Invoices : bill'[b].order \notin {None, bill[b].order}
Unlinking ==
    /\ \E r \in Requests : Ends(r) /\ handler[r].op = "patch"
    /\ \E b \in Invoices : bill[b].order \notin {None, bill'[b].order}

Happened == {e \in {"overlap", "delete", "link", "unlink"} :
    CASE e = "overlap" -> Overlap'
      [] e = "delete"  -> Deletion
      [] e = "link"    -> Linking
      [] e = "unlink"  -> Unlinking}

MCInit == Init /\ past = {}
MCNext == Next /\ past' = past \cup Happened
MCSpec == MCInit /\ [][MCNext]_<<vars, past>>

\* Bounds: a behaviour has overlaps, deletions, or invoices moved between orders by
\* hand; one with an overlap has one order, and no invoice without an order.
OneTrouble ==
    /\ Cardinality({past' \cap {"overlap"}, past' \cap {"delete"},
                    past' \cap {"link", "unlink"}} \ {{}}) <= 1
    /\ "overlap" \in past' =>
          /\ Cardinality({o \in Orders : order'[o].status # "unused"}) <= 1
          /\ \A b \in Invoices : bill'[b].status = "kept" => bill'[b].order # None

Interchangeable == Permutations(Requests) \cup Permutations(Invoices) \cup Permutations(Orders)

\* As long as requests do not overlap and no invoice is put on an order by hand:
\* "over-invoicing is blocked per line", and nothing that is billed is outstanding.
AloneBilledIsCounted ==
    past \cap {"overlap", "link"} = {} => NeverOverbilled /\ BilledIsCounted

\* As long as requests do not overlap: a customer answers "exactly once"; one order
\* per quotation, none if it was rejected.
AloneDecidedOnce == "overlap" \notin past => DecidedOnce

\* As long as nothing is deleted and no invoice is taken off its order: lost updates
\* only ever understate what has been invoiced, and a fulfilled order is billed in
\* full.
KeptCountedIsBilled == past \cap {"delete", "unlink"} = {} => CountedIsBilled
=============================================================================
