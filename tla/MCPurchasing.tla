---------------------------- MODULE MCPurchasing ----------------------------
(* Finite instances of Purchasing.  What holds of requests served one at a *)
(* time and what holds whatever happens are checked in the same run: calm  *)
(* remembers whether anything irregular has happened.                      *)
EXTENDS Purchasing, TLC

CONSTANTS i1, i2, i3, o1, o2

\* The first order has two items; the first can arrive in two parts.
OwnerOf == [i \in Items |-> IF i = i3 THEN o2 ELSE o1]
TwoThenOne == [i \in Items |-> IF i = i1 THEN 2 ELSE 1]

VARIABLE calm  \* so far no overlap, no crash, and receipts list an item once and as the
               \* product it orders

Overlap == \E r, s \in Requests : r # s /\ handler[r] # Idle /\ handler[s] # Idle
Crash == \E r \in Requests : handler[r].op \in {"credit", "post"} /\ Abort(r)
Twice == \E r \in Requests, entries \in Entries :
            /\ \E e, f \in DOMAIN entries : e # f /\ entries[e].item = entries[f].item
            /\ Receive(r, entries)

Strays == \E r \in Requests, entries \in Entries :
             (\E e \in DOMAIN entries : ~ entries[e].asOrdered) /\ Receive(r, entries)
\* A deletion while a request is under way.
Underfoot ==
    /\ (\E o \in Orders : DeleteOrder(o)) \/ (\E d \in Demands : DeleteDemand(d))
    /\ \E r \in Requests : handler[r] # Idle

MCInit == Init /\ calm = TRUE
MCNext ==
    /\ Next
    /\ calm' = (calm /\ ~ Overlap' /\ ~ Crash /\ ~ Twice /\ ~ Strays /\ ~ Underfoot)
MCSpec == MCInit /\ [][MCNext]_<<vars, calm>>

\* Bounds: a behaviour works on the orders that purchase requests are made into,
\* or on the goods and payments of the first order; once it is no longer calm the
\* first order is not paid beyond its total.  Another product arrives once, in a
\* receipt of one entry for an order nothing is paid for, and a deletion comes last
\* but for the requests under way.
Untouched(d) ==
    /\ demand'[d] = "draft" /\ approvals'[d] = 0 /\ rejections'[d] = 0 /\ ordersMade'[d] = 0
    /\ \A r \in Requests : handler'[r] # Idle => handler'[r].doc # d
StraysOnce ==
    strayed' # Zero =>
        /\ \/ strayed' = strayed
           \/ /\ strayed = Zero
              /\ \E i \in Items : strayed' = [Zero EXCEPT ![i] = stocked'[i] - stocked[i]]
        /\ \A o \in Orders : payments'[o] = 0
LastRequests == deleted # {} => \A r \in Requests : handler[r] = Idle => handler'[r] = Idle
Bounds ==
    /\ StraysOnce /\ LastRequests
    /\ \/ /\ \A d \in Demands : Untouched(d)
          /\ \A o \in Orders \ {o1} : order'[o] = NoRow /\ o \notin deleted'
          /\ calm' \/ payments'[o1] <= Total
       \/ /\ \A r \in Requests : handler'[r] # Idle => handler'[r].doc \in Demands
          /\ stocked' = Zero /\ \A o \in Orders : payments'[o] = 0
          /\ deleted' \subseteq Demands

Interchangeable == Permutations(Requests)

\* In calm behaviours, of what was not deleted: "over-receiving is blocked" and the
\* status of an order tells what has arrived; "overpayment is blocked", and payment
\* rows, order and ledger agree; a purchase request is decided once.
CalmPaperworkAddsUp ==
    calm => NeverOverreceived /\ StatusTellsReceipts /\ SupplierNotOverpaid /\ DecidedOnce
=============================================================================
