----------------------------- MODULE MCPosTill -----------------------------
(* Finite instances of PosTill.  What holds of requests served one at a    *)
(* time and what holds whatever happens are checked in the same run: past  *)
(* remembers what has happened.                                            *)
EXTENDS PosTill, TLC

VARIABLE past  \* the worst so far of "plain", "edited" and "overlapped"

Edition == \E r \in Requests :
    /\ handler[r].op \in {"editTill", "editSale"}
    /\ \/ \E float \in Floats : EditTill(r, float)
       \/ \E method \in Methods, s \in Tills : EditSale(r, method, s)
Deletion == (\E s \in Tills : DeleteTill(s)) \/ (\E t \in Sales : DeleteSale(t))
Overlap ==
    \/ \E r, s \in Requests : r # s /\ handler'[r] # Idle /\ handler'[s] # Idle
    \/ Deletion /\ \E r \in Requests : handler[r] # Idle

MCInit == Init /\ past = "plain"
MCNext ==
    /\ Next
    /\ past' = IF past = "overlapped" \/ Overlap THEN "overlapped"
               ELSE IF Edition \/ Deletion THEN "edited" ELSE past
MCSpec == MCInit /\ [][MCNext]_<<vars, past>>
MCFairSpec == MCSpec /\ Fairness

\* Bounds: unless the past is plain, at most one sale ever, refunded twice at most,
\* and no opening float.
RungUp(t) == sale'[t] # NoSale \/ t \in stripped'
OneSale ==
    past' = "plain" \/
        /\ Cardinality({t \in Sales : RungUp(t)}) <= 1
        /\ \A t \in Sales : posted'[t]["cash"] + posted'[t]["bank"] >= - Price
        /\ \A s \in Tills : till[s].opening = 0 /\ till'[s].opening = 0

Interchangeable == Permutations(Requests) \cup Permutations(Sales) \cup Permutations(Tills)

\* Without overlap, edit and deletion: a closed till expects what its drawer holds,
\* sale and refund entries are "mirrored pairs", and missing goods are what
\* completed sales took.
PlainTillAddsUp == past = "plain" => ExpectedIsDrawer /\ PostingsMirror /\ GoodsMatchSales

\* Without overlap: "a cashier can only have one open session at a time".
AloneOneOpenSession == past # "overlapped" => OneOpenSession

\* Without overlap: a closed session keeps its outcome and "rejects new sales".
AloneClosedForGood == [][past' # "overlapped" => LeavesClosed]_vars
=============================================================================
