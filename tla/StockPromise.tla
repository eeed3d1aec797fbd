----------------------------- MODULE StockPromise -----------------------------
(***************************************************************************)
(* What the stock of a company promises to those who call it: every        *)
(* request moves the quantities of all its lines at once or none of them,  *)
(* nothing is moved that is not there, and the documents of a kind are     *)
(* numbered one after the other.                                           *)
(***************************************************************************)
EXTENDS Integers, Functions

CONSTANTS
    Places,     \* the pairs of a product and a warehouse
    Sequences,  \* the kinds of numbered documents
    Requests,   \* the requests
    Deeds       \* what a request may do: [moves, documents]; a move is made at a
                \* moment, a natural number: [place, by]

VARIABLES
    onHand,   \* the quantity in every place
    numbered, \* how many documents of every kind there are
    served    \* the requests that were carried out

stock == <<onHand, numbered, served>>

Init ==
    /\ onHand \in [Places -> Nat]
    /\ numbered = [k \in Sequences |-> 0]
    /\ served = {}

\* The moments at which a deed moves something in a place, and what it has moved in
\* the first of them.
At(deed, place) == {n \in DOMAIN deed.moves : deed.moves[n].place = place}
Moved(deed, moments) == SumFunctionOnSet([n \in moments |-> deed.moves[n].by], moments)

Serve(r, deed) ==
    /\ r \notin served
    /\ served' = served \cup {r}
    /\ \A place \in Places : \A n \in At(deed, place) :
          onHand[place] + Moved(deed, {m \in At(deed, place) : m <= n}) >= 0
    /\ onHand' = [place \in Places |-> onHand[place] + Moved(deed, At(deed, place))]
    /\ numbered' = [k \in Sequences |-> IF k \in deed.documents THEN numbered[k] + 1 ELSE numbered[k]]

Next == \E r \in Requests, deed \in Deeds : Serve(r, deed)

Spec == Init /\ [][Next]_stock
=============================================================================
