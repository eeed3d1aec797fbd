---------------------------- MODULE MCStockLocks ----------------------------
(* Finite instances of StockLocks: the operations its requests choose from. *)
EXTENDS StockLocks

CONSTANTS white, brown, flour, red, blue, lamp, cake, shop, store, r1, r2, r3

\* The variants of flour share its batch, those of the lamp its serial units.
MCProductOf ==
    (white :> flour) @@ (brown :> flour) @@ (red :> lamp) @@ (blue :> lamp) @@ (cake :> cake)

MCStocked == [g \in Goods |-> [w \in Warehouses |-> IF w = shop /\ g # cake THEN 1 ELSE 0]]

Op(steps, mixes) == [steps |-> steps, alone |-> FALSE, mixes |-> mixes]

MCOperations ==
    {Op(StockIn(white, shop, 1, FALSE), TRUE),
     Op(StockIn(cake, shop, 1, FALSE), FALSE),
     Op(StockOut(white, shop, 1), FALSE),
     Op(StockOut(red, shop, 1), FALSE),
     Op(Adjust(white, shop, -1, FALSE), FALSE),
     Op(Adjust(brown, shop, 1, TRUE), TRUE),
     Op(Transfer(white, shop, store, 1), TRUE),
     Op(Transfer(white, store, shop, 1), TRUE),
     Op(Transfer(blue, shop, store, 1), TRUE),
     Op(Assemble(cake, <<white>>, shop), TRUE),
     Op(ConfirmInvoice(<<white, cake>>, shop), TRUE),
     Op(RingUp(<<cake, brown>>, shop), TRUE),
     Op(RingUp(<<white>>, shop), FALSE),
     Op(ReceiveGoods(<<cake, brown>>, store, FALSE), TRUE),
     [steps |-> Create("pos_transaction"), alone |-> TRUE, mixes |-> FALSE]}

\* The requests begin in this order: their names mean nothing.
Queue == <<r1, r2, r3>>

\* Bounds: the third request is one of the short ones.
Short == {op \in MCOperations : Len(op.steps) <= 3}

BeginInOrder ==
    \A i \in 1..Len(Queue) : request[Queue[i]] = Unsent /\ request'[Queue[i]] # Unsent =>
        /\ \A j \in 1..(i - 1) : request[Queue[j]] # Unsent
        /\ i = 3 => request'[Queue[i]].op \in Short
=============================================================================
