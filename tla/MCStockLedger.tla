--------------------------- MODULE MCStockLedger ---------------------------
(* Finite instances of StockLedger.                                        *)
EXTENDS StockLedger, TLC

CONSTANTS Kit, Part

SerialTracked == [p \in Products |-> "serial"]
BatchTracked == [p \in Products |-> "batch"]
Untracked == [p \in Products |-> "none"]
PartsBatched == [p \in Products |-> IF p = Part THEN "batch" ELSE "none"]

NoBundles == [p \in Products |-> <<>>]

\* One kit takes one whole part (stored as 2 halves), so a line is exact.
WholeParts == [p \in Products |-> IF p = Kit THEN Part :> 2 ELSE <<>>]
\* One kit takes half a part, so half a kit takes a quarter of one: a tie.
HalfParts == [p \in Products |-> IF p = Kit THEN Part :> 1 ELSE <<>>]

ReorderAtOne == [p \in Products |-> 1]

\* A variant is deleted that has stock somewhere.
StockDropped ==
    \E p \in Products, v \in Variants :
        /\ \E w \in Warehouses : onHand[w][p][v] > 0
        /\ DeleteVariant(p, v)

\* Whether staff have changed a product's tracking flags, or deleted a variant
\* that had stock.
VARIABLE reshaped
MCInit == Init /\ reshaped = FALSE
MCNext == Next /\ reshaped' = (reshaped \/ tracking' # tracking \/ StockDropped)
MCSpec == MCInit /\ [][MCNext]_<<vars, reshaped>>

\* Bounds: the catalogue is kept; a behaviour uses one warehouse and no
\* expiry dates, or no kits and one unit cost.
Row(w, p) == <<onHand[w][p], avgCost[w][p], alerts[w][p], batchQty[w][p]>>
Untouched == <<[v \in Variants |-> 0], [v \in Variants |-> 0], [v \in Variants |-> 0],
               [b \in Batches |-> 0]>>
KitsOrDates ==
    /\ ~ reshaped'
    /\ \/ /\ \E w \in Warehouses : \A p \in Products : Row(w, p)' = Untouched
          /\ \A b \in Batches : expiry'[Part][b] = NoDate
       \/ \A v \in Variants :
             /\ \A w \in Warehouses : Row(w, Kit)' = Untouched
             /\ paid'[Kit][v] = {} /\ paid'[Part][v] \subseteq {2}

\* Bounds: once serial tracking is switched off or on again, or a variant with
\* stock is deleted, no variant has stock, a warehouse has one plain unit at
\* most, and there is one unit cost.
SerialOrNone ==
    reshaped' => \A p \in Products :
        /\ tracking'[p] \in {"serial", "none"}
        /\ \A w \in Warehouses, v \in Variants :
              onHand'[w][p][v] <= IF v = NoVariant THEN Whole ELSE 0
        /\ \A v \in Variants : paid'[p][v] \subseteq {2}

Interchangeable == Permutations(Warehouses) \cup Permutations(Serials)
                       \cup Permutations(Batches)

\* While the tracking flags are what they were and no variant was deleted with
\* stock: the unit rows mirror the on-hand quantity of every warehouse.
KeptSerialsMirrorOnHand == ~ reshaped => SerialsMirrorOnHand

\* On the same conditions the batch balances mirror it.
KeptBatchesMirrorOnHand == ~ reshaped => BatchesMirrorOnHand
=============================================================================
