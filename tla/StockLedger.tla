---------------------------- MODULE StockLedger ----------------------------
(***************************************************************************)
(* The stock engine of one company: apps/inventory/services.py over the    *)
(* tables of apps/inventory/models.py.  Each service function is one       *)
(* transaction that holds the row locks of everything it reads and writes, *)
(* so each is one action here.                                             *)
(* A function that raises rolls back, which is a stuttering step.          *)
(*                                                                         *)
(* Quantities are whole multiples of the smallest stored quantity (0.001   *)
(* in the code), and Whole of them make one unit.  Costs are whole         *)
(* multiples of the smallest stored cost.                                  *)
(***************************************************************************)
EXTENDS Integers, FiniteSets, Functions

CONSTANTS
    Warehouses, Products, Variants,
    Serials,       \* the serial numbers requests mention
    Batches,       \* the batch numbers requests mention
    Dates,         \* the expiry dates requests mention
    Quantities,    \* the quantities requests ask for
    Costs,         \* the unit costs of receipts
    Whole,         \* smallest quantities in one unit (1000 in the code)
    NoVariant,     \* the StockItem row whose variant is NULL
    NoDate,
    Bom,           \* Bom[p]: the component quantities of bundle p
    Reorder,       \* Reorder[p]: the product's reorder level
    InitTracking,  \* the tracking flags products are created with
    MaxOnHand      \* bound: largest quantity a stock row is explored with

Modes == {"none", "serial", "batch", "expiry"}
Unrecorded == "unrecorded"
Out == "out"

\* Components is the set of components of p's bill of materials.
Components(p) == DOMAIN Bom[p]

ASSUME StockConstants ==
    /\ Quantities \subseteq Nat \ {0}
    /\ Costs \subseteq Nat
    /\ Dates \subseteq Nat
    /\ Whole \in Nat \ {0}
    /\ MaxOnHand \in Nat
    /\ NoVariant \in Variants
    /\ NoDate \notin Nat
    /\ Unrecorded \notin Warehouses /\ Out \notin Warehouses
    /\ InitTracking \in [Products -> Modes]
    /\ Reorder \in [Products -> Nat]
    /\ IsFiniteSet(Variants) /\ IsFiniteSet(Serials) /\ IsFiniteSet(Batches)
    /\ \A p \in Products :
          /\ Components(p) \subseteq Products \ {p}
          /\ IsFiniteSet(Components(p))
          /\ Bom[p] \in [Components(p) -> Nat]

VARIABLES
    tracking,  \* products.Product.track_serial / track_batch / track_expiry
    onHand,    \* StockItem.quantity_on_hand of (warehouse, product, variant)
    avgCost,   \* StockItem.average_cost
    ledger,    \* signed sum of the StockMovement rows of the same key
    paid,      \* every unit cost a StockMovement of type stock_in carried
    unit,      \* SerialUnit: its warehouse, Out, or Unrecorded when no row exists
    received,  \* SerialUnit.created_at, as the rank of its receipt
    batchQty,  \* BatchStock.quantity_on_hand of (warehouse, product, batch)
    expiry,    \* Batch.expiry_date
    created,   \* Batch.created_at as a rank, 0 when the batch has no row
    alerts     \* unread low-stock notifications of each stock row

vars == <<tracking, onHand, avgCost, ledger, paid, unit, received, batchQty,
          expiry, created, alerts>>
serialVars == <<unit, received>>
batchVars == <<batchQty, expiry, created>>

StockRows(T) == [Warehouses -> [Products -> [Variants -> T]]]

TypeOK ==
    /\ tracking \in [Products -> Modes]
    /\ onHand \in StockRows(Nat)
    /\ avgCost \in StockRows(Nat)
    /\ ledger \in StockRows(Int)
    /\ paid \in [Products -> [Variants -> SUBSET Nat]]
    /\ unit \in [Products -> [Serials -> Warehouses \cup {Unrecorded, Out}]]
    /\ received \in [Products -> [Serials -> Nat]]
    /\ batchQty \in [Warehouses -> [Products -> [Batches -> Nat]]]
    /\ expiry \in [Products -> [Batches -> Dates \cup {NoDate}]]
    /\ created \in [Products -> [Batches -> Nat]]
    /\ alerts \in StockRows(Nat)

NoStock(x) == [w \in Warehouses |-> [p \in Products |-> [v \in Variants |-> x]]]

Init ==
    /\ tracking = InitTracking
    /\ onHand = NoStock(0)
    /\ avgCost = NoStock(0)
    /\ ledger = NoStock(0)
    /\ paid = [p \in Products |-> [v \in Variants |-> {}]]
    /\ unit = [p \in Products |-> [s \in Serials |-> Unrecorded]]
    /\ received = [p \in Products |-> [s \in Serials |-> 0]]
    /\ batchQty = [w \in Warehouses |-> [p \in Products |-> [b \in Batches |-> 0]]]
    /\ expiry = [p \in Products |-> [b \in Batches |-> NoDate]]
    /\ created = [p \in Products |-> [b \in Batches |-> 0]]
    /\ alerts = NoStock(0)

----------------------------------------------------------------------------
(* Numbers.  PostgreSQL rounds a numeric to its column's scale half away   *)
(* from zero.                                                              *)

RoundedRatio(n, d) == (2 * n + d) \div (2 * d)

\* The weighted average after n more arrive at a total value of value.
BlendOverOld(w, p, v, n, value) ==                      \* faulty: old divisor
    RoundedRatio(onHand[w][p][v] * avgCost[w][p][v] + value,
                 IF onHand[w][p][v] > 0 THEN onHand[w][p][v] ELSE n)
Blend(w, p, v, n, value) ==
    RoundedRatio(onHand[w][p][v] * avgCost[w][p][v] + value, onHand[w][p][v] + n)

OnHandOf(w, p) == SumFunctionOnSet(onHand[w][p], Variants)

\* The row lock is held, so what is available stays available: the checks of
\* stock_out, transfer_stock and adjust_stock.
Available(w, p, v, q) == q <= onHand[w][p][v]

----------------------------------------------------------------------------
(* Serial units.                                                           *)

IsSerialTracked(p) == tracking[p] = "serial"
IsBatchTracked(p) == tracking[p] \in {"batch", "expiry"}

UnitsAt(w, p) == {s \in Serials : unit[p][s] = w}
Place(p, S, place) == [s \in Serials |-> IF s \in S THEN place ELSE unit[p][s]]

NotInStock(p, S) == \A s \in S : unit[p][s] \in {Unrecorded, Out}  \* faulty: sold ones pass
NewNumbers(p, S) == \A s \in S : unit[p][s] = Unrecorded

\* One serial number per whole unit, none of them on record for the product.
ReceiveSerials(w, p, q, S) ==
    /\ Cardinality(S) * Whole = q
    /\ NewNumbers(p, S)
    /\ unit' = [unit EXCEPT ![p] = Place(p, S, w)]
    /\ received' = [received EXCEPT ![p] =
          LET recorded == {s \in Serials : unit[p][s] # Unrecorded}
          IN  [s \in Serials |-> IF s \in S THEN Cardinality(recorded) + 1
                                            ELSE received[p][s]]]

Oldest(w, p, S) ==
    \A s \in S, t \in UnitsAt(w, p) \ S : received[p][s] <= received[p][t]

PicksUncounted(w, p, need, explicit) ==                 \* faulty: never counted
    {S \in SUBSET UnitsAt(w, p) :
        IF explicit # {} THEN S = explicit
        ELSE Cardinality(S) * Whole * Whole = need /\ Oldest(w, p, S)}

\* The units that may be taken for need (in 1/Whole of the smallest quantity):
\* the explicit ones when some are named, otherwise the oldest in stock.
SerialPicks(w, p, need, explicit) ==
    {S \in SUBSET UnitsAt(w, p) :
        /\ Cardinality(S) * Whole * Whole = need
        /\ IF explicit # {} THEN S = explicit ELSE Oldest(w, p, S)}

----------------------------------------------------------------------------
(* Batches.                                                                *)

\* Batch b is drawn before batch c: earliest expiry first, undated batches
\* last, then the older batch.
DrawnBefore(p, b, c) ==
    \/ expiry[p][b] # NoDate /\ expiry[p][c] = NoDate
    \/ expiry[p][b] # NoDate /\ expiry[p][c] # NoDate /\ expiry[p][b] < expiry[p][c]
    \/ expiry[p][b] = expiry[p][c] /\ created[p][b] < created[p][c]

DrawsShort(w, p, need) ==                               \* faulty: may fall short
    {take \in [Batches -> 0 .. need] :
        /\ \A b \in Batches : take[b] <= Whole * batchQty[w][p][b]
        /\ \A b \in Batches : take[b] < Whole * batchQty[w][p][b]
                                 => SumFunctionOnSet(take, Batches) = need}

\* The draws of need (in 1/Whole of the smallest quantity) that empty each
\* batch before the next is touched; none when the batches fall short.
FefoDraws(w, p, need) ==
    {take \in [Batches -> 0 .. need] :
        /\ \A b \in Batches : take[b] <= Whole * batchQty[w][p][b]
        /\ SumFunctionOnSet(take, Batches) = need
        /\ \A b, c \in Batches :
              DrawnBefore(p, b, c) /\ take[c] > 0 => take[b] = Whole * batchQty[w][p][b]}

AfterReturn(w, p, take) ==                              \* faulty: wrong sign
    [b \in Batches |-> RoundedRatio(Whole * batchQty[w][p][b] + take[b], Whole)]

AfterDraw(w, p, take) ==
    [b \in Batches |-> RoundedRatio(Whole * batchQty[w][p][b] - take[b], Whole)]

\* Get or create the batch, keep the last expiry date named, add the quantity.
ReceiveBatch(w, p, q, b, d) ==
    /\ tracking[p] = "expiry" => d # NoDate
    /\ created' = [created EXCEPT ![p][b] =
          IF created[p][b] = 0
          THEN Cardinality({c \in Batches : created[p][c] > 0}) + 1
          ELSE @]
    /\ expiry' = [expiry EXCEPT ![p][b] = IF d = NoDate THEN @ ELSE d]
    /\ batchQty' = [batchQty EXCEPT ![w][p][b] = @ + q]

\* What a receipt of q does to the serial or batch rows of product p.
ReceiveTracked(w, p, q, S, b, d) ==
    \/ IsSerialTracked(p) /\ ReceiveSerials(w, p, q, S) /\ UNCHANGED batchVars
    \/ IsBatchTracked(p) /\ ReceiveBatch(w, p, q, b, d) /\ UNCHANGED serialVars
    \/ ~IsSerialTracked(p) /\ ~IsBatchTracked(p) /\ UNCHANGED <<serialVars, batchVars>>

\* What taking q out of a warehouse for good does to them.
ReleaseTracked(w, p, q, explicit) ==
    \/ /\ IsSerialTracked(p)
       /\ \E S \in SerialPicks(w, p, Whole * q, explicit) :
             unit' = [unit EXCEPT ![p] = Place(p, S, Out)]
       /\ UNCHANGED <<received, batchVars>>
    \/ /\ IsBatchTracked(p)
       /\ \E take \in FefoDraws(w, p, Whole * q) :
             batchQty' = [batchQty EXCEPT ![w][p] = AfterDraw(w, p, take)]
       /\ UNCHANGED <<serialVars, expiry, created>>
    \/ ~IsSerialTracked(p) /\ ~IsBatchTracked(p) /\ UNCHANGED <<serialVars, batchVars>>

\* notify_low_stock, with left in 1/Whole of the smallest quantity: no second
\* alert while one is unread.
AlertIfLow(w, p, v, left) ==
    IF left <= Whole * Reorder[p] /\ alerts[w][p][v] = 0 THEN 1 ELSE alerts[w][p][v]

----------------------------------------------------------------------------
(* The operations.                                                         *)

StockIn(w, p, v, q, c, S, b, d) ==
    /\ onHand[w][p][v] + q <= MaxOnHand
    /\ ReceiveTracked(w, p, q, S, b, d)
    /\ avgCost' = [avgCost EXCEPT ![w][p][v] = Blend(w, p, v, q, q * c)]
    /\ onHand' = [onHand EXCEPT ![w][p][v] = @ + q]
    /\ ledger' = [ledger EXCEPT ![w][p][v] = @ + q]
    /\ paid' = [paid EXCEPT ![p][v] = @ \cup {c}]
    /\ UNCHANGED <<tracking, alerts>>

StockOut(w, p, v, q, explicit) ==
    /\ Available(w, p, v, q)
    /\ ReleaseTracked(w, p, q, explicit)
    /\ onHand' = [onHand EXCEPT ![w][p][v] = @ - q]
    /\ ledger' = [ledger EXCEPT ![w][p][v] = @ - q]
    /\ alerts' = [alerts EXCEPT ![w][p][v] = AlertIfLow(w, p, v, Whole * (onHand[w][p][v] - q))]
    /\ UNCHANGED <<tracking, avgCost, paid>>

\* The serial units or batch balances that travel with a transfer.
CarryTracked(from, to, p, q, explicit) ==
    \/ /\ IsSerialTracked(p)
       /\ \E S \in SerialPicks(from, p, Whole * q, explicit) :
             unit' = [unit EXCEPT ![p] = Place(p, S, to)]
       /\ UNCHANGED <<received, batchVars>>
    \/ /\ IsBatchTracked(p)
       /\ \E take \in FefoDraws(from, p, Whole * q) :
             batchQty' = [batchQty EXCEPT
                 ![from][p] = AfterDraw(from, p, take),
                 ![to][p] = [b \in Batches |->
                     RoundedRatio(Whole * batchQty[to][p][b] + take[b], Whole)]]
       /\ UNCHANGED <<serialVars, expiry, created>>
    \/ ~IsSerialTracked(p) /\ ~IsBatchTracked(p) /\ UNCHANGED <<serialVars, batchVars>>

Transfer(from, to, p, v, q, explicit) ==
    /\ from # to
    /\ Available(from, p, v, q)
    /\ onHand[to][p][v] + q <= MaxOnHand
    /\ CarryTracked(from, to, p, q, explicit)
    /\ avgCost' = [avgCost EXCEPT ![to][p][v] = Blend(to, p, v, q, q * avgCost[from][p][v])]
    /\ onHand' = [onHand EXCEPT ![from][p][v] = @ - q, ![to][p][v] = @ + q]
    /\ ledger' = [ledger EXCEPT ![from][p][v] = @ - q, ![to][p][v] = @ + q]
    /\ UNCHANGED <<tracking, paid, alerts>>

\* adjust_stock with a positive delta: the average cost is left alone.
AdjustUp(w, p, v, q, S, b, d) ==
    /\ onHand[w][p][v] + q <= MaxOnHand
    /\ ReceiveTracked(w, p, q, S, b, d)
    /\ onHand' = [onHand EXCEPT ![w][p][v] = @ + q]
    /\ ledger' = [ledger EXCEPT ![w][p][v] = @ + q]
    /\ UNCHANGED <<tracking, avgCost, paid, alerts>>

\* adjust_stock with a negative delta: no alert.
AdjustDown(w, p, v, q, explicit) ==
    /\ Available(w, p, v, q)
    /\ ReleaseTracked(w, p, q, explicit)
    /\ onHand' = [onHand EXCEPT ![w][p][v] = @ - q]
    /\ ledger' = [ledger EXCEPT ![w][p][v] = @ - q]
    /\ UNCHANGED <<tracking, avgCost, paid, alerts>>

----------------------------------------------------------------------------
(* Assembly of q of bundle p: one stock_out per component line, then one   *)
(* stock_in of the bundle at the summed cost.  A line's quantity times q   *)
(* has twice the stored decimals: the stock row, the batch row and the     *)
(* movement row each round it on their own.                                *)

Need(p, c, q) == Bom[p][c] * q

\* What the line's movement row records.
MovedPerKit(p, c, q) == Bom[p][c]                       \* faulty: one kit's
Moved(p, c, q) == RoundedRatio(Need(p, c, q), Whole)

ComponentCost(w, p, q) ==
    SumFunctionOnSet([c \in Components(p) |-> Need(p, c, q) * avgCost[w][c][NoVariant]],
                     Components(p))

\* Units and batch draws of every component line, chosen as stock_out does.
ReleaseComponents(w, p, q) ==
    LET serialLines == {c \in Components(p) : IsSerialTracked(c)}
        batchLines == {c \in Components(p) : IsBatchTracked(c)}
    IN  \E pick \in [serialLines -> SUBSET Serials],
           take \in [batchLines -> UNION {FefoDraws(w, c, Need(p, c, q)) : c \in batchLines}] :
          /\ \A c \in serialLines : pick[c] \in SerialPicks(w, c, Need(p, c, q), {})
          /\ \A c \in batchLines : take[c] \in FefoDraws(w, c, Need(p, c, q))
          /\ unit' = [c \in Products |->
                IF c \in serialLines THEN Place(c, pick[c], Out) ELSE unit[c]]
          /\ batchQty' = [batchQty EXCEPT ![w] = [c \in Products |->
                IF c \in batchLines THEN AfterDraw(w, c, take[c]) ELSE @[c]]]
          /\ UNCHANGED <<received, expiry, created>>

\* What a line leaves on hand, before the row is stored and rounded.
LeftAfterLine(w, p, c, q) == Whole * onHand[w][c][NoVariant] - Need(p, c, q)

\* A per-row function of warehouse w's plain stock rows, with the bundle's row
\* and the component rows replaced.
Assembled(rows, w, p, bundleRow, componentRow) ==
    [rows EXCEPT ![w] = [c \in Products |-> [v \in Variants |->
        IF v # NoVariant THEN rows[w][c][v]
        ELSE IF c = p THEN bundleRow
        ELSE IF c \in Components(p) THEN componentRow[c]
        ELSE rows[w][c][v]]]]

Assemble(w, p, q) ==
    /\ Components(p) # {}
    /\ \A c \in Components(p) :
          Need(p, c, q) > 0 /\ Need(p, c, q) <= Whole * onHand[w][c][NoVariant]
    \* the closing stock_in names neither serials nor a batch
    /\ ~IsSerialTracked(p) /\ ~IsBatchTracked(p)
    /\ onHand[w][p][NoVariant] + q <= MaxOnHand
    /\ ReleaseComponents(w, p, q)
    /\ onHand' = Assembled(onHand, w, p, onHand[w][p][NoVariant] + q,
          [c \in Components(p) |-> RoundedRatio(LeftAfterLine(w, p, c, q), Whole)])
    /\ ledger' = Assembled(ledger, w, p, ledger[w][p][NoVariant] + q,
          [c \in Components(p) |->
            ledger[w][c][NoVariant] - Moved(p, c, q)])
    /\ avgCost' = [avgCost EXCEPT ![w][p][NoVariant] =
          RoundedRatio(Whole * onHand[w][p][NoVariant] * @ + ComponentCost(w, p, q),
                       Whole * (onHand[w][p][NoVariant] + q))]
    /\ alerts' = Assembled(alerts, w, p, alerts[w][p][NoVariant],
          [c \in Components(p) |-> AlertIfLow(w, c, NoVariant, LeftAfterLine(w, p, c, q))])
    /\ paid' = [paid EXCEPT ![p][NoVariant] =
          @ \cup {RoundedRatio(ComponentCost(w, p, q), Whole * q)}]
    /\ UNCHANGED tracking

\* notifications.mark_read of a low-stock alert
MarkRead(w, p, v) ==
    /\ alerts[w][p][v] > 0
    /\ alerts' = [alerts EXCEPT ![w][p][v] = @ - 1]
    /\ UNCHANGED <<tracking, onHand, avgCost, ledger, paid, serialVars, batchVars>>

\* PATCH of a product's tracking flags
Retrack(p, mode) ==
    /\ tracking' = [tracking EXCEPT ![p] = mode]
    /\ UNCHANGED <<onHand, avgCost, ledger, paid, serialVars, batchVars, alerts>>

\* Rows with those of one variant of a product gone from every warehouse.
WithoutVariant(rows, p, v) == [w \in Warehouses |-> [rows[w] EXCEPT ![p][v] = 0]]

\* DELETE of a variant no document line names (they PROTECT it): its stock and
\* movement rows go with it; unit and batch rows name no variant and stay.  The
\* next variant added may take the place of v.
DeleteVariant(p, v) ==
    /\ v # NoVariant
    /\ onHand' = WithoutVariant(onHand, p, v)
    /\ avgCost' = WithoutVariant(avgCost, p, v)
    /\ ledger' = WithoutVariant(ledger, p, v)
    /\ alerts' = WithoutVariant(alerts, p, v)
    /\ paid' = [paid EXCEPT ![p][v] = {}]
    /\ UNCHANGED <<tracking, serialVars, batchVars>>

StockOperation ==
    \E w \in Warehouses, p \in Products, v \in Variants, q \in Quantities :
        \/ \E S \in SUBSET Serials, b \in Batches, d \in Dates \cup {NoDate} :
              \/ \E c \in Costs : StockIn(w, p, v, q, c, S, b, d)
              \/ AdjustUp(w, p, v, q, S, b, d)
        \/ \E S \in SUBSET Serials :
              \/ StockOut(w, p, v, q, S)
              \/ AdjustDown(w, p, v, q, S)
              \/ \E to \in Warehouses : Transfer(w, to, p, v, q, S)
        \/ v = NoVariant /\ Assemble(w, p, q)

Next ==
    \/ StockOperation
    \/ \E w \in Warehouses, p \in Products, v \in Variants : MarkRead(w, p, v)
    \/ \E p \in Products, mode \in Modes : Retrack(p, mode)
    \/ \E p \in Products, v \in Variants : DeleteVariant(p, v)

Spec == Init /\ [][Next]_vars

----------------------------------------------------------------------------
(* Properties.                                                             *)

\* "The source of truth for history is StockMovement; this table is a
\* maintained aggregate" (StockItem's docstring): the on-hand quantity of every
\* stock row is what its movement rows add up to.
LedgerExplainsOnHand == onHand = ledger

\* SerialUnit's docstring: the units in stock in a warehouse mirror the
\* warehouse's on-hand quantity of a serial-tracked product (all variants, for
\* units carry no variant).
SerialsMirrorOnHand ==
    \A w \in Warehouses, p \in Products :
        IsSerialTracked(p) => Cardinality(UnitsAt(w, p)) * Whole = OnHandOf(w, p)

\* BatchStock's docstring: the batch balances of a product in a warehouse add
\* up to its on-hand quantity there, for batch-tracked products.
BatchesMirrorOnHand ==
    \A w \in Warehouses, p \in Products :
        IsBatchTracked(p) =>
            SumFunctionOnSet(batchQty[w][p], Batches) = OnHandOf(w, p)

\* Averaging, transferring and rounding never value a unit above the dearest
\* unit ever received of that product and variant.
AverageWithinPaid ==
    \A w \in Warehouses, p \in Products, v \in Variants :
        \E c \in paid[p][v] \cup {0} : avgCost[w][p][v] <= c

\* A serial number that has left can never be in stock again, by whichever
\* operation: _receive_serials refuses a number on record, and nothing else
\* brings an OUT unit back.
SoldUnitsStayOut ==
    [][\A p \in Products, s \in Serials : unit[p][s] = Out => unit'[p][s] = Out]_vars

\* A unit or batch balance never appears in a warehouse whose on-hand quantity
\* of that product did not grow in the same step.
NothingAppearsUncounted ==
    [][\A w \in Warehouses, p \in Products :
          \/ \E s \in Serials : unit'[p][s] = w /\ unit[p][s] # w
          \/ \E b \in Batches : batchQty'[w][p][b] > batchQty[w][p][b]
          => \E v \in Variants : onHand'[w][p][v] > onHand[w][p][v]]_vars
=============================================================================
