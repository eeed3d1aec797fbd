-------------------------- MODULE StockLedgerProofs --------------------------
(***************************************************************************)
(* Theorems of StockLedger, for every set of warehouses, products, serial  *)
(* numbers, batches and quantities.                                        *)
(***************************************************************************)
EXTENDS MCStockLedger, SumTheorems

LEMMA DivisionBounds ==
    ASSUME NEW m \in Nat, NEW d \in Nat \ {0}
    PROVE  m \div d \in Nat
OBVIOUS

LEMMA ProductNat == ASSUME NEW m \in Nat, NEW n \in Nat PROVE m * n \in Nat
OBVIOUS

LEMMA RoundedRatioNat ==
    ASSUME NEW n \in Nat, NEW d \in Nat \ {0}
    PROVE  RoundedRatio(n, d) \in Nat
<1>1. 2 * n + d \in Nat /\ 2 * d \in Nat \ {0}
  OBVIOUS
<1>. QED BY <1>1, DivisionBounds DEF RoundedRatio

\* Rounding a whole multiple of the divisor changes nothing.
LEMMA RoundedRatioExact ==
    ASSUME NEW k \in Nat, NEW d \in Nat \ {0}
    PROVE  RoundedRatio(d * k, d) = k
BY DEF RoundedRatio

----------------------------------------------------------------------------
(* Type correctness.                                                       *)

TrackedTypeOK ==
    /\ unit \in [Products -> [Serials -> Warehouses \cup {Unrecorded, Out}]]
    /\ received \in [Products -> [Serials -> Nat]]
    /\ batchQty \in [Warehouses -> [Products -> [Batches -> Nat]]]
    /\ expiry \in [Products -> [Batches -> Dates \cup {NoDate}]]
    /\ created \in [Products -> [Batches -> Nat]]

LEMMA PlaceType ==
    ASSUME TrackedTypeOK, NEW p \in Products, NEW S,
           NEW place \in Warehouses \cup {Unrecorded, Out}
    PROVE  Place(p, S, place) \in [Serials -> Warehouses \cup {Unrecorded, Out}]
BY DEF Place, TrackedTypeOK

\* What FEFO draws from a batch is within its balance.
LEMMA FefoDrawsType ==
    ASSUME NEW w \in Warehouses, NEW p \in Products, NEW need \in Nat,
           NEW take \in FefoDraws(w, p, need)
    PROVE  /\ take \in [Batches -> Nat]
           /\ \A b \in Batches : take[b] <= Whole * batchQty[w][p][b]
BY DEF FefoDraws

LEMMA AfterDrawType ==
    ASSUME TrackedTypeOK, NEW w \in Warehouses, NEW p \in Products, NEW need \in Nat,
           NEW take \in FefoDraws(w, p, need)
    PROVE  AfterDraw(w, p, take) \in [Batches -> Nat]
<1>1. ASSUME NEW b \in Batches
      PROVE  RoundedRatio(Whole * batchQty[w][p][b] - take[b], Whole) \in Nat
  <2>1. batchQty[w][p][b] \in Nat /\ Whole \in Nat \ {0}
    BY StockConstants DEF TrackedTypeOK
  <2>2. take[b] \in Nat /\ take[b] <= Whole * batchQty[w][p][b]
    BY FefoDrawsType
  <2>3. Whole * batchQty[w][p][b] - take[b] \in Nat
    BY <2>1, <2>2
  <2>. QED BY <2>1, <2>3, RoundedRatioNat
<1>. QED BY <1>1 DEF AfterDraw

LEMMA ReceiveTrackedType ==
    ASSUME TrackedTypeOK, NEW w \in Warehouses, NEW p \in Products, NEW q \in Quantities,
           NEW S \in SUBSET Serials, NEW b \in Batches, NEW d \in Dates \cup {NoDate},
           ReceiveTracked(w, p, q, S, b, d)
    PROVE  TrackedTypeOK'
<1>. USE StockConstants
<1>1. CASE IsSerialTracked(p) /\ ReceiveSerials(w, p, q, S) /\ UNCHANGED batchVars
  <2> DEFINE recorded == {s \in Serials : unit[p][s] # Unrecorded}
  <2>1. Cardinality(recorded) \in Nat
    BY FS_Subset, FS_CardinalityType
  <2> HIDE DEF recorded
  <2>2. [s \in Serials |-> IF s \in S THEN Cardinality(recorded) + 1 ELSE received[p][s]]
           \in [Serials -> Nat]
    BY <2>1 DEF TrackedTypeOK
  <2>3. received' \in [Products -> [Serials -> Nat]]
    BY <1>1, <2>2 DEF ReceiveSerials, TrackedTypeOK, recorded
  <2>4. unit' \in [Products -> [Serials -> Warehouses \cup {Unrecorded, Out}]]
    BY <1>1, PlaceType DEF ReceiveSerials, TrackedTypeOK
  <2>. QED BY <1>1, <2>3, <2>4 DEF TrackedTypeOK, batchVars
<1>2. CASE IsBatchTracked(p) /\ ReceiveBatch(w, p, q, b, d) /\ UNCHANGED serialVars
  <2> DEFINE known == {c \in Batches : created[p][c] > 0}
  <2>1. Cardinality(known) \in Nat
    BY FS_Subset, FS_CardinalityType
  <2>2. created' \in [Products -> [Batches -> Nat]]
    BY <1>2, <2>1 DEF ReceiveBatch, TrackedTypeOK
  <2>3. expiry' \in [Products -> [Batches -> Dates \cup {NoDate}]]
    BY <1>2 DEF ReceiveBatch, TrackedTypeOK
  <2>4. batchQty' \in [Warehouses -> [Products -> [Batches -> Nat]]]
    BY <1>2 DEF ReceiveBatch, TrackedTypeOK
  <2>. QED BY <1>2, <2>2, <2>3, <2>4 DEF TrackedTypeOK, serialVars
<1>3. CASE UNCHANGED <<serialVars, batchVars>>
  BY <1>3 DEF TrackedTypeOK, serialVars, batchVars
<1>. QED BY <1>1, <1>2, <1>3 DEF ReceiveTracked

LEMMA ReleaseTrackedType ==
    ASSUME TrackedTypeOK, NEW w \in Warehouses, NEW p \in Products, NEW q \in Quantities,
           NEW explicit \in SUBSET Serials, ReleaseTracked(w, p, q, explicit)
    PROVE  TrackedTypeOK'
<1>. USE StockConstants
<1>1. ASSUME NEW S, unit' = [unit EXCEPT ![p] = Place(p, S, Out)],
             UNCHANGED <<received, batchVars>>
      PROVE  TrackedTypeOK'
  BY <1>1, PlaceType DEF TrackedTypeOK, batchVars
<1>2. Whole * q \in Nat
  OBVIOUS
<1>3. ASSUME NEW take \in FefoDraws(w, p, Whole * q),
             batchQty' = [batchQty EXCEPT ![w][p] = AfterDraw(w, p, take)],
             UNCHANGED <<serialVars, expiry, created>>
      PROVE  TrackedTypeOK'
  BY <1>2, <1>3, AfterDrawType DEF TrackedTypeOK, serialVars
<1>4. CASE UNCHANGED <<serialVars, batchVars>>
  BY <1>4 DEF TrackedTypeOK, serialVars, batchVars
<1>. QED BY <1>1, <1>3, <1>4 DEF ReleaseTracked

LEMMA CarryTrackedType ==
    ASSUME TrackedTypeOK, NEW from \in Warehouses, NEW to \in Warehouses, from # to,
           NEW p \in Products, NEW q \in Quantities,
           NEW explicit \in SUBSET Serials, CarryTracked(from, to, p, q, explicit)
    PROVE  TrackedTypeOK'
<1>. USE StockConstants
<1>1. ASSUME NEW S, unit' = [unit EXCEPT ![p] = Place(p, S, to)],
             UNCHANGED <<received, batchVars>>
      PROVE  TrackedTypeOK'
  BY <1>1, PlaceType DEF TrackedTypeOK, batchVars
<1>2. Whole * q \in Nat
  OBVIOUS
<1>3. ASSUME NEW take \in FefoDraws(from, p, Whole * q),
             batchQty' = [batchQty EXCEPT
                 ![from][p] = AfterDraw(from, p, take),
                 ![to][p] = [b \in Batches |->
                     RoundedRatio(Whole * batchQty[to][p][b] + take[b], Whole)]],
             UNCHANGED <<serialVars, expiry, created>>
      PROVE  TrackedTypeOK'
  <2> DEFINE arrived == [b \in Batches |->
                     RoundedRatio(Whole * batchQty[to][p][b] + take[b], Whole)]
  <2>1. AfterDraw(from, p, take) \in [Batches -> Nat]
    BY <1>2, AfterDrawType
  <2>2. ASSUME NEW b \in Batches
        PROVE  RoundedRatio(Whole * batchQty[to][p][b] + take[b], Whole) \in Nat
    <3>1. take[b] \in Nat /\ batchQty[to][p][b] \in Nat
      BY <1>2, FefoDrawsType DEF TrackedTypeOK
    <3>2. Whole \in Nat \ {0}
      OBVIOUS
    <3>3. Whole * batchQty[to][p][b] \in Nat
      BY <3>1, <3>2, ProductNat
    <3>4. Whole * batchQty[to][p][b] + take[b] \in Nat
      BY <3>1, <3>3
    <3>. QED BY <3>2, <3>4, RoundedRatioNat
  <2>3. arrived \in [Batches -> Nat]
    BY <2>2
  <2> HIDE DEF arrived
  <2>4. batchQty' \in [Warehouses -> [Products -> [Batches -> Nat]]]
    BY <1>3, <2>1, <2>3 DEF TrackedTypeOK, arrived
  <2>. QED BY <1>3, <2>4 DEF TrackedTypeOK, serialVars
<1>4. CASE UNCHANGED <<serialVars, batchVars>>
  BY <1>4 DEF TrackedTypeOK, serialVars, batchVars
<1>. QED BY <1>1, <1>3, <1>4 DEF CarryTracked

LEMMA TypeOKParts ==
    TypeOK <=> /\ tracking \in [Products -> Modes]
               /\ onHand \in StockRows(Nat) /\ avgCost \in StockRows(Nat)
               /\ ledger \in StockRows(Int) /\ alerts \in StockRows(Nat)
               /\ paid \in [Products -> [Variants -> SUBSET Nat]]
               /\ TrackedTypeOK
BY DEF TypeOK, TrackedTypeOK

LEMMA BlendType ==
    ASSUME onHand \in StockRows(Nat), avgCost \in StockRows(Nat),
           NEW w \in Warehouses, NEW p \in Products, NEW v \in Variants,
           NEW q \in Nat \ {0}, NEW value \in Nat
    PROVE  Blend(w, p, v, q, value) \in Nat
<1>1. onHand[w][p][v] \in Nat /\ avgCost[w][p][v] \in Nat
  BY DEF StockRows
<1>2. onHand[w][p][v] * avgCost[w][p][v] \in Nat
  BY <1>1, ProductNat
<1>3. /\ onHand[w][p][v] * avgCost[w][p][v] + value \in Nat
      /\ onHand[w][p][v] + q \in Nat \ {0}
  BY <1>1, <1>2
<1>. QED BY <1>3, RoundedRatioNat DEF Blend

LEMMA StockInType ==
    ASSUME TypeOK, NEW w \in Warehouses, NEW p \in Products, NEW v \in Variants,
           NEW q \in Quantities, NEW c \in Costs, NEW S \in SUBSET Serials,
           NEW b \in Batches, NEW d \in Dates \cup {NoDate}, StockIn(w, p, v, q, c, S, b, d)
    PROVE  TypeOK'
<1>1. q \in Nat \ {0} /\ c \in Nat
  BY StockConstants
<1>2. TrackedTypeOK'
  BY ReceiveTrackedType, TypeOKParts DEF StockIn
<1>3. q * c \in Nat
  BY <1>1, ProductNat
<1>4. Blend(w, p, v, q, q * c) \in Nat
  BY <1>1, <1>3, BlendType DEF TypeOK
<1>5. avgCost' \in StockRows(Nat)
  BY <1>4 DEF StockIn, TypeOK, StockRows
<1>6. onHand' \in StockRows(Nat) /\ ledger' \in StockRows(Int)
  BY <1>1 DEF StockIn, TypeOK, StockRows
<1>7. paid' \in [Products -> [Variants -> SUBSET Nat]]
  BY <1>1 DEF StockIn, TypeOK
<1>8. tracking' \in [Products -> Modes] /\ alerts' \in StockRows(Nat)
  BY DEF StockIn, TypeOK
<1>. QED BY <1>2, <1>5, <1>6, <1>7, <1>8 DEF TypeOK, TrackedTypeOK

LEMMA AlertType ==
    ASSUME alerts \in StockRows(Nat), NEW w \in Warehouses, NEW p \in Products,
           NEW v \in Variants, NEW left
    PROVE  AlertIfLow(w, p, v, left) \in Nat
BY DEF AlertIfLow, StockRows

LEMMA StockOutType ==
    ASSUME TypeOK, NEW w \in Warehouses, NEW p \in Products, NEW v \in Variants,
           NEW q \in Quantities, NEW explicit \in SUBSET Serials,
           StockOut(w, p, v, q, explicit)
    PROVE  TypeOK'
<1>1. q \in Nat /\ onHand[w][p][v] \in Nat /\ q <= onHand[w][p][v]
  BY StockConstants DEF StockOut, Available, TypeOK, StockRows
<1>2. TrackedTypeOK'
  BY ReleaseTrackedType, TypeOKParts DEF StockOut
<1>3. onHand' \in StockRows(Nat) /\ ledger' \in StockRows(Int)
  BY <1>1 DEF StockOut, TypeOK, StockRows
<1>4. alerts' \in StockRows(Nat)
  BY AlertType DEF StockOut, TypeOK, StockRows
<1>. QED BY <1>2, <1>3, <1>4 DEF StockOut, TypeOK, TrackedTypeOK

LEMMA TwoRowsType ==
    ASSUME NEW T, NEW rows \in StockRows(T), NEW from \in Warehouses, NEW to \in Warehouses,
           NEW p \in Products, NEW v \in Variants, NEW x \in T, NEW y \in T
    PROVE  [rows EXCEPT ![from][p][v] = x, ![to][p][v] = y] \in StockRows(T)
BY DEF StockRows

LEMMA TransferType ==
    ASSUME TypeOK, NEW from \in Warehouses, NEW to \in Warehouses, NEW p \in Products,
           NEW v \in Variants, NEW q \in Quantities, NEW explicit \in SUBSET Serials,
           Transfer(from, to, p, v, q, explicit)
    PROVE  TypeOK'
<1>1. /\ q \in Nat \ {0} /\ onHand[from][p][v] \in Nat /\ q <= onHand[from][p][v]
      /\ avgCost[from][p][v] \in Nat /\ from # to
  BY StockConstants DEF Transfer, Available, TypeOK, StockRows
<1>2. TrackedTypeOK'
  BY CarryTrackedType, TypeOKParts DEF Transfer
<1>3. q * avgCost[from][p][v] \in Nat
  BY <1>1, ProductNat
<1>4. Blend(to, p, v, q, q * avgCost[from][p][v]) \in Nat
  BY <1>1, <1>3, BlendType DEF TypeOK
<1>5. avgCost' \in StockRows(Nat)
  BY <1>4 DEF Transfer, TypeOK, StockRows
<1>6. onHand' \in StockRows(Nat)
  <2>1. onHand[from][p][v] - q \in Nat /\ onHand[to][p][v] + q \in Nat
    BY <1>1 DEF TypeOK, StockRows
  <2>. QED BY <2>1, TwoRowsType DEF Transfer, TypeOK
<1>7. ledger' \in StockRows(Int)
  <2>1. ledger[from][p][v] - q \in Int /\ ledger[to][p][v] + q \in Int
    BY <1>1 DEF TypeOK, StockRows
  <2>. QED BY <2>1, TwoRowsType DEF Transfer, TypeOK
<1>. QED BY <1>2, <1>5, <1>6, <1>7 DEF Transfer, TypeOK, TrackedTypeOK

LEMMA AdjustUpType ==
    ASSUME TypeOK, NEW w \in Warehouses, NEW p \in Products, NEW v \in Variants,
           NEW q \in Quantities, NEW S \in SUBSET Serials,
           NEW b \in Batches, NEW d \in Dates \cup {NoDate}, AdjustUp(w, p, v, q, S, b, d)
    PROVE  TypeOK'
<1>1. q \in Nat
  BY StockConstants
<1>2. TrackedTypeOK'
  BY ReceiveTrackedType, TypeOKParts DEF AdjustUp
<1>3. onHand' \in StockRows(Nat) /\ ledger' \in StockRows(Int)
  BY <1>1 DEF AdjustUp, TypeOK, StockRows
<1>. QED BY <1>2, <1>3 DEF AdjustUp, TypeOK, TrackedTypeOK

LEMMA AdjustDownType ==
    ASSUME TypeOK, NEW w \in Warehouses, NEW p \in Products, NEW v \in Variants,
           NEW q \in Quantities, NEW explicit \in SUBSET Serials,
           AdjustDown(w, p, v, q, explicit)
    PROVE  TypeOK'
<1>1. q \in Nat /\ onHand[w][p][v] \in Nat /\ q <= onHand[w][p][v]
  BY StockConstants DEF AdjustDown, Available, TypeOK, StockRows
<1>2. TrackedTypeOK'
  BY ReleaseTrackedType, TypeOKParts DEF AdjustDown
<1>3. onHand' \in StockRows(Nat) /\ ledger' \in StockRows(Int)
  BY <1>1 DEF AdjustDown, TypeOK, StockRows
<1>. QED BY <1>2, <1>3 DEF AdjustDown, TypeOK, TrackedTypeOK

\* A line of an assembly takes no more than is on hand, so what is left and
\* what is taken round to natural numbers.
LEMMA LineType ==
    ASSUME TypeOK, NEW w \in Warehouses, NEW p \in Products, NEW q \in Quantities,
           Assemble(w, p, q), NEW c \in Components(p)
    PROVE  /\ Need(p, c, q) \in Nat
           /\ Moved(p, c, q) \in Nat
           /\ RoundedRatio(LeftAfterLine(w, p, c, q), Whole) \in Nat
<1>1. c \in Products /\ NoVariant \in Variants /\ Whole \in Nat \ {0} /\ q \in Nat
  BY StockConstants
<1>2. Bom[p][c] \in Nat
  BY StockConstants
<1>3. Need(p, c, q) \in Nat
  BY <1>1, <1>2, ProductNat DEF Need
<1>4. onHand[w][c][NoVariant] \in Nat
  BY <1>1 DEF TypeOK, StockRows
<1>5. Whole * onHand[w][c][NoVariant] \in Nat
  BY <1>1, <1>4, ProductNat
<1>6. Need(p, c, q) <= Whole * onHand[w][c][NoVariant]
  BY DEF Assemble
<1>7. LeftAfterLine(w, p, c, q) \in Nat
  BY <1>3, <1>5, <1>6 DEF LeftAfterLine
<1>. QED BY <1>1, <1>3, <1>7, RoundedRatioNat DEF Moved

LEMMA AssembledType ==
    ASSUME NEW T, NEW rows \in StockRows(T), NEW w \in Warehouses, NEW p \in Products,
           NEW x \in T, NEW F \in [Components(p) -> T]
    PROVE  Assembled(rows, w, p, x, F) \in StockRows(T)
BY DEF Assembled, StockRows

LEMMA ComponentCostType ==
    ASSUME TypeOK, NEW w \in Warehouses, NEW p \in Products, NEW q \in Quantities,
           Assemble(w, p, q)
    PROVE  ComponentCost(w, p, q) \in Nat
<1> DEFINE cost == [c \in Components(p) |-> Need(p, c, q) * avgCost[w][c][NoVariant]]
<1>1. ASSUME NEW c \in Components(p) PROVE cost[c] \in Nat
  <2>1. Need(p, c, q) \in Nat
    BY LineType
  <2>2. avgCost[w][c][NoVariant] \in Nat
    BY StockConstants DEF TypeOK, StockRows
  <2>. QED BY <2>1, <2>2, ProductNat
<1>2. IsFiniteSet(Components(p))
  BY StockConstants
<1> HIDE DEF cost
<1>3. SumFunctionOnSet(cost, Components(p)) \in Nat
  BY <1>1, <1>2, SumNat
<1>. QED BY <1>3 DEF ComponentCost, cost

LEMMA ReleaseComponentsType ==
    ASSUME TypeOK, NEW w \in Warehouses, NEW p \in Products, NEW q \in Quantities,
           Assemble(w, p, q)
    PROVE  TrackedTypeOK'
<1> DEFINE serialLines == {c \in Components(p) : IsSerialTracked(c)}
           batchLines == {c \in Components(p) : IsBatchTracked(c)}
<1>1. Components(p) \subseteq Products
  BY StockConstants
<1>2. PICK pick \in [serialLines -> SUBSET Serials],
           take \in [batchLines -> UNION {FefoDraws(w, c, Need(p, c, q)) : c \in batchLines}] :
        /\ \A c \in batchLines : take[c] \in FefoDraws(w, c, Need(p, c, q))
        /\ unit' = [c \in Products |->
              IF c \in serialLines THEN Place(c, pick[c], Out) ELSE unit[c]]
        /\ batchQty' = [batchQty EXCEPT ![w] = [c \in Products |->
              IF c \in batchLines THEN AfterDraw(w, c, take[c]) ELSE batchQty[w][c]]]
        /\ UNCHANGED <<received, expiry, created>>
  BY DEF Assemble, ReleaseComponents
<1>3. ASSUME NEW c \in batchLines PROVE AfterDraw(w, c, take[c]) \in [Batches -> Nat]
  <2>1. Need(p, c, q) \in Nat /\ c \in Products
    BY <1>1, LineType
  <2>. QED BY <1>2, <2>1, AfterDrawType, TypeOKParts
<1> HIDE DEF serialLines, batchLines
<1>4. unit' \in [Products -> [Serials -> Warehouses \cup {Unrecorded, Out}]]
  BY <1>2, PlaceType, TypeOKParts DEF TrackedTypeOK
<1>5. batchQty' \in [Warehouses -> [Products -> [Batches -> Nat]]]
  BY <1>2, <1>3 DEF TypeOK
<1>. QED BY <1>2, <1>4, <1>5 DEF TypeOK, TrackedTypeOK

LEMMA AssembleType ==
    ASSUME TypeOK, NEW w \in Warehouses, NEW p \in Products, NEW q \in Quantities,
           Assemble(w, p, q)
    PROVE  TypeOK'
<1>1. /\ q \in Nat \ {0} /\ Whole \in Nat \ {0} /\ NoVariant \in Variants
      /\ onHand[w][p][NoVariant] \in Nat /\ avgCost[w][p][NoVariant] \in Nat
      /\ ledger[w][p][NoVariant] \in Int /\ alerts[w][p][NoVariant] \in Nat
  BY StockConstants DEF TypeOK, StockRows
<1>2. TrackedTypeOK'
  BY ReleaseComponentsType
<1>3. onHand' \in StockRows(Nat)
  <2>1. \A c \in Components(p) : RoundedRatio(LeftAfterLine(w, p, c, q), Whole) \in Nat
    BY LineType
  <2>2. onHand[w][p][NoVariant] + q \in Nat
    BY <1>1
  <2> DEFINE left == [c \in Components(p) |-> RoundedRatio(LeftAfterLine(w, p, c, q), Whole)]
  <2>3. left \in [Components(p) -> Nat]
    BY <2>1
  <2>4. onHand' = Assembled(onHand, w, p, onHand[w][p][NoVariant] + q, left)
    BY DEF Assemble
  <2> HIDE DEF left
  <2>. QED BY <2>2, <2>3, <2>4, AssembledType DEF TypeOK
<1>4. ledger' \in StockRows(Int)
  <2>1. ASSUME NEW c \in Components(p)
        PROVE  ledger[w][c][NoVariant] - Moved(p, c, q) \in Int
    <3>1. c \in Products
      BY StockConstants
    <3>2. ledger[w][c][NoVariant] \in Int
      BY <1>1, <3>1 DEF TypeOK, StockRows
    <3>. QED BY <3>2, LineType
  <2>2. ledger[w][p][NoVariant] + q \in Int
    BY <1>1
  <2> DEFINE entries == [c \in Components(p) |->
                ledger[w][c][NoVariant] - Moved(p, c, q)]
  <2>3. entries \in [Components(p) -> Int]
    BY <2>1
  <2>4. ledger' = Assembled(ledger, w, p, ledger[w][p][NoVariant] + q, entries)
    BY DEF Assemble
  <2> HIDE DEF entries
  <2>. QED BY <2>2, <2>3, <2>4, AssembledType DEF TypeOK
<1>5. alerts' \in StockRows(Nat)
  <2>1. \A c \in Components(p) : AlertIfLow(w, c, NoVariant, LeftAfterLine(w, p, c, q)) \in Nat
    BY <1>1, StockConstants, AlertType DEF TypeOK
  <2> DEFINE raised == [c \in Components(p) |->
                AlertIfLow(w, c, NoVariant, LeftAfterLine(w, p, c, q))]
  <2>2. raised \in [Components(p) -> Nat]
    BY <2>1
  <2>3. alerts' = Assembled(alerts, w, p, alerts[w][p][NoVariant], raised)
    BY DEF Assemble
  <2> HIDE DEF raised
  <2>. QED BY <1>1, <2>2, <2>3, AssembledType DEF TypeOK
<1>6. ComponentCost(w, p, q) \in Nat
  BY ComponentCostType
<1>7. avgCost' \in StockRows(Nat)
  <2>1. Whole * onHand[w][p][NoVariant] \in Nat
    BY <1>1, ProductNat
  <2>2. Whole * onHand[w][p][NoVariant] * avgCost[w][p][NoVariant] \in Nat
    BY <1>1, <2>1, ProductNat
  <2>3. Whole * (onHand[w][p][NoVariant] + q) \in Nat \ {0}
    BY <1>1
  <2>4. RoundedRatio(Whole * onHand[w][p][NoVariant] * avgCost[w][p][NoVariant]
                         + ComponentCost(w, p, q),
                     Whole * (onHand[w][p][NoVariant] + q)) \in Nat
    BY <1>6, <2>2, <2>3, RoundedRatioNat
  <2> DEFINE cost == RoundedRatio(Whole * onHand[w][p][NoVariant] * avgCost[w][p][NoVariant]
                                      + ComponentCost(w, p, q),
                                  Whole * (onHand[w][p][NoVariant] + q))
  <2>5. avgCost' = [avgCost EXCEPT ![w][p][NoVariant] = cost]
    BY DEF Assemble
  <2>6. cost \in Nat
    BY <2>4
  <2> HIDE DEF cost
  <2>. QED BY <1>1, <2>5, <2>6 DEF TypeOK, StockRows
<1>8. paid' \in [Products -> [Variants -> SUBSET Nat]]
  <2>1. Whole * q \in Nat \ {0}
    BY <1>1
  <2>2. RoundedRatio(ComponentCost(w, p, q), Whole * q) \in Nat
    BY <1>6, <2>1, RoundedRatioNat
  <2>. QED BY <2>2 DEF Assemble, TypeOK
<1>9. tracking' \in [Products -> Modes]
  BY DEF Assemble, TypeOK
<1>. QED BY <1>2, <1>3, <1>4, <1>5, <1>7, <1>8, <1>9 DEF TypeOK, TrackedTypeOK

\* Marking an alert read keeps every row in its type.
LEMMA MarkReadType ==
    ASSUME TypeOK, NEW w \in Warehouses, NEW p \in Products, NEW v \in Variants,
           MarkRead(w, p, v)
    PROVE  TypeOK'
BY DEF MarkRead, TypeOK, StockRows, serialVars, batchVars

\* Changing a product's tracking flags keeps every row in its type.
LEMMA RetrackType ==
    ASSUME TypeOK, NEW p \in Products, NEW mode \in Modes, Retrack(p, mode)
    PROVE  TypeOK'
BY DEF Retrack, TypeOK, StockRows, serialVars, batchVars

\* Clearing the rows of one variant puts zero there and keeps the others.
LEMMA WithoutVariantRows ==
    ASSUME NEW T, NEW rows \in StockRows(T), 0 \in T, NEW p \in Products, NEW v \in Variants
    PROVE  /\ WithoutVariant(rows, p, v) \in StockRows(T)
           /\ \A w \in Warehouses, n \in Products, m \in Variants :
                 WithoutVariant(rows, p, v)[w][n][m] =
                     IF n = p /\ m = v THEN 0 ELSE rows[w][n][m]
BY DEF WithoutVariant, StockRows

\* Deleting a variant keeps every remaining row in its type.
LEMMA DeleteVariantType ==
    ASSUME TypeOK, NEW p \in Products, NEW v \in Variants, DeleteVariant(p, v)
    PROVE  TypeOK'
<1>1. /\ onHand \in StockRows(Nat) /\ avgCost \in StockRows(Nat)
      /\ ledger \in StockRows(Int) /\ alerts \in StockRows(Nat)
  BY DEF TypeOK
<1>2. /\ WithoutVariant(onHand, p, v) \in StockRows(Nat)
      /\ WithoutVariant(avgCost, p, v) \in StockRows(Nat)
      /\ WithoutVariant(ledger, p, v) \in StockRows(Int)
      /\ WithoutVariant(alerts, p, v) \in StockRows(Nat)
  BY <1>1, WithoutVariantRows
<1>3. paid' \in [Products -> [Variants -> SUBSET Nat]]
  BY DEF DeleteVariant, TypeOK
<1>. QED BY <1>2, <1>3 DEF DeleteVariant, TypeOK, serialVars, batchVars

\* Every row, unit, balance and alert stays within its type, whichever
\* operations run: in particular no stock row or batch balance goes negative.
THEOREM TypeCorrect == Spec => []TypeOK
<1>1. Init => TypeOK
  BY StockConstants DEF Init, TypeOK, NoStock, StockRows
<1>2. TypeOK /\ [Next]_vars => TypeOK'
  <2> SUFFICES ASSUME TypeOK, [Next]_vars PROVE TypeOK'
    OBVIOUS
  <2>1. CASE StockOperation
    BY <2>1, StockInType, StockOutType, TransferType, AdjustUpType, AdjustDownType, AssembleType
       DEF StockOperation
  <2>2. CASE \E w \in Warehouses, p \in Products, v \in Variants : MarkRead(w, p, v)
    BY <2>2, MarkReadType
  <2>3. CASE UNCHANGED vars
    BY <2>3 DEF vars, TypeOK
  <2>4. CASE \E p \in Products, mode \in Modes : Retrack(p, mode)
    BY <2>4, RetrackType
  <2>5. CASE \E p \in Products, v \in Variants : DeleteVariant(p, v)
    BY <2>5, DeleteVariantType
  <2>. QED BY <2>1, <2>2, <2>3, <2>4, <2>5 DEF Next
<1>. QED BY <1>1, <1>2, PTL DEF Spec

----------------------------------------------------------------------------
(* The movement ledger explains the on-hand quantities.                    *)

\* Every component line asks for a whole number of smallest quantities.  The
\* code does not ensure this: it is what LedgerExplainsOnHand needs.
ExactBom ==
    \A p \in Products, q \in Quantities : \A c \in Components(p) :
        \E k \in Nat : Need(p, c, q) = Whole * k

LEMMA AssembleKeepsLedger ==
    ASSUME ExactBom, TypeOK, LedgerExplainsOnHand,
           NEW w \in Warehouses, NEW p \in Products, NEW q \in Quantities, Assemble(w, p, q)
    PROVE  LedgerExplainsOnHand'
<1> DEFINE left == [c \in Components(p) |-> RoundedRatio(LeftAfterLine(w, p, c, q), Whole)]
           entries == [c \in Components(p) |->
                ledger[w][c][NoVariant] - Moved(p, c, q)]
<1>1. ASSUME NEW c \in Components(p)
      PROVE  RoundedRatio(LeftAfterLine(w, p, c, q), Whole)
               = ledger[w][c][NoVariant] - Moved(p, c, q)
  <2>1. PICK k \in Nat : Need(p, c, q) = Whole * k
    BY DEF ExactBom
  <2>2. c \in Products /\ Whole \in Nat \ {0} /\ NoVariant \in Variants
    BY StockConstants
  <2> DEFINE had == onHand[w][c][NoVariant]
  <2>3. had \in Nat /\ ledger[w][c][NoVariant] = had
    BY <2>2 DEF TypeOK, StockRows, LedgerExplainsOnHand
  <2>4. Whole * k <= Whole * had
    BY <2>1 DEF Assemble
  <2>5. LeftAfterLine(w, p, c, q) = Whole * had - Whole * k
    BY <2>1 DEF LeftAfterLine
  <2> HIDE DEF had
  <2>6. k <= had
    BY <2>2, <2>3, <2>4
  <2>7. had - k \in Nat /\ Whole * had - Whole * k = Whole * (had - k)
    BY <2>2, <2>3, <2>6
  <2>8. RoundedRatio(Whole * (had - k), Whole) = had - k /\ RoundedRatio(Whole * k, Whole) = k
    BY <2>2, <2>7, RoundedRatioExact
  <2>. QED BY <2>1, <2>3, <2>5, <2>7, <2>8 DEF Moved
<1>2. left = entries
  BY <1>1
<1>3. /\ onHand' = Assembled(onHand, w, p, onHand[w][p][NoVariant] + q, left)
      /\ ledger' = Assembled(ledger, w, p, ledger[w][p][NoVariant] + q, entries)
  BY DEF Assemble
<1> HIDE DEF left, entries
<1>. QED BY <1>2, <1>3 DEF LedgerExplainsOnHand

\* Each operation writes a movement row for exactly what it adds to or takes
\* from the stock row, in the same transaction.
THEOREM LedgerCorrect ==
    ASSUME ExactBom PROVE Spec => []LedgerExplainsOnHand
<1>1. Init => LedgerExplainsOnHand
  BY DEF Init, LedgerExplainsOnHand
<1>2. TypeOK /\ LedgerExplainsOnHand /\ [Next]_vars => LedgerExplainsOnHand'
  <2> SUFFICES ASSUME TypeOK, LedgerExplainsOnHand, [Next]_vars PROVE LedgerExplainsOnHand'
    OBVIOUS
  <2>1. ASSUME NEW w \in Warehouses, NEW p \in Products, NEW v \in Variants, NEW q \in Quantities,
               NEW S \in SUBSET Serials
        PROVE  /\ \A b, d : AdjustUp(w, p, v, q, S, b, d) => LedgerExplainsOnHand'
               /\ \A b, d, c : StockIn(w, p, v, q, c, S, b, d) => LedgerExplainsOnHand'
               /\ StockOut(w, p, v, q, S) => LedgerExplainsOnHand'
               /\ AdjustDown(w, p, v, q, S) => LedgerExplainsOnHand'
    BY DEF LedgerExplainsOnHand, AdjustUp, StockIn, StockOut, AdjustDown
  <2>2. ASSUME NEW w \in Warehouses, NEW p \in Products, NEW v \in Variants, NEW q \in Quantities,
               NEW S \in SUBSET Serials, NEW to \in Warehouses, Transfer(w, to, p, v, q, S)
        PROVE  LedgerExplainsOnHand'
    BY <2>2 DEF LedgerExplainsOnHand, Transfer
  <2>3. CASE StockOperation
    BY <2>1, <2>2, <2>3, AssembleKeepsLedger DEF StockOperation
  <2>4. CASE \E w \in Warehouses, p \in Products, v \in Variants : MarkRead(w, p, v)
    BY <2>4 DEF MarkRead, LedgerExplainsOnHand
  <2>5. CASE UNCHANGED vars
    BY <2>5 DEF vars, LedgerExplainsOnHand
  <2>6. CASE \E p \in Products, mode \in Modes : Retrack(p, mode)
    BY <2>6 DEF Retrack, LedgerExplainsOnHand
  <2>7. CASE \E p \in Products, v \in Variants : DeleteVariant(p, v)
    BY <2>7 DEF DeleteVariant, LedgerExplainsOnHand
  <2>. QED BY <2>3, <2>4, <2>5, <2>6, <2>7 DEF Next
<1>. QED BY <1>1, <1>2, TypeCorrect, PTL DEF Spec

----------------------------------------------------------------------------
(* A serial number that has been sold stays sold.                          *)

StaysOut == \A p \in Products, s \in Serials : unit[p][s] = Out => unit'[p][s] = Out

\* Placing units that are not out leaves the ones that are.
LEMMA PlaceKeepsOut ==
    ASSUME TypeOK, NEW p \in Products, NEW S \in SUBSET Serials, NEW place,
           \A s \in S : unit[p][s] # Out,
           unit' = [unit EXCEPT ![p] = Place(p, S, place)]
    PROVE  StaysOut
BY DEF StaysOut, Place, TypeOK

LEMMA ReceiveKeepsOut ==
    ASSUME TypeOK, NEW w \in Warehouses, NEW p \in Products, NEW q, NEW S \in SUBSET Serials,
           NEW b, NEW d, ReceiveTracked(w, p, q, S, b, d)
    PROVE  StaysOut
<1>1. CASE ReceiveSerials(w, p, q, S)
  BY <1>1, PlaceKeepsOut DEF ReceiveSerials, NewNumbers, Unrecorded, Out
<1>2. CASE UNCHANGED serialVars
  BY <1>2 DEF serialVars, StaysOut
<1>. QED BY <1>1, <1>2 DEF ReceiveTracked

LEMMA PicksAreInStock ==
    ASSUME NEW w \in Warehouses, NEW p, NEW need, NEW explicit,
           NEW S \in SerialPicks(w, p, need, explicit)
    PROVE  S \in SUBSET Serials /\ \A s \in S : unit[p][s] = w /\ unit[p][s] # Out
BY StockConstants DEF SerialPicks, UnitsAt

LEMMA ReleaseKeepsOut ==
    ASSUME TypeOK, NEW w \in Warehouses, NEW p \in Products, NEW q, NEW explicit,
           ReleaseTracked(w, p, q, explicit)
    PROVE  StaysOut
<1>1. CASE \E S \in SerialPicks(w, p, Whole * q, explicit) :
              unit' = [unit EXCEPT ![p] = Place(p, S, Out)]
  <2>1. PICK S \in SerialPicks(w, p, Whole * q, explicit) :
            unit' = [unit EXCEPT ![p] = Place(p, S, Out)]
    BY <1>1
  <2>2. S \in SUBSET Serials /\ \A s \in S : unit[p][s] # Out
    BY PicksAreInStock
  <2>. QED BY <2>1, <2>2, PlaceKeepsOut
<1>2. CASE UNCHANGED serialVars
  BY <1>2 DEF serialVars, StaysOut
<1>. QED BY <1>1, <1>2, Zenon DEF ReleaseTracked, serialVars

LEMMA CarryKeepsOut ==
    ASSUME TypeOK, NEW w \in Warehouses, NEW to \in Warehouses, NEW p \in Products,
           NEW q, NEW explicit, CarryTracked(w, to, p, q, explicit)
    PROVE  StaysOut
<1>1. CASE \E S \in SerialPicks(w, p, Whole * q, explicit) :
              unit' = [unit EXCEPT ![p] = Place(p, S, to)]
  <2>1. PICK S \in SerialPicks(w, p, Whole * q, explicit) :
            unit' = [unit EXCEPT ![p] = Place(p, S, to)]
    BY <1>1
  <2>2. S \in SUBSET Serials /\ \A s \in S : unit[p][s] # Out
    BY PicksAreInStock
  <2>. QED BY <2>1, <2>2, PlaceKeepsOut
<1>2. CASE UNCHANGED serialVars
  BY <1>2 DEF serialVars, StaysOut
<1>. QED BY <1>1, <1>2, Zenon DEF CarryTracked, serialVars

LEMMA ReleaseComponentsKeepsOut ==
    ASSUME TypeOK, NEW w \in Warehouses, NEW p \in Products, NEW q, ReleaseComponents(w, p, q)
    PROVE  StaysOut
<1> DEFINE serialLines == {c \in Components(p) : IsSerialTracked(c)}
<1>1. PICK pick \in [serialLines -> SUBSET Serials] :
        unit' = [c \in Products |->
              IF c \in serialLines THEN Place(c, pick[c], Out) ELSE unit[c]]
  BY DEF ReleaseComponents
<1> HIDE DEF serialLines
<1>2. ASSUME NEW c \in Products, NEW s \in Serials, unit[c][s] = Out
      PROVE  unit'[c][s] = Out
  <2>1. CASE c \in serialLines
    <3>1. unit'[c] = Place(c, pick[c], Out)
      BY <1>1, <2>1
    <3>. QED BY <1>2, <3>1 DEF Place
  <2>2. CASE c \notin serialLines
    BY <1>1, <1>2, <2>2
  <2>. QED BY <2>1, <2>2
<1>. QED BY <1>2 DEF StaysOut

\* No operation brings back a unit that is out.
THEOREM SoldUnitsStaySold == Spec => SoldUnitsStayOut
<1>1. TypeOK /\ [Next]_vars => [StaysOut]_vars
  <2> SUFFICES ASSUME TypeOK, Next PROVE StaysOut
    OBVIOUS
  <2>1. CASE StockOperation
    <3>1. ASSUME NEW w \in Warehouses, NEW p \in Products, NEW q, NEW S \in SUBSET Serials,
                 NEW b, NEW d, ReceiveTracked(w, p, q, S, b, d)
          PROVE  StaysOut
      BY <3>1, ReceiveKeepsOut
    <3>2. ASSUME NEW w \in Warehouses, NEW p \in Products, NEW q, NEW S,
                 \/ ReleaseTracked(w, p, q, S)
                 \/ \E to \in Warehouses : CarryTracked(w, to, p, q, S)
                 \/ ReleaseComponents(w, p, q)
          PROVE  StaysOut
      BY <3>2, ReleaseKeepsOut, CarryKeepsOut, ReleaseComponentsKeepsOut
    <3>3. PICK w \in Warehouses, p \in Products, v \in Variants, q \in Quantities :
             \/ \E S \in SUBSET Serials, b \in Batches, d \in Dates \cup {NoDate} :
                   \/ \E c \in Costs : StockIn(w, p, v, q, c, S, b, d)
                   \/ AdjustUp(w, p, v, q, S, b, d)
             \/ \E S \in SUBSET Serials :
                   \/ StockOut(w, p, v, q, S)
                   \/ AdjustDown(w, p, v, q, S)
                   \/ \E to \in Warehouses : Transfer(w, to, p, v, q, S)
             \/ Assemble(w, p, q)
      BY <2>1 DEF StockOperation
    <3>4. \/ \E S \in SUBSET Serials : \E b, d : ReceiveTracked(w, p, q, S, b, d)
          \/ \E S : \/ ReleaseTracked(w, p, q, S)
                    \/ \E to \in Warehouses : CarryTracked(w, to, p, q, S)
                    \/ ReleaseComponents(w, p, q)
      BY <3>3, Zenon DEF StockIn, AdjustUp, StockOut, AdjustDown, Transfer, Assemble
    <3>. QED BY <3>1, <3>2, <3>4, Zenon
  <2>2. CASE \E w \in Warehouses, p \in Products, v \in Variants : MarkRead(w, p, v)
    BY <2>2 DEF MarkRead, serialVars, StaysOut
  <2>3. CASE \E p \in Products, mode \in Modes : Retrack(p, mode)
    BY <2>3 DEF Retrack, serialVars, StaysOut
  <2>4. CASE \E p \in Products, v \in Variants : DeleteVariant(p, v)
    BY <2>4 DEF DeleteVariant, serialVars, StaysOut
  <2>. QED BY <2>1, <2>2, <2>3, <2>4 DEF Next
<1>2. Spec => [][StaysOut]_vars
  BY <1>1, TypeCorrect, PTL DEF Spec
<1>. QED BY <1>2 DEF SoldUnitsStayOut, StaysOut

----------------------------------------------------------------------------
(* No unit is valued above the dearest unit ever received.                 *)

LEMMA TimesMonotone ==
    ASSUME NEW k \in Nat, NEW m \in Nat, NEW n \in Nat, m <= n PROVE k * m <= k * n
<1>1. PICK j \in Nat : n = m + j
  <2>1. n - m \in Nat /\ n = m + (n - m)
    OBVIOUS
  <2>. QED BY <2>1
<1>2. k * n = k * m + k * j /\ k * j \in Nat /\ k * m \in Nat
  BY <1>1
<1>. QED BY <1>2

\* A quotient that stays less than half above c rounds to at most c.
LEMMA RoundedAtMost ==
    ASSUME NEW n \in Nat, NEW d \in Nat \ {0}, NEW c \in Nat, 2 * n < 2 * (d * c) + d
    PROVE  RoundedRatio(n, d) <= c
<1> DEFINE m == 2 * n + d
           e == 2 * d
           r == m \div e
<1>1. m \in Nat /\ e \in Nat \ {0}
  OBVIOUS
<1>2. e * (c + 1) = 2 * (d * c) + e
  OBVIOUS
<1>3. m < e * (c + 1)
  BY <1>2
<1> HIDE DEF m, e
<1>4. r \in Nat /\ e * r <= m
  BY <1>1
<1>5. ASSUME r > c PROVE FALSE
  <2>1. e * (c + 1) <= e * r
    BY <1>1, <1>4, <1>5, TimesMonotone
  <2>2. e * (c + 1) \in Nat /\ e * r \in Nat
    BY <1>1, <1>4
  <2>. QED BY <1>1, <1>3, <1>4, <2>1, <2>2
<1>. QED BY <1>4, <1>5 DEF RoundedRatio, m, e

\* A quotient lies less than half above what it rounds to.
LEMMA RoundedBelow ==
    ASSUME NEW n \in Nat, NEW d \in Nat \ {0}
    PROVE  2 * n < 2 * (d * RoundedRatio(n, d)) + d
<1> DEFINE m == 2 * n + d
           e == 2 * d
           r == m \div e
<1>1. m \in Nat /\ e \in Nat \ {0}
  OBVIOUS
<1> HIDE DEF m, e
<1>2. r \in Nat /\ m < e * r + e
  BY <1>1
<1> HIDE DEF r
<1>3. 2 * n + d < (2 * d) * r + 2 * d
  BY <1>2 DEF m, e
<1>4. (2 * d) * r = 2 * (d * r) /\ d * r \in Nat
  BY <1>2
<1>5. RoundedRatio(n, d) = r
  BY DEF RoundedRatio, r, m, e
<1>. QED BY <1>3, <1>4, <1>5

\* Blending had units at average a with n units worth value.
LEMMA BlendAtMost ==
    ASSUME NEW had \in Nat, NEW a \in Nat, NEW n \in Nat \ {0}, NEW value \in Nat,
           NEW c \in Nat, a <= c, value <= n * c
    PROVE  RoundedRatio(had * a + value, had + n) <= c
<1>1. had * a <= had * c /\ had * a \in Nat /\ had * c \in Nat /\ n * c \in Nat
  BY TimesMonotone
<1>2. (had + n) * c = had * c + n * c
  OBVIOUS
<1>3. had * a + value <= (had + n) * c
  BY <1>1, <1>2
<1>4. had * a + value \in Nat /\ had + n \in Nat \ {0} /\ (had + n) * c \in Nat
  BY <1>1, <1>2
<1>5. 2 * (had * a + value) < 2 * ((had + n) * c) + (had + n)
  BY <1>3, <1>4
<1>. QED BY <1>4, <1>5, RoundedAtMost

\* Two averages of one product and variant are bounded by one cost paid.
LEMMA DearerOfTwo ==
    ASSUME NEW P \in SUBSET Nat, NEW x \in Nat, NEW y \in Nat,
           \E c \in P : x <= c, \E c \in P : y <= c
    PROVE  \E c \in P : x <= c /\ y <= c
<1>1. PICK b \in P : x <= b
  OBVIOUS
<1>2. PICK c \in P : y <= c
  OBVIOUS
<1>. QED BY <1>1, <1>2

PaidFor(p, v) == paid[p][v] \cup {0}

LEMMA PaidForNat ==
    ASSUME TypeOK, NEW p \in Products, NEW v \in Variants
    PROVE  PaidFor(p, v) \in SUBSET Nat
BY DEF PaidFor, TypeOK

LEMMA StockInWithinPaid ==
    ASSUME TypeOK, AverageWithinPaid, NEW w \in Warehouses, NEW p \in Products,
           NEW v \in Variants, NEW q \in Quantities, NEW c \in Costs,
           NEW S, NEW number, NEW d, StockIn(w, p, v, q, c, S, number, d)
    PROVE  AverageWithinPaid'
<1>. /\ avgCost' = [avgCost EXCEPT ![w][p][v] = Blend(w, p, v, q, q * c)]
     /\ paid' = [paid EXCEPT ![p][v] = @ \cup {c}]
  BY DEF StockIn
<1>1. q \in Nat \ {0} /\ c \in Nat
  BY StockConstants
<1>2. onHand[w][p][v] \in Nat /\ avgCost[w][p][v] \in Nat
  BY DEF TypeOK, StockRows
<1>3. PICK b \in PaidFor(p, v) : avgCost[w][p][v] <= b
  BY DEF AverageWithinPaid, PaidFor
<1>4. b \in Nat
  BY PaidForNat
<1>5. PICK m \in PaidFor(p, v) \cup {c} : b <= m /\ c <= m /\ m \in Nat
  BY <1>1, <1>4
<1>6. avgCost[w][p][v] <= m /\ q * c <= q * m /\ q * c \in Nat
  BY <1>1, <1>2, <1>3, <1>4, <1>5, TimesMonotone
<1>7. Blend(w, p, v, q, q * c) <= m
  BY <1>1, <1>2, <1>5, <1>6, BlendAtMost DEF Blend
<1>8. ASSUME NEW x \in Warehouses, NEW n \in Products, NEW u \in Variants
      PROVE  \E k \in paid'[n][u] \cup {0} : avgCost'[x][n][u] <= k
  <2>1. paid[n][u] \subseteq paid'[n][u]
    BY DEF TypeOK
  <2>2. CASE x = w /\ n = p /\ u = v
    <3>1. avgCost'[x][n][u] = Blend(w, p, v, q, q * c)
      BY <2>2 DEF TypeOK, StockRows
    <3>2. m \in paid'[n][u] \cup {0}
      BY <1>5, <2>2 DEF TypeOK, PaidFor
    <3>. QED BY <1>7, <3>1, <3>2
  <2>3. CASE ~ (x = w /\ n = p /\ u = v)
    <3>1. avgCost'[x][n][u] = avgCost[x][n][u]
      BY <2>3 DEF TypeOK, StockRows
    <3>. QED BY <2>1, <3>1 DEF AverageWithinPaid
  <2>. QED BY <2>2, <2>3
<1>. QED BY <1>8 DEF AverageWithinPaid

LEMMA TransferWithinPaid ==
    ASSUME TypeOK, AverageWithinPaid, NEW from \in Warehouses, NEW to \in Warehouses,
           NEW p \in Products, NEW v \in Variants, NEW q \in Quantities,
           NEW S, Transfer(from, to, p, v, q, S)
    PROVE  AverageWithinPaid'
<1>. /\ avgCost' = [avgCost EXCEPT ![to][p][v] =
                       Blend(to, p, v, q, q * avgCost[from][p][v])]
     /\ paid' = paid
  BY DEF Transfer
<1>1. q \in Nat \ {0}
  BY StockConstants
<1>2. /\ onHand[to][p][v] \in Nat /\ avgCost[to][p][v] \in Nat
      /\ avgCost[from][p][v] \in Nat
  BY DEF TypeOK, StockRows
<1>3. PICK m \in PaidFor(p, v) : avgCost[to][p][v] <= m /\ avgCost[from][p][v] <= m
  <2>1. /\ \E c \in PaidFor(p, v) : avgCost[to][p][v] <= c
        /\ \E c \in PaidFor(p, v) : avgCost[from][p][v] <= c
    BY DEF AverageWithinPaid, PaidFor
  <2>. QED BY <1>2, <2>1, PaidForNat, DearerOfTwo
<1>4. m \in Nat
  BY PaidForNat
<1>5. q * avgCost[from][p][v] <= q * m /\ q * avgCost[from][p][v] \in Nat
  BY <1>1, <1>2, <1>3, <1>4, TimesMonotone
<1>6. Blend(to, p, v, q, q * avgCost[from][p][v]) <= m
  BY <1>1, <1>2, <1>3, <1>4, <1>5, BlendAtMost DEF Blend
<1>7. ASSUME NEW x \in Warehouses, NEW n \in Products, NEW u \in Variants
      PROVE  \E k \in paid'[n][u] \cup {0} : avgCost'[x][n][u] <= k
  <2>1. CASE x = to /\ n = p /\ u = v
    <3>1. avgCost'[x][n][u] = Blend(to, p, v, q, q * avgCost[from][p][v])
      BY <2>1 DEF TypeOK, StockRows
    <3>. QED BY <1>3, <1>6, <2>1, <3>1 DEF PaidFor
  <2>2. CASE ~ (x = to /\ n = p /\ u = v)
    <3>1. avgCost'[x][n][u] = avgCost[x][n][u]
      BY <2>2 DEF TypeOK, StockRows
    <3>. QED BY <3>1 DEF AverageWithinPaid
  <2>. QED BY <2>1, <2>2
<1>. QED BY <1>7 DEF AverageWithinPaid

\* Blending had units at average a with n bundles made at a cost that, rounded,
\* is recorded as unit: the two roundings never add up to one more.
LEMMA AssembledAtMost ==
    ASSUME NEW had \in Nat, NEW a \in Nat, NEW n \in Nat \ {0}, NEW cost \in Nat,
           NEW W \in Nat \ {0}, NEW c \in Nat, a <= c, RoundedRatio(cost, W * n) <= c
    PROVE  RoundedRatio(W * had * a + cost, W * (had + n)) <= c
<1> DEFINE r == RoundedRatio(cost, W * n)
           e == W * n
           h == W * had
<1>1. e \in Nat \ {0} /\ h \in Nat /\ h * a \in Nat /\ h * c \in Nat /\ e * c \in Nat
  OBVIOUS
<1>2. r \in Nat /\ 2 * cost < 2 * (e * r) + e
  BY <1>1, RoundedRatioNat, RoundedBelow
<1>3. W * (had + n) = h + e /\ (h + e) * c = h * c + e * c
  OBVIOUS
<1>4. r <= c
  OBVIOUS
<1> HIDE DEF r, e, h
<1>5. h * a <= h * c /\ e * r <= e * c /\ e * r \in Nat
  BY <1>1, <1>2, <1>4, TimesMonotone
<1>6. 2 * (h * a + cost) < 2 * (h * c + e * c) + (h + e)
  BY <1>1, <1>2, <1>5
<1>7. h + e \in Nat \ {0} /\ h * a + cost \in Nat
  BY <1>1
<1>8. RoundedRatio(h * a + cost, h + e) <= c
  BY <1>3, <1>6, <1>7, RoundedAtMost
<1>. QED BY <1>3, <1>8 DEF h

LEMMA AssembleWithinPaid ==
    ASSUME TypeOK, AverageWithinPaid, NEW w \in Warehouses, NEW p \in Products,
           NEW q \in Quantities, Assemble(w, p, q)
    PROVE  AverageWithinPaid'
<1> DEFINE had == onHand[w][p][NoVariant]
           a == avgCost[w][p][NoVariant]
           cost == ComponentCost(w, p, q)
           r == RoundedRatio(cost, Whole * q)
           blended == RoundedRatio(Whole * had * a + cost, Whole * (had + q))
<1>1. q \in Nat \ {0} /\ Whole \in Nat \ {0} /\ NoVariant \in Variants
  BY StockConstants
<1>2. had \in Nat /\ a \in Nat
  BY <1>1 DEF TypeOK, StockRows
<1>3. cost \in Nat
  BY ComponentCostType
<1>4. r \in Nat
  <2>1. Whole * q \in Nat \ {0}
    BY <1>1
  <2>. QED BY <1>3, <2>1, RoundedRatioNat
<1>5. /\ avgCost' = [avgCost EXCEPT ![w][p][NoVariant] = blended]
      /\ paid' = [paid EXCEPT ![p][NoVariant] = @ \cup {r}]
  BY DEF Assemble
<1>6. PICK b \in PaidFor(p, NoVariant) : a <= b
  BY <1>1 DEF AverageWithinPaid, PaidFor
<1>7. b \in Nat
  BY <1>1, PaidForNat
<1>8. PICK m \in PaidFor(p, NoVariant) \cup {r} : b <= m /\ r <= m /\ m \in Nat
  BY <1>4, <1>7
<1>9. a <= m
  BY <1>2, <1>6, <1>7, <1>8
<1>10. blended <= m
  BY <1>1, <1>2, <1>3, <1>8, <1>9, AssembledAtMost
<1> HIDE DEF had, a, cost, r, blended
<1>11. ASSUME NEW x \in Warehouses, NEW n \in Products, NEW u \in Variants
      PROVE  \E k \in paid'[n][u] \cup {0} : avgCost'[x][n][u] <= k
  <2>1. paid[n][u] \subseteq paid'[n][u]
    BY <1>5 DEF TypeOK
  <2>2. CASE x = w /\ n = p /\ u = NoVariant
    <3>1. avgCost'[x][n][u] = blended
      BY <1>5, <2>2 DEF TypeOK, StockRows
    <3>2. m \in paid'[n][u] \cup {0}
      BY <1>1, <1>5, <1>8, <2>2 DEF TypeOK, PaidFor
    <3>. QED BY <1>10, <3>1, <3>2
  <2>3. CASE ~ (x = w /\ n = p /\ u = NoVariant)
    <3>1. avgCost'[x][n][u] = avgCost[x][n][u]
      BY <1>5, <2>3 DEF TypeOK, StockRows
    <3>. QED BY <2>1, <3>1 DEF AverageWithinPaid
  <2>. QED BY <2>2, <2>3
<1>. QED BY <1>11 DEF AverageWithinPaid

LEMMA SameCostsWithinPaid ==
    ASSUME AverageWithinPaid, UNCHANGED <<avgCost, paid>>
    PROVE  AverageWithinPaid'
BY DEF AverageWithinPaid

\* A deleted variant's rows are worth nothing, and the others are as they were.
LEMMA DeleteVariantWithinPaid ==
    ASSUME TypeOK, AverageWithinPaid, NEW p \in Products, NEW v \in Variants,
           DeleteVariant(p, v)
    PROVE  AverageWithinPaid'
<1> SUFFICES ASSUME NEW w \in Warehouses, NEW n \in Products, NEW m \in Variants
             PROVE  \E c \in paid'[n][m] \cup {0} : avgCost'[w][n][m] <= c
  BY DEF AverageWithinPaid
<1>1. avgCost'[w][n][m] = IF n = p /\ m = v THEN 0 ELSE avgCost[w][n][m]
  <2>1. avgCost \in StockRows(Nat) /\ avgCost' = WithoutVariant(avgCost, p, v)
    BY DEF DeleteVariant, TypeOK
  <2>. QED BY <2>1, WithoutVariantRows
<1>2. CASE n = p /\ m = v
  BY <1>1, <1>2
<1>3. CASE ~ (n = p /\ m = v)
  <2>1. paid'[n][m] = paid[n][m]
    BY <1>3 DEF DeleteVariant, TypeOK
  <2>2. PICK c \in paid[n][m] \cup {0} : avgCost[w][n][m] <= c
    BY DEF AverageWithinPaid
  <2>. QED BY <1>1, <1>3, <2>1, <2>2
<1>. QED BY <1>2, <1>3

\* stock_in, transfer_stock and assemble_bundle each blend an average with a
\* unit cost and round to the stored scale: however they follow one another, no
\* stock row is valued above the dearest unit cost of its product and variant.
THEOREM NeverOvervalued == Spec => []AverageWithinPaid
<1>1. Init => AverageWithinPaid
  <2> SUFFICES ASSUME Init PROVE AverageWithinPaid
    OBVIOUS
  <2>1. ASSUME NEW w \in Warehouses, NEW p \in Products, NEW v \in Variants
        PROVE  avgCost[w][p][v] = 0
    BY DEF Init, NoStock
  <2>. QED BY <2>1 DEF AverageWithinPaid
<1>2. TypeOK /\ AverageWithinPaid /\ [Next]_vars => AverageWithinPaid'
  <2> SUFFICES ASSUME TypeOK, AverageWithinPaid, [Next]_vars PROVE AverageWithinPaid'
    OBVIOUS
  <2>1. ASSUME NEW w \in Warehouses, NEW p \in Products, NEW v \in Variants, NEW q \in Quantities,
               NEW S, \/ StockOut(w, p, v, q, S) \/ AdjustDown(w, p, v, q, S)
                      \/ \E b, d : AdjustUp(w, p, v, q, S, b, d)
        PROVE  AverageWithinPaid'
    BY <2>1, SameCostsWithinPaid DEF StockOut, AdjustDown, AdjustUp
  <2>2. CASE StockOperation
    BY <2>1, <2>2, StockInWithinPaid, TransferWithinPaid, AssembleWithinPaid DEF StockOperation
  <2>3. CASE \/ \E w \in Warehouses, p \in Products, v \in Variants : MarkRead(w, p, v)
             \/ \E p \in Products, mode \in Modes : Retrack(p, mode)
             \/ UNCHANGED vars
    BY <2>3, SameCostsWithinPaid DEF MarkRead, Retrack, vars
  <2>4. CASE \E p \in Products, v \in Variants : DeleteVariant(p, v)
    BY <2>4, DeleteVariantWithinPaid
  <2>. QED BY <2>2, <2>3, <2>4 DEF Next
<1>. QED BY <1>1, <1>2, TypeCorrect, PTL DEF Spec

----------------------------------------------------------------------------
(* Units and batch balances appear only where the on-hand quantity grows.  *)

\* A unit or batch balance of product p appears in warehouse w in this step.
Appears(w, p) ==
    \/ \E s \in Serials : unit'[p][s] = w /\ unit[p][s] # w
    \/ \E b \in Batches : batchQty'[w][p][b] > batchQty[w][p][b]
Grows(w, p) == \E v \in Variants : onHand'[w][p][v] > onHand[w][p][v]
OnlyAt(w, p) == \A x \in Warehouses, n \in Products : Appears(x, n) => x = w /\ n = p
Nowhere == \A x \in Warehouses, n \in Products : ~ Appears(x, n)

\* Placing units makes them appear at one place only.
LEMMA PlaceAppears ==
    ASSUME TypeOK, NEW p \in Products, NEW S, NEW place,
           unit' = [unit EXCEPT ![p] = Place(p, S, place)], UNCHANGED batchVars,
           NEW x \in Warehouses, NEW n \in Products, Appears(x, n)
    PROVE  x = place /\ n = p
<1>1. ~ \E b \in Batches : batchQty'[x][n][b] > batchQty[x][n][b]
  <2>1. \A b \in Batches : batchQty[x][n][b] \in Nat
    BY DEF TypeOK
  <2>. QED BY <2>1 DEF batchVars
<1>2. PICK s \in Serials : unit'[n][s] = x /\ unit[n][s] # x
  BY <1>1 DEF Appears
<1>3. n = p
  BY <1>2 DEF TypeOK
<1>4. unit'[n][s] = IF s \in S THEN place ELSE unit[n][s]
  BY <1>3 DEF Place, TypeOK
<1>. QED BY <1>2, <1>3, <1>4

LEMMA SameTrackedAppears ==
    ASSUME TypeOK, UNCHANGED <<unit, batchQty>> PROVE Nowhere
<1>1. ASSUME NEW x \in Warehouses, NEW n \in Products, NEW b \in Batches
      PROVE  batchQty[x][n][b] \in Nat
  BY DEF TypeOK
<1>. QED BY <1>1 DEF Nowhere, Appears

LEMMA ReceiveAppears ==
    ASSUME TypeOK, NEW w \in Warehouses, NEW p \in Products, NEW q, NEW S, NEW b, NEW d,
           ReceiveTracked(w, p, q, S, b, d)
    PROVE  OnlyAt(w, p)
<1>1. CASE ReceiveSerials(w, p, q, S) /\ UNCHANGED batchVars
  BY <1>1, PlaceAppears DEF ReceiveSerials, OnlyAt
<1>2. CASE ReceiveBatch(w, p, q, b, d) /\ UNCHANGED serialVars
  <2>1. ASSUME NEW x \in Warehouses, NEW n \in Products, Appears(x, n)
        PROVE  x = w /\ n = p
    <3>1. PICK c \in Batches : batchQty'[x][n][c] > batchQty[x][n][c]
      BY <1>2, <2>1 DEF Appears, serialVars
    <3>2. CASE ~ (x = w /\ n = p)
      <4>1. batchQty'[x][n] = batchQty[x][n] /\ batchQty[x][n][c] \in Nat
        BY <1>2, <3>2 DEF ReceiveBatch, TypeOK
      <4>. QED BY <3>1, <4>1
    <3>. QED BY <3>2
  <2>. QED BY <2>1 DEF OnlyAt
<1>3. CASE UNCHANGED <<serialVars, batchVars>>
  BY <1>3, SameTrackedAppears DEF serialVars, batchVars, OnlyAt, Nowhere
<1>. QED BY <1>1, <1>2, <1>3 DEF ReceiveTracked

\* What is left of a batch after a draw is no more than its balance.
LEMMA AfterDrawLess ==
    ASSUME TypeOK, NEW w \in Warehouses, NEW p \in Products, NEW need \in Nat,
           NEW take \in FefoDraws(w, p, need), NEW b \in Batches
    PROVE  AfterDraw(w, p, take)[b] <= batchQty[w][p][b]
<1>1. batchQty[w][p][b] \in Nat /\ Whole \in Nat \ {0}
  BY StockConstants DEF TypeOK
<1>2. take[b] \in Nat /\ take[b] <= Whole * batchQty[w][p][b]
  BY FefoDrawsType
<1> DEFINE n == Whole * batchQty[w][p][b] - take[b]
<1>3. n \in Nat /\ n <= Whole * batchQty[w][p][b] /\ Whole * batchQty[w][p][b] \in Nat
  BY <1>1, <1>2
<1> HIDE DEF n
<1>4. 2 * n < 2 * (Whole * batchQty[w][p][b]) + Whole
  BY <1>1, <1>3
<1>5. RoundedRatio(n, Whole) <= batchQty[w][p][b]
  BY <1>1, <1>3, <1>4, RoundedAtMost
<1>. QED BY <1>5 DEF AfterDraw, n

LEMMA DrawAppears ==
    ASSUME TypeOK, NEW w \in Warehouses, NEW p \in Products, NEW need \in Nat,
           NEW take \in FefoDraws(w, p, need), NEW b \in Batches
    PROVE  ~ AfterDraw(w, p, take)[b] > batchQty[w][p][b]
<1>1. AfterDraw(w, p, take)[b] \in Nat /\ batchQty[w][p][b] \in Nat
  BY AfterDrawType, TypeOKParts DEF TypeOK
<1>. QED BY <1>1, AfterDrawLess

LEMMA ReleaseAppears ==
    ASSUME TypeOK, NEW w \in Warehouses, NEW p \in Products, NEW q \in Quantities,
           NEW explicit, ReleaseTracked(w, p, q, explicit)
    PROVE  Nowhere
<1>1. CASE (\E S \in SerialPicks(w, p, Whole * q, explicit) :
              unit' = [unit EXCEPT ![p] = Place(p, S, Out)]) /\ UNCHANGED <<received, batchVars>>
  BY <1>1, PlaceAppears, StockConstants DEF Nowhere
<1>2. ASSUME NEW take \in FefoDraws(w, p, Whole * q),
             batchQty' = [batchQty EXCEPT ![w][p] = AfterDraw(w, p, take)],
             UNCHANGED <<serialVars, expiry, created>>
      PROVE  Nowhere
  <2>1. Whole * q \in Nat
    BY StockConstants
  <2>2. ASSUME NEW x \in Warehouses, NEW n \in Products, NEW b \in Batches
        PROVE  ~ batchQty'[x][n][b] > batchQty[x][n][b]
    <3>1. CASE x = w /\ n = p
      <4>1. batchQty'[x][n] = AfterDraw(w, p, take)
        BY <1>2, <3>1 DEF TypeOK
      <4>. QED BY <2>1, <3>1, <4>1, DrawAppears
    <3>2. CASE ~ (x = w /\ n = p)
      <4>1. batchQty'[x][n] = batchQty[x][n] /\ batchQty[x][n][b] \in Nat
        BY <1>2, <3>2 DEF TypeOK
      <4>. QED BY <4>1
    <3>. QED BY <3>1, <3>2
  <2>. QED BY <1>2, <2>2 DEF Nowhere, Appears, serialVars
<1>3. CASE UNCHANGED <<serialVars, batchVars>>
  BY <1>3, SameTrackedAppears DEF serialVars, batchVars
<1>. QED BY <1>1, <1>2, <1>3 DEF ReleaseTracked

LEMMA CarryAppears ==
    ASSUME TypeOK, NEW from \in Warehouses, NEW to \in Warehouses, NEW p \in Products,
           NEW q \in Quantities, NEW explicit, CarryTracked(from, to, p, q, explicit)
    PROVE  OnlyAt(to, p)
<1>1. CASE (\E S \in SerialPicks(from, p, Whole * q, explicit) :
              unit' = [unit EXCEPT ![p] = Place(p, S, to)]) /\ UNCHANGED <<received, batchVars>>
  BY <1>1, PlaceAppears DEF OnlyAt
<1>2. ASSUME NEW take \in FefoDraws(from, p, Whole * q), NEW arrived,
             batchQty' = [batchQty EXCEPT ![from][p] = AfterDraw(from, p, take),
                                          ![to][p] = arrived],
             UNCHANGED <<serialVars, expiry, created>>
      PROVE  OnlyAt(to, p)
  <2>1. Whole * q \in Nat
    BY StockConstants
  <2>2. ASSUME NEW x \in Warehouses, NEW n \in Products, NEW b \in Batches,
               batchQty'[x][n][b] > batchQty[x][n][b], ~ (x = to /\ n = p)
        PROVE  FALSE
    <3>1. CASE x = from /\ n = p
      <4>1. batchQty'[x][n] = AfterDraw(from, p, take)
        BY <1>2, <2>2, <3>1 DEF TypeOK
      <4>. QED BY <2>1, <2>2, <3>1, <4>1, DrawAppears
    <3>2. CASE ~ (x = from /\ n = p)
      <4>1. batchQty'[x][n] = batchQty[x][n] /\ batchQty[x][n][b] \in Nat
        BY <1>2, <2>2, <3>2 DEF TypeOK
      <4>. QED BY <2>2, <4>1
    <3>. QED BY <3>1, <3>2
  <2>. QED BY <1>2, <2>2 DEF OnlyAt, Appears, serialVars
<1>3. CASE UNCHANGED <<serialVars, batchVars>>
  BY <1>3, SameTrackedAppears DEF serialVars, batchVars, OnlyAt, Nowhere
<1>. QED BY <1>1, <1>2, <1>3 DEF CarryTracked

LEMMA ReleaseComponentsAppears ==
    ASSUME TypeOK, NEW w \in Warehouses, NEW p \in Products, NEW q \in Quantities,
           Assemble(w, p, q)
    PROVE  Nowhere
<1> DEFINE serialLines == {c \in Components(p) : IsSerialTracked(c)}
           batchLines == {c \in Components(p) : IsBatchTracked(c)}
<1>1. Components(p) \subseteq Products
  BY StockConstants
<1>2. PICK pick \in [serialLines -> SUBSET Serials],
           take \in [batchLines -> UNION {FefoDraws(w, c, Need(p, c, q)) : c \in batchLines}] :
        /\ \A c \in batchLines : take[c] \in FefoDraws(w, c, Need(p, c, q))
        /\ unit' = [c \in Products |->
              IF c \in serialLines THEN Place(c, pick[c], Out) ELSE unit[c]]
        /\ batchQty' = [batchQty EXCEPT ![w] = [c \in Products |->
              IF c \in batchLines THEN AfterDraw(w, c, take[c]) ELSE batchQty[w][c]]]
        /\ UNCHANGED <<received, expiry, created>>
  BY DEF Assemble, ReleaseComponents
<1>3. \A c \in batchLines : Need(p, c, q) \in Nat /\ c \in Products
  BY <1>1, LineType
<1> HIDE DEF serialLines, batchLines
<1>4. ASSUME NEW x \in Warehouses, NEW n \in Products, NEW s \in Serials,
             unit'[n][s] = x, unit[n][s] # x
      PROVE  FALSE
  <2>1. unit'[n] = IF n \in serialLines THEN Place(n, pick[n], Out) ELSE unit[n]
    BY <1>2
  <2>2. unit'[n][s] = Out \/ unit'[n][s] = unit[n][s]
    BY <2>1 DEF Place
  <2>. QED BY <1>4, <2>2, StockConstants
<1>5. ASSUME NEW x \in Warehouses, NEW n \in Products, NEW b \in Batches
      PROVE  ~ batchQty'[x][n][b] > batchQty[x][n][b]
  <2>1. CASE x = w /\ n \in batchLines
    <3>1. batchQty'[x][n] = AfterDraw(w, n, take[n])
      BY <1>2, <2>1 DEF TypeOK
    <3>. QED BY <1>2, <1>3, <2>1, <3>1, DrawAppears
  <2>2. CASE ~ (x = w /\ n \in batchLines)
    <3>1. batchQty'[x][n] = batchQty[x][n] /\ batchQty[x][n][b] \in Nat
      BY <1>2, <2>2 DEF TypeOK
    <3>. QED BY <3>1
  <2>. QED BY <2>1, <2>2
<1>. QED BY <1>4, <1>5 DEF Nowhere, Appears

LEMMA GrowsByReceipt ==
    ASSUME TypeOK, NEW w \in Warehouses, NEW p \in Products, NEW v \in Variants,
           NEW q \in Quantities, onHand' = [onHand EXCEPT ![w][p][v] = @ + q]
    PROVE  Grows(w, p)
<1>1. q \in Nat \ {0} /\ onHand[w][p][v] \in Nat
  BY StockConstants DEF TypeOK, StockRows
<1>2. onHand'[w][p][v] = onHand[w][p][v] + q
  BY DEF TypeOK, StockRows
<1>. QED BY <1>1, <1>2 DEF Grows

LEMMA GrowsByTransfer ==
    ASSUME TypeOK, NEW from \in Warehouses, NEW to \in Warehouses, from # to,
           NEW p \in Products, NEW v \in Variants, NEW q \in Quantities,
           onHand' = [onHand EXCEPT ![from][p][v] = @ - q, ![to][p][v] = @ + q]
    PROVE  Grows(to, p)
<1>1. q \in Nat \ {0} /\ onHand[to][p][v] \in Nat
  BY StockConstants DEF TypeOK, StockRows
<1>2. onHand'[to][p][v] = onHand[to][p][v] + q
  BY DEF TypeOK, StockRows
<1>. QED BY <1>1, <1>2 DEF Grows

\* Whatever operation runs: a serial unit or a batch balance appears in a
\* warehouse only when the same step raises the warehouse's on-hand quantity of
\* that product (_receive_serials, _receive_batch and the transfers of both).
THEOREM AppearancesAreCounted == Spec => NothingAppearsUncounted
<1> DEFINE Counted == \A w \in Warehouses, p \in Products : Appears(w, p) => Grows(w, p)
<1>1. TypeOK /\ [Next]_vars => [Counted]_vars
  <2> SUFFICES ASSUME TypeOK, Next PROVE Counted
    OBVIOUS
  <2>1. Nowhere => Counted
    BY DEF Nowhere
  <2>2. ASSUME NEW w \in Warehouses, NEW p \in Products, OnlyAt(w, p), Grows(w, p)
        PROVE  Counted
    BY <2>2 DEF OnlyAt
  <2> HIDE DEF Counted
  <2>3. CASE StockOperation
    <3>1. ASSUME NEW w \in Warehouses, NEW p \in Products, NEW v \in Variants,
                 NEW q \in Quantities, NEW S, NEW b, NEW d,
                 AdjustUp(w, p, v, q, S, b, d) \/ \E c : StockIn(w, p, v, q, c, S, b, d)
          PROVE  Counted
      <4>1. /\ ReceiveTracked(w, p, q, S, b, d)
            /\ onHand' = [onHand EXCEPT ![w][p][v] = @ + q]
        BY <3>1 DEF AdjustUp, StockIn
      <4>. QED BY <2>2, <4>1, ReceiveAppears, GrowsByReceipt
    <3>2. ASSUME NEW w \in Warehouses, NEW p \in Products, NEW v \in Variants,
                 NEW q \in Quantities, NEW S,
                 StockOut(w, p, v, q, S) \/ AdjustDown(w, p, v, q, S)
          PROVE  Counted
      BY <2>1, <3>2, ReleaseAppears DEF StockOut, AdjustDown
    <3>3. ASSUME NEW from \in Warehouses, NEW to \in Warehouses, NEW p \in Products,
                 NEW v \in Variants, NEW q \in Quantities, NEW S,
                 Transfer(from, to, p, v, q, S)
          PROVE  Counted
      <4>1. /\ from # to /\ CarryTracked(from, to, p, q, S)
            /\ onHand' = [onHand EXCEPT ![from][p][v] = @ - q, ![to][p][v] = @ + q]
        BY <3>3 DEF Transfer
      <4>. QED BY <2>2, <4>1, CarryAppears, GrowsByTransfer
    <3>4. PICK w \in Warehouses, p \in Products, v \in Variants, q \in Quantities :
             \/ \E S \in SUBSET Serials, b \in Batches, d \in Dates \cup {NoDate} :
                   \/ \E c \in Costs : StockIn(w, p, v, q, c, S, b, d)
                   \/ AdjustUp(w, p, v, q, S, b, d)
             \/ \E S \in SUBSET Serials :
                   \/ StockOut(w, p, v, q, S)
                   \/ AdjustDown(w, p, v, q, S)
                   \/ \E to \in Warehouses : Transfer(w, to, p, v, q, S)
             \/ Assemble(w, p, q)
      BY <2>3 DEF StockOperation
    <3>. QED BY <2>1, <3>1, <3>2, <3>3, <3>4, ReleaseComponentsAppears
  <2>4. CASE \/ \E w \in Warehouses, p \in Products, v \in Variants : MarkRead(w, p, v)
             \/ \E p \in Products, mode \in Modes : Retrack(p, mode)
             \/ \E p \in Products, v \in Variants : DeleteVariant(p, v)
    BY <2>1, <2>4, SameTrackedAppears
       DEF MarkRead, Retrack, DeleteVariant, serialVars, batchVars
  <2>. QED BY <2>3, <2>4 DEF Next
<1>2. Spec => [][Counted]_vars
  BY <1>1, TypeCorrect, PTL DEF Spec
<1>. QED BY <1>2 DEF NothingAppearsUncounted, Appears, Grows

----------------------------------------------------------------------------
(* The unit rows mirror the on-hand quantities while tracking is kept.     *)

\* Deleting a variant without stock changes no on-hand quantity.
LEMMA EmptyVariantDeleted ==
    ASSUME TypeOK, NEW p \in Products, NEW v \in Variants, DeleteVariant(p, v),
           ~ StockDropped
    PROVE  onHand' = onHand
<1>1. \A w \in Warehouses : onHand[w][p][v] \in Nat /\ ~ onHand[w][p][v] > 0
  BY DEF StockDropped, TypeOK, StockRows
<1>2. \A w \in Warehouses : [onHand[w] EXCEPT ![p][v] = 0] = onHand[w]
  <2> SUFFICES ASSUME NEW w \in Warehouses PROVE [onHand[w] EXCEPT ![p][v] = 0] = onHand[w]
    OBVIOUS
  <2>1. onHand[w][p][v] = 0
    BY <1>1
  <2>2. onHand[w] \in [Products -> [Variants -> Nat]]
    BY DEF TypeOK, StockRows
  <2>. QED BY <2>1, <2>2
<1>. QED BY <1>2 DEF DeleteVariant, WithoutVariant, TypeOK, StockRows

LEMMA OnHandNat ==
    ASSUME TypeOK, NEW w \in Warehouses, NEW p \in Products
    PROVE  OnHandOf(w, p) \in Nat
<1>1. \A v \in Variants : onHand[w][p][v] \in Nat
  BY DEF TypeOK, StockRows
<1>. QED BY <1>1, SumNat, StockConstants DEF OnHandOf

\* The on-hand quantity of a product follows the one stock row that changes.
LEMMA OnHandMoves ==
    ASSUME TypeOK, TypeOK', NEW w \in Warehouses, NEW p \in Products, NEW m \in Variants,
           \A v \in Variants \ {m} : onHand'[w][p][v] = onHand[w][p][v]
    PROVE  OnHandOf(w, p)' = OnHandOf(w, p) + onHand'[w][p][m] - onHand[w][p][m]
<1> DEFINE f == onHand[w][p]
           g == onHand'[w][p]
<1>1. \A v \in Variants : f[v] \in Int /\ g[v] \in Int
  BY DEF TypeOK, StockRows
<1>2. \A v \in Variants \ {m} : g[v] = f[v]
  OBVIOUS
<1>3. IsFiniteSet(Variants)
  BY StockConstants
<1> HIDE DEF f, g
<1>4. SumFunctionOnSet(g, Variants) = SumFunctionOnSet(f, Variants) + g[m] - f[m]
  BY <1>1, <1>2, <1>3, SumChange
<1>. QED BY <1>4 DEF f, g, OnHandOf

LEMMA OnHandStays ==
    ASSUME NEW w \in Warehouses, NEW p \in Products, onHand'[w][p] = onHand[w][p]
    PROVE  OnHandOf(w, p)' = OnHandOf(w, p)
BY DEF OnHandOf

\* Every stock row but those of (w, p) keeps its quantity.
LEMMA OneRowMoves ==
    ASSUME TypeOK, TypeOK', NEW w \in Warehouses, NEW p \in Products, NEW v \in Variants,
           \A u \in Variants \ {v} : onHand'[w][p][u] = onHand[w][p][u],
           \A x \in Warehouses, n \in Products :
              ~ (x = w /\ n = p) => onHand'[x][n] = onHand[x][n]
    PROVE  /\ OnHandOf(w, p)' = OnHandOf(w, p) + onHand'[w][p][v] - onHand[w][p][v]
           /\ \A x \in Warehouses, n \in Products :
                 ~ (x = w /\ n = p) => OnHandOf(x, n)' = OnHandOf(x, n)
BY OnHandMoves, OnHandStays

LEMMA RowOfReceipt ==
    ASSUME TypeOK, TypeOK', NEW w \in Warehouses, NEW p \in Products, NEW v \in Variants,
           NEW q \in Quantities, onHand' = [onHand EXCEPT ![w][p][v] = @ + q]
    PROVE  /\ OnHandOf(w, p)' = OnHandOf(w, p) + q
           /\ \A x \in Warehouses, n \in Products :
                 ~ (x = w /\ n = p) => OnHandOf(x, n)' = OnHandOf(x, n)
<1>0. q \in Nat /\ onHand[w][p][v] \in Nat /\ OnHandOf(w, p) \in Nat
  BY StockConstants, OnHandNat DEF TypeOK, StockRows
<1>1. onHand'[w][p][v] = onHand[w][p][v] + q
  BY DEF TypeOK, StockRows
<1>2. \A u \in Variants \ {v} : onHand'[w][p][u] = onHand[w][p][u]
  BY DEF TypeOK, StockRows
<1>3. \A x \in Warehouses, n \in Products :
         ~ (x = w /\ n = p) => onHand'[x][n] = onHand[x][n]
  BY DEF TypeOK, StockRows
<1>4. /\ OnHandOf(w, p)' = OnHandOf(w, p) + onHand'[w][p][v] - onHand[w][p][v]
      /\ \A x \in Warehouses, n \in Products :
            ~ (x = w /\ n = p) => OnHandOf(x, n)' = OnHandOf(x, n)
  BY <1>2, <1>3, OneRowMoves
<1>5. OnHandOf(w, p)' = OnHandOf(w, p) + q
  BY <1>0, <1>1, <1>4
<1>. QED BY <1>4, <1>5

LEMMA RowOfRelease ==
    ASSUME TypeOK, TypeOK', NEW w \in Warehouses, NEW p \in Products, NEW v \in Variants,
           NEW q \in Quantities, onHand' = [onHand EXCEPT ![w][p][v] = @ - q]
    PROVE  /\ OnHandOf(w, p)' = OnHandOf(w, p) - q
           /\ \A x \in Warehouses, n \in Products :
                 ~ (x = w /\ n = p) => OnHandOf(x, n)' = OnHandOf(x, n)
<1>0. q \in Nat /\ onHand[w][p][v] \in Nat /\ OnHandOf(w, p) \in Nat
  BY StockConstants, OnHandNat DEF TypeOK, StockRows
<1>1. onHand'[w][p][v] = onHand[w][p][v] - q
  BY DEF TypeOK, StockRows
<1>2. \A u \in Variants \ {v} : onHand'[w][p][u] = onHand[w][p][u]
  BY DEF TypeOK, StockRows
<1>3. \A x \in Warehouses, n \in Products :
         ~ (x = w /\ n = p) => onHand'[x][n] = onHand[x][n]
  BY DEF TypeOK, StockRows
<1>4. /\ OnHandOf(w, p)' = OnHandOf(w, p) + onHand'[w][p][v] - onHand[w][p][v]
      /\ \A x \in Warehouses, n \in Products :
            ~ (x = w /\ n = p) => OnHandOf(x, n)' = OnHandOf(x, n)
  BY <1>2, <1>3, OneRowMoves
<1>5. OnHandOf(w, p)' = OnHandOf(w, p) - q
  BY <1>0, <1>1, <1>4
<1>. QED BY <1>4, <1>5

LEMMA RowOfTransfer ==
    ASSUME TypeOK, TypeOK', NEW from \in Warehouses, NEW to \in Warehouses, from # to,
           NEW p \in Products, NEW v \in Variants, NEW q \in Nat,
           onHand' = [onHand EXCEPT ![from][p][v] = @ - q, ![to][p][v] = @ + q]
    PROVE  /\ OnHandOf(from, p)' = OnHandOf(from, p) - q
           /\ OnHandOf(to, p)' = OnHandOf(to, p) + q
           /\ \A x \in Warehouses, n \in Products :
                 n # p \/ x \notin {from, to} => OnHandOf(x, n)' = OnHandOf(x, n)
<1>1. /\ onHand[from][p][v] \in Int /\ onHand[to][p][v] \in Int
      /\ onHand'[from][p][v] = onHand[from][p][v] - q
      /\ onHand'[to][p][v] = onHand[to][p][v] + q
  BY DEF TypeOK, StockRows
<1>2. /\ \A u \in Variants \ {v} : onHand'[from][p][u] = onHand[from][p][u]
      /\ \A u \in Variants \ {v} : onHand'[to][p][u] = onHand[to][p][u]
  BY DEF TypeOK, StockRows
<1>3. \A x \in Warehouses, n \in Products :
         n # p \/ x \notin {from, to} => onHand'[x][n] = onHand[x][n]
  BY ZenonT(60) DEF TypeOK, StockRows
<1>4. OnHandOf(from, p)' = OnHandOf(from, p) + onHand'[from][p][v] - onHand[from][p][v]
  BY <1>2, OnHandMoves
<1>5. OnHandOf(to, p)' = OnHandOf(to, p) + onHand'[to][p][v] - onHand[to][p][v]
  BY <1>2, OnHandMoves
<1>6. OnHandOf(from, p) \in Int /\ OnHandOf(to, p) \in Int
  BY OnHandNat
<1>7. OnHandOf(from, p)' = OnHandOf(from, p) - q
  BY <1>1, <1>4, <1>6
<1>8. OnHandOf(to, p)' = OnHandOf(to, p) + q
  BY <1>1, <1>5, <1>6
<1>9. \A x \in Warehouses, n \in Products :
         n # p \/ x \notin {from, to} => OnHandOf(x, n)' = OnHandOf(x, n)
  BY <1>3, OnHandStays
<1>. QED BY <1>7, <1>8, <1>9

LEMMA UnitsFinite ==
    ASSUME NEW w, NEW p
    PROVE  IsFiniteSet(UnitsAt(w, p)) /\ Cardinality(UnitsAt(w, p)) \in Nat
<1>1. UnitsAt(w, p) \in SUBSET Serials
  BY DEF UnitsAt
<1>. QED BY <1>1, StockConstants, FS_Subset, FS_CardinalityType

LEMMA CountJoined ==
    ASSUME NEW A, NEW B, IsFiniteSet(A), IsFiniteSet(B), A \cap B = {}
    PROVE  Cardinality(A \cup B) = Cardinality(A) + Cardinality(B)
<1>1. Cardinality(A \cap B) = 0
  BY FS_EmptySet
<1>2. Cardinality(A) \in Nat /\ Cardinality(B) \in Nat
  BY FS_CardinalityType
<1>3. Cardinality(A \cup B) = Cardinality(A) + Cardinality(B) - Cardinality(A \cap B)
  BY FS_Union
<1>. QED BY <1>1, <1>2, <1>3

LEMMA CountLeft ==
    ASSUME NEW A, NEW B, IsFiniteSet(A), B \subseteq A
    PROVE  Cardinality(A \ B) = Cardinality(A) - Cardinality(B)
<1> DEFINE C == A \ B
<1>1. IsFiniteSet(B) /\ IsFiniteSet(C)
  BY FS_Subset
<1>2. C \cap B = {} /\ C \cup B = A
  OBVIOUS
<1> HIDE DEF C
<1>3. Cardinality(A) = Cardinality(C) + Cardinality(B)
  BY <1>1, <1>2, CountJoined
<1>4. Cardinality(C) \in Nat /\ Cardinality(B) \in Nat
  BY <1>1, FS_CardinalityType
<1>5. Cardinality(C) = Cardinality(A) - Cardinality(B)
  BY <1>3, <1>4
<1>. QED BY <1>5 DEF C

\* Units placed where none of them was join the units there; elsewhere they leave.
LEMMA PlacedUnits ==
    ASSUME TypeOK, NEW p \in Products, NEW S \in SUBSET Serials, NEW place,
           unit' = [unit EXCEPT ![p] = Place(p, S, place)], NEW w
    PROVE  UnitsAt(w, p)' = IF w = place THEN UnitsAt(w, p) \cup S ELSE UnitsAt(w, p) \ S
<1>1. ASSUME NEW s \in Serials
      PROVE  unit'[p][s] = IF s \in S THEN place ELSE unit[p][s]
  BY DEF TypeOK, Place
<1>. QED BY <1>1 DEF UnitsAt

LEMMA OtherUnits ==
    ASSUME NEW w, NEW p, unit'[p] = unit[p] PROVE UnitsAt(w, p)' = UnitsAt(w, p)
BY DEF UnitsAt

\* The mirror of one product in one warehouse.
SerialMirror(w, p) == Cardinality(UnitsAt(w, p)) * Whole = OnHandOf(w, p)

LEMMA MirrorStays ==
    ASSUME NEW w \in Warehouses, NEW p \in Products, SerialMirror(w, p),
           unit'[p] = unit[p], OnHandOf(w, p)' = OnHandOf(w, p)
    PROVE  SerialMirror(w, p)'
<1>1. UnitsAt(w, p)' = UnitsAt(w, p)
  BY OtherUnits
<1>. QED BY <1>1 DEF SerialMirror

LEMMA MirrorGains ==
    ASSUME TypeOK, NEW w \in Warehouses, NEW p \in Products, SerialMirror(w, p),
           NEW S \in SUBSET Serials, S \cap UnitsAt(w, p) = {},
           unit' = [unit EXCEPT ![p] = Place(p, S, w)],
           OnHandOf(w, p)' = OnHandOf(w, p) + Cardinality(S) * Whole
    PROVE  SerialMirror(w, p)'
<1>1. UnitsAt(w, p)' = UnitsAt(w, p) \cup S
  BY PlacedUnits
<1>2. IsFiniteSet(S) /\ Cardinality(S) \in Nat
  BY StockConstants, FS_Subset, FS_CardinalityType
<1>3. IsFiniteSet(UnitsAt(w, p)) /\ Cardinality(UnitsAt(w, p)) \in Nat
  BY UnitsFinite
<1>4. Cardinality(UnitsAt(w, p) \cup S) = Cardinality(UnitsAt(w, p)) + Cardinality(S)
  BY <1>2, <1>3, CountJoined
<1>5. Cardinality(UnitsAt(w, p)') = Cardinality(UnitsAt(w, p)) + Cardinality(S)
  BY <1>1, <1>4
<1>6. Whole \in Nat
  BY StockConstants
<1>7. Cardinality(UnitsAt(w, p)') * Whole
        = Cardinality(UnitsAt(w, p)) * Whole + Cardinality(S) * Whole
  BY <1>2, <1>3, <1>5, <1>6
<1>. QED BY <1>7 DEF SerialMirror

LEMMA MirrorLoses ==
    ASSUME TypeOK, NEW w \in Warehouses, NEW p \in Products, SerialMirror(w, p),
           NEW S \in SUBSET UnitsAt(w, p), NEW place, w # place,
           unit'[p] = Place(p, S, place),
           OnHandOf(w, p)' = OnHandOf(w, p) - Cardinality(S) * Whole
    PROVE  SerialMirror(w, p)'
<1>1. UnitsAt(w, p)' = UnitsAt(w, p) \ S
  BY DEF UnitsAt, Place
<1>2. IsFiniteSet(UnitsAt(w, p)) /\ Cardinality(UnitsAt(w, p)) \in Nat
  BY UnitsFinite
<1>3. Cardinality(S) \in Nat
  BY <1>2, FS_Subset, FS_CardinalityType
<1>4. Cardinality(UnitsAt(w, p) \ S) = Cardinality(UnitsAt(w, p)) - Cardinality(S)
  BY <1>2, CountLeft
<1>5. Cardinality(UnitsAt(w, p)') = Cardinality(UnitsAt(w, p)) - Cardinality(S)
  BY <1>1, <1>4
<1>6. Whole \in Nat
  BY StockConstants
<1>7. Cardinality(UnitsAt(w, p)') * Whole
        = Cardinality(UnitsAt(w, p)) * Whole - Cardinality(S) * Whole
  BY <1>2, <1>3, <1>5, <1>6
<1>. QED BY <1>7 DEF SerialMirror

\* A warehouse that neither gave nor took the units keeps its mirror.
LEMMA MirrorElsewhere ==
    ASSUME TypeOK, NEW p \in Products, NEW from, NEW S \in SUBSET UnitsAt(from, p),
           NEW place, unit' = [unit EXCEPT ![p] = Place(p, S, place)],
           NEW x \in Warehouses, x # from, x # place, SerialMirror(x, p),
           OnHandOf(x, p)' = OnHandOf(x, p)
    PROVE  SerialMirror(x, p)'
<1>1. S \in SUBSET Serials /\ UnitsAt(x, p) \ S = UnitsAt(x, p)
  BY DEF UnitsAt
<1>2. UnitsAt(x, p)' = UnitsAt(x, p)
  BY <1>1, PlacedUnits
<1>. QED BY <1>2 DEF SerialMirror

\* Enough units are picked for what is taken.
LEMMA PicksCount ==
    ASSUME NEW w, NEW p, NEW need, NEW explicit,
           NEW S \in SerialPicks(w, p, need, explicit)
    PROVE  /\ S \in SUBSET UnitsAt(w, p)
           /\ Cardinality(S) \in Nat
           /\ (Cardinality(S) * Whole) * Whole = need
<1>1. S \in SUBSET UnitsAt(w, p) /\ Cardinality(S) * Whole * Whole = need
  BY DEF SerialPicks
<1>. QED BY <1>1, UnitsFinite, FS_Subset, FS_CardinalityType

LEMMA TimesCancels ==
    ASSUME NEW k \in Nat \ {0}, NEW m \in Nat, NEW n \in Nat, m * k = k * n PROVE m = n
<1>1. CASE m > n
  <2>1. n + 1 <= m /\ n + 1 \in Nat
    BY <1>1
  <2>2. k * (n + 1) <= k * m
    BY <2>1, TimesMonotone
  <2>. QED BY <2>2
<1>2. CASE n > m
  <2>1. m + 1 <= n /\ m + 1 \in Nat
    BY <1>2
  <2>2. k * (m + 1) <= k * n
    BY <2>1, TimesMonotone
  <2>. QED BY <2>2
<1>. QED BY <1>1, <1>2

LEMMA PicksForQuantity ==
    ASSUME NEW w, NEW p, NEW q \in Quantities, NEW explicit,
           NEW S \in SerialPicks(w, p, Whole * q, explicit)
    PROVE  S \in SUBSET UnitsAt(w, p) /\ Cardinality(S) * Whole = q
<1>1. /\ S \in SUBSET UnitsAt(w, p) /\ Cardinality(S) \in Nat
      /\ (Cardinality(S) * Whole) * Whole = Whole * q
  BY PicksCount
<1>2. Whole \in Nat \ {0} /\ q \in Nat
  BY StockConstants
<1>3. Cardinality(S) * Whole \in Nat
  BY <1>1, <1>2
<1>. QED BY <1>1, <1>2, <1>3, TimesCancels

\* What a step has to keep for the products tracked by serial number.
SerialRows == \A w \in Warehouses, p \in Products : IsSerialTracked(p) => SerialMirror(w, p)

LEMMA SerialRowsIsMirror == SerialRows <=> SerialsMirrorOnHand
BY DEF SerialRows, SerialMirror, SerialsMirrorOnHand

LEMMA ReceiveMirrors ==
    ASSUME TypeOK, TypeOK', SerialRows, tracking' = tracking,
           NEW w \in Warehouses, NEW p \in Products, NEW v \in Variants,
           NEW q \in Quantities, NEW S \in SUBSET Serials, NEW b, NEW d,
           ReceiveTracked(w, p, q, S, b, d), onHand' = [onHand EXCEPT ![w][p][v] = @ + q]
    PROVE  SerialRows'
<1>1. /\ OnHandOf(w, p)' = OnHandOf(w, p) + q
      /\ \A x \in Warehouses, n \in Products :
            ~ (x = w /\ n = p) => OnHandOf(x, n)' = OnHandOf(x, n)
  BY RowOfReceipt
<1>2. \A n \in Products : n # p => unit'[n] = unit[n]
  BY DEF ReceiveTracked, ReceiveSerials, serialVars, TypeOK
<1>3. ASSUME NEW x \in Warehouses, NEW n \in Products, IsSerialTracked(n)'
      PROVE  SerialMirror(x, n)'
  <2>1. IsSerialTracked(n) /\ SerialMirror(x, n)
    BY <1>3 DEF IsSerialTracked, SerialRows
  <2>2. CASE n # p
    BY <1>1, <1>2, <2>1, <2>2, MirrorStays
  <2>3. CASE n = p
    <3>1. ReceiveSerials(w, p, q, S)
      BY <2>1, <2>3 DEF ReceiveTracked, IsBatchTracked, IsSerialTracked
    <3>2. /\ Cardinality(S) * Whole = q /\ \A s \in S : unit[p][s] = Unrecorded
          /\ unit' = [unit EXCEPT ![p] = Place(p, S, w)]
      BY <3>1 DEF ReceiveSerials, NewNumbers
    <3>3. S \cap UnitsAt(w, p) = {}
      BY <3>2, StockConstants DEF UnitsAt
    <3>4. CASE x = w
      BY <1>1, <2>1, <2>3, <3>2, <3>3, <3>4, MirrorGains
    <3>5. CASE x # w
      <4>1. S \in SUBSET UnitsAt(Unrecorded, p) /\ x # Unrecorded
        BY <3>2, StockConstants DEF UnitsAt
      <4>2. OnHandOf(x, p)' = OnHandOf(x, p) /\ SerialMirror(x, p)
        BY <1>1, <2>1, <2>3, <3>5
      <4>3. SerialMirror(x, p)'
        BY <3>2, <3>5, <4>1, <4>2, MirrorElsewhere
      <4>. QED BY <2>3, <4>3
    <3>. QED BY <3>4, <3>5
  <2>. QED BY <2>2, <2>3
<1>. QED BY <1>3 DEF SerialRows

LEMMA ReleaseMirrors ==
    ASSUME TypeOK, TypeOK', SerialRows, tracking' = tracking,
           NEW w \in Warehouses, NEW p \in Products, NEW v \in Variants,
           NEW q \in Quantities, NEW explicit, ReleaseTracked(w, p, q, explicit),
           onHand' = [onHand EXCEPT ![w][p][v] = @ - q]
    PROVE  SerialRows'
<1>1. /\ OnHandOf(w, p)' = OnHandOf(w, p) - q
      /\ \A x \in Warehouses, n \in Products :
            ~ (x = w /\ n = p) => OnHandOf(x, n)' = OnHandOf(x, n)
  BY RowOfRelease
<1>2. \A n \in Products : n # p => unit'[n] = unit[n]
  BY DEF ReleaseTracked, serialVars, TypeOK
<1>3. ASSUME NEW x \in Warehouses, NEW n \in Products, IsSerialTracked(n)'
      PROVE  SerialMirror(x, n)'
  <2>1. IsSerialTracked(n) /\ SerialMirror(x, n)
    BY <1>3 DEF IsSerialTracked, SerialRows
  <2>2. CASE n # p
    BY <1>1, <1>2, <2>1, <2>2, MirrorStays
  <2>3. CASE n = p
    <3>1. PICK S \in SerialPicks(w, p, Whole * q, explicit) :
              unit' = [unit EXCEPT ![p] = Place(p, S, Out)]
      BY <2>1, <2>3 DEF ReleaseTracked, IsBatchTracked, IsSerialTracked
    <3>2. S \in SUBSET UnitsAt(w, p) /\ Cardinality(S) * Whole = q
      BY PicksForQuantity
    <3>3. x # Out /\ w # Out
      BY StockConstants
    <3>4. CASE x = w
      <4>1. unit'[p] = Place(p, S, Out)
        BY <3>1 DEF TypeOK
      <4>. QED BY <1>1, <2>1, <2>3, <3>2, <3>3, <3>4, <4>1, MirrorLoses
    <3>5. CASE x # w
      <4>1. OnHandOf(x, p)' = OnHandOf(x, p) /\ SerialMirror(x, p)
        BY <1>1, <2>1, <2>3, <3>5
      <4>2. SerialMirror(x, p)'
        BY <3>1, <3>2, <3>3, <3>5, <4>1, MirrorElsewhere
      <4>. QED BY <2>3, <4>2
    <3>. QED BY <3>4, <3>5
  <2>. QED BY <2>2, <2>3
<1>. QED BY <1>3 DEF SerialRows

LEMMA TransferMirrors ==
    ASSUME TypeOK, TypeOK', SerialRows, NEW from \in Warehouses, NEW to \in Warehouses,
           NEW p \in Products, NEW v \in Variants, NEW q \in Quantities, NEW explicit,
           Transfer(from, to, p, v, q, explicit)
    PROVE  SerialRows'
<1>0. q \in Nat /\ from # to /\ tracking' = tracking /\ CarryTracked(from, to, p, q, explicit)
  BY StockConstants DEF Transfer
<1>1. /\ OnHandOf(from, p)' = OnHandOf(from, p) - q
      /\ OnHandOf(to, p)' = OnHandOf(to, p) + q
      /\ \A x \in Warehouses, n \in Products :
            n # p \/ x \notin {from, to} => OnHandOf(x, n)' = OnHandOf(x, n)
  BY <1>0, RowOfTransfer DEF Transfer
<1>2. \A n \in Products : n # p => unit'[n] = unit[n]
  BY <1>0 DEF CarryTracked, serialVars, TypeOK
<1>3. ASSUME NEW x \in Warehouses, NEW n \in Products, IsSerialTracked(n)'
      PROVE  SerialMirror(x, n)'
  <2>1. IsSerialTracked(n) /\ SerialMirror(x, n)
    BY <1>0, <1>3 DEF IsSerialTracked, SerialRows
  <2>2. CASE n # p
    BY <1>1, <1>2, <2>1, <2>2, MirrorStays
  <2>3. CASE n = p
    <3>1. PICK S \in SerialPicks(from, p, Whole * q, explicit) :
              unit' = [unit EXCEPT ![p] = Place(p, S, to)]
      BY <1>0, <2>1, <2>3 DEF CarryTracked, IsBatchTracked, IsSerialTracked
    <3>2. S \in SUBSET UnitsAt(from, p) /\ Cardinality(S) * Whole = q
      BY PicksForQuantity
    <3>3. S \in SUBSET Serials /\ S \cap UnitsAt(to, p) = {}
      BY <1>0, <3>2 DEF UnitsAt
    <3>4. CASE x = from
      <4>1. unit'[p] = Place(p, S, to)
        BY <3>1 DEF TypeOK
      <4>. QED BY <1>0, <1>1, <2>1, <2>3, <3>2, <3>4, <4>1, MirrorLoses
    <3>5. CASE x = to
      BY <1>1, <2>1, <2>3, <3>1, <3>2, <3>3, <3>5, MirrorGains
    <3>6. CASE x # from /\ x # to
      <4>1. OnHandOf(x, p)' = OnHandOf(x, p) /\ SerialMirror(x, p)
        BY <1>1, <2>1, <2>3, <3>6
      <4>2. SerialMirror(x, p)'
        BY <3>1, <3>2, <3>6, <4>1, MirrorElsewhere
      <4>. QED BY <2>3, <4>2
    <3>. QED BY <3>4, <3>5, <3>6
  <2>. QED BY <2>2, <2>3
<1>. QED BY <1>3 DEF SerialRows

\* What an assembly does to the stock row of one product.
LEMMA AssembleRows ==
    ASSUME TypeOK, NEW w \in Warehouses, NEW p \in Products, NEW q \in Quantities,
           Assemble(w, p, q), NEW x \in Warehouses, NEW n \in Products
    PROVE  /\ \A v \in Variants \ {NoVariant} : onHand'[x][n][v] = onHand[x][n][v]
           /\ ~ (x = w /\ n \in Components(p) \cup {p}) => onHand'[x][n] = onHand[x][n]
           /\ n = p => onHand'[w][p][NoVariant] = onHand[w][p][NoVariant] + q
           /\ n \in Components(p) => onHand'[w][n][NoVariant]
                                       = RoundedRatio(LeftAfterLine(w, p, n, q), Whole)
<1> DEFINE left == [c \in Components(p) |-> RoundedRatio(LeftAfterLine(w, p, c, q), Whole)]
           bundle == onHand[w][p][NoVariant] + q
<1>1. onHand' = Assembled(onHand, w, p, bundle, left)
  BY DEF Assemble
<1>2. NoVariant \in Variants /\ p \notin Components(p)
  BY StockConstants
<1>3. n \in Components(p) => left[n] = RoundedRatio(LeftAfterLine(w, p, n, q), Whole)
  OBVIOUS
<1> HIDE DEF left, bundle
<1>4. onHand'[w][n] = [v \in Variants |->
        IF v # NoVariant THEN onHand[w][n][v]
        ELSE IF n = p THEN bundle
        ELSE IF n \in Components(p) THEN left[n]
        ELSE onHand[w][n][v]]
  BY <1>1 DEF Assembled, TypeOK, StockRows
<1>5. onHand[w][n] \in [Variants -> Nat]
  BY DEF TypeOK, StockRows
<1>6. x # w => onHand'[x][n] = onHand[x][n]
  BY <1>1 DEF Assembled, TypeOK, StockRows
<1>7. n \notin Components(p) \cup {p} => onHand'[w][n] = onHand[w][n]
  BY <1>4, <1>5
<1>. QED BY <1>2, <1>3, <1>4, <1>6, <1>7 DEF bundle

LEMMA AssembleMirrors ==
    ASSUME TypeOK, TypeOK', SerialRows, NEW w \in Warehouses, NEW p \in Products,
           NEW q \in Quantities, Assemble(w, p, q)
    PROVE  SerialRows'
<1> DEFINE serialLines == {c \in Components(p) : IsSerialTracked(c)}
<1>0. /\ tracking' = tracking /\ ~ IsSerialTracked(p) /\ Whole \in Nat \ {0}
      /\ NoVariant \in Variants /\ Components(p) \subseteq Products
  BY StockConstants DEF Assemble
<1>1. PICK pick \in [serialLines -> SUBSET Serials] :
        /\ \A c \in serialLines : pick[c] \in SerialPicks(w, c, Need(p, c, q), {})
        /\ unit' = [c \in Products |->
              IF c \in serialLines THEN Place(c, pick[c], Out) ELSE unit[c]]
  BY DEF Assemble, ReleaseComponents
<1>2. ASSUME NEW x \in Warehouses, NEW n \in Products, IsSerialTracked(n)'
      PROVE  SerialMirror(x, n)'
  <2>1. IsSerialTracked(n) /\ SerialMirror(x, n) /\ n # p
    BY <1>0, <1>2 DEF IsSerialTracked, SerialRows
  <2>2. CASE n \notin Components(p)
    <3>1. unit'[n] = unit[n] /\ onHand'[x][n] = onHand[x][n]
      BY <1>1, <2>1, <2>2, AssembleRows
    <3>. QED BY <2>1, <3>1, MirrorStays, OnHandStays
  <2>3. CASE n \in Components(p)
    <3>1. n \in serialLines /\ unit'[n] = Place(n, pick[n], Out)
      BY <1>1, <2>1, <2>3
    <3>2. pick[n] \in SerialPicks(w, n, Need(p, n, q), {})
      BY <1>1, <3>1
    <3> DEFINE S == pick[n]
    <3>3. /\ S \in SUBSET UnitsAt(w, n) /\ Cardinality(S) \in Nat
          /\ (Cardinality(S) * Whole) * Whole = Need(p, n, q)
      BY <3>2, PicksCount
    <3>4. unit'[n] = Place(n, S, Out) /\ x # Out /\ w # Out
      BY <3>1, StockConstants
    <3> HIDE DEF S
    <3>5. CASE x = w
      <4> DEFINE had == onHand[w][n][NoVariant]
                 gone == Cardinality(S) * Whole
      <4>1. had \in Nat /\ gone \in Nat /\ Need(p, n, q) = Whole * gone
        BY <1>0, <3>3 DEF TypeOK, StockRows
      <4>2. Need(p, n, q) <= Whole * had
        BY <2>3 DEF Assemble
      <4>3. LeftAfterLine(w, p, n, q) = Whole * had - Whole * gone
        BY <4>1 DEF LeftAfterLine
      <4>4. /\ onHand'[w][n][NoVariant] = RoundedRatio(LeftAfterLine(w, p, n, q), Whole)
            /\ \A v \in Variants \ {NoVariant} : onHand'[w][n][v] = onHand[w][n][v]
        BY <2>3, AssembleRows
      <4>5. OnHandOf(w, n)' = OnHandOf(w, n) + onHand'[w][n][NoVariant] - onHand[w][n][NoVariant]
        BY <1>0, <4>4, OnHandMoves
      <4>6. OnHandOf(w, n) \in Nat
        BY OnHandNat
      <4>7. onHand[w][n][NoVariant] = had
        OBVIOUS
      <4> HIDE DEF had, gone
      <4>8. had - gone \in Nat
        <5>1. CASE gone > had
          <6>1. had + 1 <= gone /\ had + 1 \in Nat
            BY <4>1, <5>1
          <6>2. Whole * (had + 1) <= Whole * gone /\ Whole * (had + 1) = Whole * had + Whole
            BY <1>0, <4>1, <6>1, TimesMonotone
          <6>3. Whole * had \in Nat /\ Whole * gone \in Nat
            BY <1>0, <4>1
          <6>. QED BY <1>0, <4>1, <4>2, <6>2, <6>3
        <5>. QED BY <4>1, <5>1
      <4>9. Whole * had - Whole * gone = Whole * (had - gone)
        BY <1>0, <4>1, <4>8
      <4>10. onHand'[w][n][NoVariant] = had - gone
        BY <1>0, <4>3, <4>4, <4>8, <4>9, RoundedRatioExact
      <4>11. OnHandOf(w, n)' = OnHandOf(w, n) - gone
        BY <4>1, <4>5, <4>6, <4>7, <4>10
      <4>. QED BY <2>1, <3>3, <3>4, <3>5, <4>11, MirrorLoses DEF gone
    <3>6. CASE x # w
      <4>1. OnHandOf(x, n)' = OnHandOf(x, n)
        BY <3>6, AssembleRows, OnHandStays
      <4>2. UnitsAt(x, n)' = UnitsAt(x, n)
        BY <3>3, <3>4, <3>6 DEF UnitsAt, Place
      <4>. QED BY <2>1, <4>1, <4>2 DEF SerialMirror
    <3>. QED BY <3>5, <3>6
  <2>. QED BY <2>2, <2>3
<1>. QED BY <1>2 DEF SerialRows

\* Every behaviour of the instance is one of the stock ledger.
LEMMA InstanceOfSpec == MCSpec => Spec
<1>1. [MCNext]_<<vars, reshaped>> => [Next]_vars
  BY DEF MCNext
<1>2. MCInit => Init
  BY DEF MCInit
<1>. QED BY <1>1, <1>2, PTL DEF MCSpec, Spec

LEMMA StockKeepsSerialRows ==
    ASSUME TypeOK, TypeOK', SerialRows, Next, tracking' = tracking, ~ StockDropped
    PROVE  SerialRows'
<1>1. CASE StockOperation
  <2>1. ASSUME NEW w \in Warehouses, NEW p \in Products, NEW v \in Variants,
               NEW q \in Quantities, NEW S \in SUBSET Serials, NEW b, NEW d,
               AdjustUp(w, p, v, q, S, b, d) \/ \E c : StockIn(w, p, v, q, c, S, b, d)
        PROVE  SerialRows'
    <3>1. /\ ReceiveTracked(w, p, q, S, b, d)
          /\ onHand' = [onHand EXCEPT ![w][p][v] = @ + q]
      BY <2>1 DEF AdjustUp, StockIn
    <3>. QED BY <3>1, ReceiveMirrors
  <2>2. ASSUME NEW w \in Warehouses, NEW p \in Products, NEW v \in Variants,
               NEW q \in Quantities, NEW S,
               StockOut(w, p, v, q, S) \/ AdjustDown(w, p, v, q, S)
        PROVE  SerialRows'
    <3>1. /\ ReleaseTracked(w, p, q, S)
          /\ onHand' = [onHand EXCEPT ![w][p][v] = @ - q]
      BY <2>2 DEF StockOut, AdjustDown
    <3>. QED BY <3>1, ReleaseMirrors
  <2>3. PICK w \in Warehouses, p \in Products, v \in Variants, q \in Quantities :
           \/ \E S \in SUBSET Serials, b \in Batches, d \in Dates \cup {NoDate} :
                 \/ \E c \in Costs : StockIn(w, p, v, q, c, S, b, d)
                 \/ AdjustUp(w, p, v, q, S, b, d)
           \/ \E S \in SUBSET Serials :
                 \/ StockOut(w, p, v, q, S)
                 \/ AdjustDown(w, p, v, q, S)
                 \/ \E to \in Warehouses : Transfer(w, to, p, v, q, S)
           \/ Assemble(w, p, q)
    BY <1>1 DEF StockOperation
  <2>. QED BY <2>1, <2>2, <2>3, TransferMirrors, AssembleMirrors
<1>2. CASE \/ \E w \in Warehouses, p \in Products, v \in Variants : MarkRead(w, p, v)
           \/ \E p \in Products, mode \in Modes : Retrack(p, mode)
           \/ \E p \in Products, v \in Variants : DeleteVariant(p, v)
  <2>1. onHand' = onHand /\ unit' = unit
    BY <1>2, EmptyVariantDeleted DEF MarkRead, Retrack, DeleteVariant, serialVars
  <2>2. ASSUME NEW w \in Warehouses, NEW p \in Products, IsSerialTracked(p)'
        PROVE  SerialMirror(w, p)'
    <3>1. SerialMirror(w, p)
      BY <2>2 DEF IsSerialTracked, SerialRows
    <3>. QED BY <2>1, <3>1, MirrorStays, OnHandStays
  <2>. QED BY <2>2 DEF SerialRows
<1>. QED BY <1>1, <1>2 DEF Next

\* While nobody changes the tracking flags or deletes a variant that has stock,
\* receipts, sales, transfers, adjustments and assemblies keep one unit row in a
\* warehouse for each whole unit its stock rows count: the mirror SerialUnit's
\* docstring promises.
THEOREM SerialsMirrorStock == MCSpec => []KeptSerialsMirrorOnHand
<1> DEFINE Inv == ~ reshaped => SerialRows
<1>1. MCInit => Inv
  <2> SUFFICES ASSUME Init PROVE SerialRows
    BY DEF MCInit
  <2>1. ASSUME NEW w \in Warehouses, NEW p \in Products
        PROVE  SerialMirror(w, p)
    <3>1. UnitsAt(w, p) = {}
      BY StockConstants DEF Init, UnitsAt
    <3>2. \A v \in Variants : onHand[w][p][v] = 0
      BY DEF Init, NoStock
    <3>3. OnHandOf(w, p) = 0
      BY <3>2, StockConstants, SumZero DEF OnHandOf
    <3>4. Cardinality(UnitsAt(w, p)) = 0 /\ Whole \in Nat
      BY <3>1, FS_EmptySet, StockConstants
    <3>. QED BY <3>3, <3>4 DEF SerialMirror
  <2>. QED BY <2>1 DEF SerialRows
<1>2. TypeOK /\ TypeOK' /\ Inv /\ [MCNext]_<<vars, reshaped>> => Inv'
  <2> SUFFICES ASSUME TypeOK, TypeOK', Inv, [MCNext]_<<vars, reshaped>>, ~ reshaped'
               PROVE  SerialRows'
    OBVIOUS
  <2>1. CASE MCNext
    <3>1. ~ reshaped /\ tracking' = tracking /\ ~ StockDropped /\ Next
      BY <2>1 DEF MCNext
    <3>. QED BY <3>1, StockKeepsSerialRows
  <2>2. CASE UNCHANGED <<vars, reshaped>>
    <3>1. ~ reshaped /\ onHand' = onHand /\ unit' = unit /\ tracking' = tracking
      BY <2>2 DEF vars
    <3>2. SerialRows
      BY <3>1
    <3>. QED BY <3>1, <3>2 DEF SerialRows, SerialMirror, IsSerialTracked, UnitsAt, OnHandOf
  <2>. QED BY <2>1, <2>2
<1>3. Inv => KeptSerialsMirrorOnHand
  BY SerialRowsIsMirror DEF KeptSerialsMirrorOnHand
<1>4. MCSpec => []TypeOK
  BY InstanceOfSpec, TypeCorrect, PTL
<1>. QED BY <1>1, <1>2, <1>3, <1>4, PTL DEF MCSpec

----------------------------------------------------------------------------
(* The batch balances mirror the on-hand quantities while tracking is kept. *)

LEMMA QuotientUnique ==
    ASSUME NEW m \in Nat, NEW e \in Nat \ {0}, NEW a \in Nat, NEW b \in Nat,
           e * a <= m, m < e * a + e, e * b <= m, m < e * b + e
    PROVE  a = b
<1>1. ASSUME NEW x \in Nat, NEW y \in Nat, x < y, m < e * x + e, e * y <= m PROVE FALSE
  <2>1. x + 1 <= y /\ x + 1 \in Nat /\ e * (x + 1) = e * x + e
    BY <1>1
  <2>2. e * (x + 1) <= e * y
    BY <2>1, TimesMonotone
  <2>3. e * x \in Nat /\ e * y \in Nat
    OBVIOUS
  <2>. QED BY <1>1, <2>1, <2>2, <2>3
<1>2. a < b \/ b < a \/ a = b
  OBVIOUS
<1>. QED BY <1>1, <1>2

\* Whole multiples pass through the rounding.
LEMMA RoundedRatioShift ==
    ASSUME NEW n \in Nat, NEW d \in Nat \ {0}, NEW k \in Nat
    PROVE  RoundedRatio(n + d * k, d) = RoundedRatio(n, d) + k
<1> DEFINE m == 2 * n + d
           e == 2 * d
           M == 2 * (n + d * k) + d
           r == m \div e
           R == M \div e
<1>1. m \in Nat /\ e \in Nat \ {0} /\ d * k \in Nat
  OBVIOUS
<1>2. M = m + e * k /\ M \in Nat /\ e * k \in Nat
  BY <1>1
<1> HIDE DEF m, e, M
<1>3. r \in Nat /\ e * r <= m /\ m < e * r + e
  BY <1>1
<1>4. R \in Nat /\ e * R <= M /\ M < e * R + e
  BY <1>1, <1>2
<1> HIDE DEF r, R
<1>5. e * (r + k) = e * r + e * k /\ e * r \in Nat /\ r + k \in Nat
  BY <1>1, <1>3
<1>6. e * (r + k) <= M /\ M < e * (r + k) + e
  BY <1>1, <1>2, <1>3, <1>5
<1>7. R = r + k
  BY <1>1, <1>2, <1>4, <1>5, <1>6, QuotientUnique
<1>. QED BY <1>7 DEF RoundedRatio, R, r, M, m, e

LEMMA TimesOrder ==
    ASSUME NEW k \in Nat \ {0}, NEW m \in Nat, NEW n \in Nat, k * m <= k * n PROVE m <= n
<1>1. ASSUME n < m PROVE FALSE
  <2>1. n + 1 <= m /\ n + 1 \in Nat /\ k * (n + 1) = k * n + k
    BY <1>1
  <2>2. k * (n + 1) <= k * m
    BY <2>1, TimesMonotone
  <2>3. k * n \in Nat /\ k * m \in Nat
    OBVIOUS
  <2>. QED BY <2>1, <2>2, <2>3
<1>. QED BY <1>1

----------------------------------------------------------------------------

\* The batches of a product are ranked apart, and only recorded ones hold stock.
KnownBatches(p) == {c \in Batches : created[p][c] > 0}
Ranked(p) ==
    /\ \A b, c \in Batches : created[p][b] > 0 /\ created[p][b] = created[p][c] => b = c
    /\ \A b \in Batches : created[p][b] <= Cardinality(KnownBatches(p))
Recorded == \A w \in Warehouses, p \in Products, b \in Batches :
                batchQty[w][p][b] > 0 => created[p][b] > 0
BatchesRanked == (\A p \in Products : Ranked(p)) /\ Recorded

Partial(w, p, take, b) == take[b] > 0 /\ take[b] # Whole * batchQty[w][p][b]

\* Of two batches that hold stock one is drawn before the other, so a draw
\* leaves at most one batch partly drawn.
LEMMA OnePartial ==
    ASSUME TypeOK, BatchesRanked, NEW w \in Warehouses, NEW p \in Products,
           NEW need \in Nat, NEW take \in FefoDraws(w, p, need),
           NEW b \in Batches, NEW c \in Batches,
           Partial(w, p, take, b), Partial(w, p, take, c)
    PROVE  b = c
<1>1. Whole \in Nat \ {0} /\ Dates \subseteq Nat /\ NoDate \notin Nat
  BY StockConstants
<1>2. ASSUME NEW x \in Batches, Partial(w, p, take, x) PROVE created[p][x] > 0
  <2>1. batchQty[w][p][x] \in Nat /\ take[x] \in Nat /\ take[x] <= Whole * batchQty[w][p][x]
    BY FefoDrawsType DEF TypeOK
  <2>2. batchQty[w][p][x] # 0
    BY <1>1, <1>2, <2>1 DEF Partial
  <2>. QED BY <2>1, <2>2 DEF BatchesRanked, Recorded
<1>3. ASSUME NEW x \in Batches, NEW y \in Batches, Partial(w, p, take, x),
             Partial(w, p, take, y), DrawnBefore(p, x, y)
      PROVE  FALSE
  BY <1>3 DEF FefoDraws, Partial
<1>4. /\ created[p][b] \in Nat /\ created[p][c] \in Nat
      /\ expiry[p][b] \in Dates \cup {NoDate} /\ expiry[p][c] \in Dates \cup {NoDate}
  BY DEF TypeOK
<1>5. CASE created[p][b] = created[p][c]
  BY <1>2, <1>5 DEF BatchesRanked, Ranked
<1>6. CASE created[p][b] # created[p][c]
  <2>1. DrawnBefore(p, b, c) \/ DrawnBefore(p, c, b)
    BY <1>1, <1>4, <1>6 DEF DrawnBefore
  <2>. QED BY <1>3, <2>1
<1>. QED BY <1>5, <1>6

\* A batch that is not partly drawn is left alone or emptied.
LEMMA NotPartial ==
    ASSUME TypeOK, NEW w \in Warehouses, NEW p \in Products,
           NEW need \in Nat, NEW take \in FefoDraws(w, p, need),
           NEW b \in Batches, ~ Partial(w, p, take, b)
    PROVE  /\ \E j \in Nat : take[b] = Whole * j
           /\ Whole * batchQty[w][p][b] - take[b] = Whole * AfterDraw(w, p, take)[b]
<1>1. Whole \in Nat \ {0} /\ batchQty[w][p][b] \in Nat /\ take[b] \in Nat
  BY StockConstants, FefoDrawsType DEF TypeOK
<1> DEFINE had == batchQty[w][p][b]
<1>2. AfterDraw(w, p, take)[b] = RoundedRatio(Whole * had - take[b], Whole)
  BY DEF AfterDraw
<1>3. take[b] = 0 \/ take[b] = Whole * had
  BY <1>1 DEF Partial
<1>4. had \in Nat
  BY <1>1
<1> HIDE DEF had
<1>5. CASE take[b] = 0
  <2>1. Whole * had - take[b] = Whole * had /\ take[b] = Whole * 0
    BY <1>1, <1>4, <1>5
  <2>2. RoundedRatio(Whole * had, Whole) = had
    BY <1>1, <1>4, RoundedRatioExact
  <2>. QED BY <1>2, <2>1, <2>2 DEF had
<1>6. CASE take[b] = Whole * had
  <2>1. Whole * had - take[b] = Whole * 0 /\ 0 \in Nat
    BY <1>1, <1>4, <1>6
  <2>2. RoundedRatio(Whole * 0, Whole) = 0
    BY <1>1, RoundedRatioExact
  <2>. QED BY <1>2, <1>4, <1>6, <2>1, <2>2 DEF had
<1>. QED BY <1>3, <1>5, <1>6

LEMMA BatchesNat ==
    ASSUME TypeOK, NEW w \in Warehouses, NEW p \in Products
    PROVE  /\ \A b \in Batches : batchQty[w][p][b] \in Nat
           /\ SumFunctionOnSet(batchQty[w][p], Batches) \in Nat
<1>1. \A b \in Batches : batchQty[w][p][b] \in Nat
  BY DEF TypeOK
<1>. QED BY <1>1, SumNat, StockConstants

\* However a draw is shared out, the balances left add up to what is left of
\* their sum, rounded once: at most one batch is rounded at all.
LEMMA DrawnBalance ==
    ASSUME TypeOK, BatchesRanked, NEW w \in Warehouses, NEW p \in Products,
           NEW need \in Nat, NEW take \in FefoDraws(w, p, need)
    PROVE  /\ need <= Whole * SumFunctionOnSet(batchQty[w][p], Batches)
           /\ SumFunctionOnSet(AfterDraw(w, p, take), Batches)
                = RoundedRatio(Whole * SumFunctionOnSet(batchQty[w][p], Batches) - need, Whole)
<1> DEFINE f == batchQty[w][p]
           full == [b \in Batches |-> Whole * f[b]]
           rest == [b \in Batches |-> full[b] - take[b]]
           after == AfterDraw(w, p, take)
<1>1. Whole \in Nat \ {0} /\ IsFiniteSet(Batches)
  BY StockConstants
<1>2. \A b \in Batches : f[b] \in Nat
  BY BatchesNat
<1>3. \A b \in Batches : take[b] \in Nat /\ take[b] <= Whole * f[b]
  BY FefoDrawsType
<1>4. \A b \in Batches : after[b] \in Nat
  BY AfterDrawType, TypeOKParts
<1>5. \A b \in Batches : after[b] = RoundedRatio(rest[b], Whole)
  BY DEF AfterDraw
<1>6. SumFunctionOnSet(take, Batches) = need
  BY DEF FefoDraws
<1>7. \A b \in Batches : ~ Partial(w, p, take, b) => rest[b] = Whole * after[b]
  BY NotPartial
<1>8. \A b \in Batches : full[b] = Whole * f[b] /\ rest[b] = full[b] - take[b]
  OBVIOUS
<1> HIDE DEF f, full, rest, after
<1>9. \A b \in Batches : full[b] \in Int /\ take[b] \in Int /\ rest[b] \in Nat
  BY <1>1, <1>2, <1>3, <1>8
<1>10. SumFunctionOnSet(full, Batches) = Whole * SumFunctionOnSet(f, Batches)
  <2>1. Whole \in Int /\ \A b \in Batches : f[b] \in Int /\ full[b] = Whole * f[b]
    BY <1>1, <1>2, <1>8
  <2>. QED BY <1>1, <2>1, SumTimes
<1>11. SumFunctionOnSet(rest, Batches) = SumFunctionOnSet(full, Batches) - need
  <2>1. SumFunctionOnSet(rest, Batches)
          = SumFunctionOnSet(full, Batches) - SumFunctionOnSet(take, Batches)
    BY <1>1, <1>8, <1>9, SumMinus
  <2>. QED BY <1>6, <2>1
<1>12. SumFunctionOnSet(rest, Batches) \in Nat
  BY <1>1, <1>9, SumNat
<1>13. SumFunctionOnSet(f, Batches) \in Nat
  BY <1>1, <1>2, SumNat
<1>14. need <= Whole * SumFunctionOnSet(f, Batches)
  BY <1>1, <1>10, <1>11, <1>12, <1>13
<1>15. SumFunctionOnSet(after, Batches) = RoundedRatio(SumFunctionOnSet(rest, Batches), Whole)
  <2>1. CASE \A b \in Batches : ~ Partial(w, p, take, b)
    <3>1. Whole \in Int /\ \A b \in Batches : after[b] \in Int /\ rest[b] = Whole * after[b]
      BY <1>1, <1>4, <1>7, <2>1
    <3>2. SumFunctionOnSet(rest, Batches) = Whole * SumFunctionOnSet(after, Batches)
      BY <1>1, <3>1, SumTimes
    <3>3. SumFunctionOnSet(after, Batches) \in Nat
      BY <1>1, <1>4, SumNat
    <3>. QED BY <1>1, <3>2, <3>3, RoundedRatioExact
  <2>2. ASSUME NEW m \in Batches, Partial(w, p, take, m)
        PROVE  SumFunctionOnSet(after, Batches)
                 = RoundedRatio(SumFunctionOnSet(rest, Batches), Whole)
    <3> DEFINE U == Batches \ {m}
    <3>1. IsFiniteSet(U) /\ U \subseteq Batches
      BY <1>1, FS_Subset
    <3>2. \A b \in U : ~ Partial(w, p, take, b)
      BY <2>2, OnePartial
    <3>3. /\ SumFunctionOnSet(rest, Batches) = rest[m] + SumFunctionOnSet(rest, U)
          /\ SumFunctionOnSet(after, Batches) = after[m] + SumFunctionOnSet(after, U)
      <4>1. \A b \in Batches : rest[b] \in Int /\ after[b] \in Int
        BY <1>4, <1>9
      <4>. QED BY <1>1, <4>1, SumRemove
    <3> HIDE DEF U
    <3>4. Whole \in Int /\ \A b \in U : after[b] \in Int /\ rest[b] = Whole * after[b]
      BY <1>1, <1>4, <1>7, <3>1, <3>2
    <3>5. SumFunctionOnSet(rest, U) = Whole * SumFunctionOnSet(after, U)
      BY <3>1, <3>4, SumTimes
    <3>6. SumFunctionOnSet(after, U) \in Nat
      BY <1>4, <3>1, SumNat
    <3>7. RoundedRatio(rest[m] + Whole * SumFunctionOnSet(after, U), Whole)
            = RoundedRatio(rest[m], Whole) + SumFunctionOnSet(after, U)
      BY <1>1, <1>9, <3>6, RoundedRatioShift
    <3>. QED BY <1>5, <3>3, <3>5, <3>7
  <2>. QED BY <2>1, <2>2
<1>16. SumFunctionOnSet(after, Batches)
         = RoundedRatio(Whole * SumFunctionOnSet(f, Batches) - need, Whole)
  BY <1>10, <1>11, <1>15
<1>. QED BY <1>14, <1>16 DEF f, after

\* A draw of a whole quantity takes a whole quantity from every batch.
LEMMA WholeDraw ==
    ASSUME TypeOK, BatchesRanked, NEW w \in Warehouses, NEW p \in Products,
           NEW q \in Nat, NEW take \in FefoDraws(w, p, Whole * q), NEW b \in Batches
    PROVE  \E j \in Nat : take[b] = Whole * j
<1>0. Whole \in Nat \ {0} /\ IsFiniteSet(Batches) /\ Whole * q \in Nat
  BY StockConstants
<1>1. CASE ~ Partial(w, p, take, b)
  BY <1>0, <1>1, NotPartial
<1>2. CASE Partial(w, p, take, b)
  <2> DEFINE U == Batches \ {b}
             k == [c \in Batches |-> CHOOSE j \in Nat : take[c] = Whole * j]
             s == SumFunctionOnSet(k, U)
  <2>1. \A c \in U : ~ Partial(w, p, take, c)
    BY <1>0, <1>2, OnePartial
  <2>2. \A c \in U : k[c] \in Nat /\ take[c] = Whole * k[c]
    <3>1. \A c \in U : \E j \in Nat : take[c] = Whole * j
      BY <1>0, <2>1, NotPartial
    <3>2. \A c \in U : k[c] = CHOOSE j \in Nat : take[c] = Whole * j
      OBVIOUS
    <3> HIDE DEF U, k
    <3>. QED BY <3>1, <3>2
  <2>3. IsFiniteSet(U)
    BY <1>0, FS_Subset
  <2>4. \A c \in Batches : take[c] \in Nat
    BY <1>0, FefoDrawsType
  <2>5. SumFunctionOnSet(take, Batches) = take[b] + SumFunctionOnSet(take, U)
    <3>1. \A c \in Batches : take[c] \in Int
      BY <2>4
    <3>. QED BY <1>0, <3>1, SumRemove
  <2>6. SumFunctionOnSet(take, Batches) = Whole * q
    BY DEF FefoDraws
  <2> HIDE DEF U, k
  <2>7. SumFunctionOnSet(take, U) = Whole * s
    <3>1. Whole \in Int /\ \A c \in U : k[c] \in Int /\ take[c] = Whole * k[c]
      BY <1>0, <2>2
    <3>. QED BY <2>3, <3>1, SumTimes
  <2>8. s \in Nat
    BY <2>2, <2>3, SumNat
  <2> HIDE DEF s
  <2>9. take[b] \in Nat
    BY <2>4
  <2>10. Whole * q = take[b] + Whole * s /\ Whole * s \in Nat
    BY <1>0, <2>5, <2>6, <2>7, <2>8
  <2>11. s <= q
    BY <1>0, <2>8, <2>9, <2>10, TimesOrder
  <2>12. q - s \in Nat /\ Whole * (q - s) = Whole * q - Whole * s
    BY <1>0, <2>8, <2>11
  <2>13. take[b] = Whole * (q - s)
    BY <2>9, <2>10, <2>12
  <2>. QED BY <2>12, <2>13
<1>. QED BY <1>1, <1>2

\* What a draw of a whole quantity takes, arrives.
LEMMA ArrivedBalance ==
    ASSUME TypeOK, BatchesRanked, NEW from \in Warehouses, NEW to \in Warehouses,
           NEW p \in Products, NEW q \in Nat, NEW take \in FefoDraws(from, p, Whole * q),
           NEW arrived, \A b \in Batches :
               arrived[b] = RoundedRatio(Whole * batchQty[to][p][b] + take[b], Whole)
    PROVE  /\ SumFunctionOnSet(arrived, Batches)
                = SumFunctionOnSet(batchQty[to][p], Batches) + q
           /\ \A b \in Batches : arrived[b] # batchQty[to][p][b] => take[b] > 0
<1>0. Whole \in Nat \ {0} /\ IsFiniteSet(Batches) /\ Whole * q \in Nat
  BY StockConstants
<1> DEFINE k == [b \in Batches |-> CHOOSE j \in Nat : take[b] = Whole * j]
           f == batchQty[to][p]
<1>1. \A b \in Batches : k[b] \in Nat /\ take[b] = Whole * k[b]
  BY WholeDraw
<1>2. \A b \in Batches : f[b] \in Nat
  BY BatchesNat
<1>3. SumFunctionOnSet(take, Batches) = Whole * q
  BY DEF FefoDraws
<1>4. \A b \in Batches : arrived[b] = RoundedRatio(Whole * f[b] + take[b], Whole)
  OBVIOUS
<1> HIDE DEF k, f
<1>5. SumFunctionOnSet(take, Batches) = Whole * SumFunctionOnSet(k, Batches)
  <2>1. Whole \in Int /\ \A b \in Batches : k[b] \in Int /\ take[b] = Whole * k[b]
    BY <1>0, <1>1
  <2>. QED BY <1>0, <2>1, SumTimes
<1>6. SumFunctionOnSet(k, Batches) \in Nat /\ SumFunctionOnSet(f, Batches) \in Nat
  BY <1>0, <1>1, <1>2, SumNat
<1>7. SumFunctionOnSet(k, Batches) = q
  <2> DEFINE s == SumFunctionOnSet(k, Batches)
  <2>1. s \in Nat /\ Whole * s = Whole * q
    BY <1>3, <1>5, <1>6
  <2> HIDE DEF s
  <2>2. s <= q /\ q <= s
    <3>1. Whole * s <= Whole * q /\ Whole * q <= Whole * s
      BY <1>0, <2>1
    <3>. QED BY <1>0, <2>1, <3>1, TimesOrder
  <2>3. s = q
    BY <2>1, <2>2
  <2>. QED BY <2>3 DEF s
<1>8. ASSUME NEW b \in Batches PROVE arrived[b] = f[b] + k[b] /\ k[b] \in Nat /\ f[b] \in Nat
  <2>1. k[b] \in Nat /\ f[b] \in Nat /\ arrived[b] = RoundedRatio(Whole * f[b] + Whole * k[b], Whole)
    BY <1>1, <1>2, <1>4
  <2>2. Whole * f[b] + Whole * k[b] = Whole * (f[b] + k[b]) /\ f[b] + k[b] \in Nat
    BY <1>0, <2>1
  <2>3. RoundedRatio(Whole * (f[b] + k[b]), Whole) = f[b] + k[b]
    BY <1>0, <2>2, RoundedRatioExact
  <2>. QED BY <2>1, <2>2, <2>3
<1>9. SumFunctionOnSet(f, Batches)
        = SumFunctionOnSet(arrived, Batches) - SumFunctionOnSet(k, Batches)
  <2>1. \A b \in Batches : arrived[b] \in Int /\ k[b] \in Int /\ f[b] = arrived[b] - k[b]
    BY <1>8
  <2>. QED BY <1>0, <2>1, SumMinus
<1>10. SumFunctionOnSet(arrived, Batches) \in Int
  <2>1. \A b \in Batches : arrived[b] \in Int
    BY <1>8
  <2>. QED BY <1>0, <2>1, SumInt
<1>11. SumFunctionOnSet(arrived, Batches) = SumFunctionOnSet(f, Batches) + q
  BY <1>6, <1>7, <1>9, <1>10
<1>12. ASSUME NEW b \in Batches, arrived[b] # f[b] PROVE take[b] > 0
  <2>1. k[b] \in Nat /\ k[b] # 0 /\ take[b] = Whole * k[b]
    BY <1>1, <1>8, <1>12
  <2>. QED BY <1>0, <2>1
<1>. QED BY <1>11, <1>12 DEF f

----------------------------------------------------------------------------
(* The ranks of the batches.                                               *)

\* Recording no batch and adding stock to none that held none anywhere.
LEMMA RanksStay ==
    ASSUME TypeOK, TypeOK', BatchesRanked, created' = created,
           \A x \in Warehouses, n \in Products, b \in Batches :
               batchQty'[x][n][b] > 0 => \E y \in Warehouses : batchQty[y][n][b] > 0
    PROVE  BatchesRanked'
<1>1. \A n \in Products : KnownBatches(n)' = KnownBatches(n)
  BY DEF KnownBatches
<1>2. \A n \in Products : Ranked(n)'
  BY <1>1 DEF Ranked, BatchesRanked
<1>3. Recorded'
  BY DEF Recorded, BatchesRanked
<1>. QED BY <1>2, <1>3 DEF BatchesRanked

LEMMA RanksSame ==
    ASSUME TypeOK, TypeOK', BatchesRanked, UNCHANGED <<created, batchQty>>
    PROVE  BatchesRanked'
BY RanksStay

LEMMA RanksReceive ==
    ASSUME TypeOK, TypeOK', BatchesRanked, NEW w \in Warehouses, NEW p \in Products,
           NEW q \in Quantities, NEW b \in Batches, NEW d, ReceiveBatch(w, p, q, b, d)
    PROVE  BatchesRanked'
<1> DEFINE n == Cardinality(KnownBatches(p))
<1>1. IsFiniteSet(KnownBatches(p)) /\ n \in Nat
  <2>1. KnownBatches(p) \in SUBSET Batches
    BY DEF KnownBatches
  <2>. QED BY <2>1, StockConstants, FS_Subset, FS_CardinalityType
<1>2. \A c \in Batches : created[p][c] \in Nat /\ created[p][c] <= n
  BY DEF BatchesRanked, Ranked, TypeOK
<1>3. /\ created'[p][b] = IF created[p][b] = 0 THEN n + 1 ELSE created[p][b]
      /\ \A c \in Batches \ {b} : created'[p][c] = created[p][c]
      /\ \A m \in Products \ {p} : created'[m] = created[m]
  BY DEF ReceiveBatch, TypeOK, KnownBatches
<1>4. \A m \in Products \ {p} : Ranked(m)'
  BY <1>3 DEF BatchesRanked, Ranked, KnownBatches
<1>5. Ranked(p)'
  <2>1. CASE created[p][b] # 0
    <3>1. \A c \in Batches : created'[p][c] = created[p][c]
      BY <1>3, <2>1
    <3>2. KnownBatches(p)' = KnownBatches(p)
      BY <3>1 DEF KnownBatches
    <3>. QED BY <3>1, <3>2 DEF BatchesRanked, Ranked
  <2>2. CASE created[p][b] = 0
    <3>1. created'[p][b] = n + 1
      BY <1>3, <2>2
    <3>2. KnownBatches(p)' = KnownBatches(p) \cup {b} /\ b \notin KnownBatches(p)
      BY <1>1, <1>3, <2>2, <3>1 DEF KnownBatches
    <3>3. Cardinality(KnownBatches(p) \cup {b}) = n + 1
      BY <1>1, <3>2, FS_AddElement
    <3>4. Cardinality(KnownBatches(p)') = n + 1
      BY <3>2, <3>3
    <3>5. \A c \in Batches : created'[p][c] <= n + 1
      BY <1>1, <1>2, <1>3, <3>1
    <3>6. ASSUME NEW c \in Batches, NEW e \in Batches,
                 created'[p][c] > 0, created'[p][c] = created'[p][e]
          PROVE  c = e
      <4>1. CASE c # b /\ e # b
        BY <1>3, <3>6, <4>1 DEF BatchesRanked, Ranked
      <4>2. CASE c = b /\ e # b
        BY <1>1, <1>2, <1>3, <3>1, <3>6, <4>2
      <4>3. CASE c # b /\ e = b
        BY <1>1, <1>2, <1>3, <3>1, <3>6, <4>3
      <4>. QED BY <4>1, <4>2, <4>3
    <3>. QED BY <3>4, <3>5, <3>6 DEF Ranked
  <2>. QED BY <2>1, <2>2
<1>6. Recorded'
  <2>1. ASSUME NEW x \in Warehouses, NEW m \in Products, NEW c \in Batches,
               batchQty'[x][m][c] > 0
        PROVE  created'[m][c] > 0
    <3>1. CASE m = p /\ c = b
      BY <1>1, <1>2, <1>3, <3>1
    <3>2. CASE ~ (m = p /\ c = b)
      <4>1. batchQty'[x][m][c] = batchQty[x][m][c] /\ created'[m][c] = created[m][c]
        BY <3>2 DEF ReceiveBatch, TypeOK
      <4>. QED BY <2>1, <4>1 DEF BatchesRanked, Recorded
    <3>. QED BY <3>1, <3>2
  <2>. QED BY <2>1 DEF Recorded
<1>. QED BY <1>4, <1>5, <1>6 DEF BatchesRanked

----------------------------------------------------------------------------
(* The mirror of one product in one warehouse.                             *)

BatchSum(w, p) == SumFunctionOnSet(batchQty[w][p], Batches)
BatchMirror(w, p) == BatchSum(w, p) = OnHandOf(w, p)
BatchRows == \A w \in Warehouses, p \in Products : IsBatchTracked(p) => BatchMirror(w, p)

LEMMA BatchRowsIsMirror == BatchRows <=> BatchesMirrorOnHand
BY DEF BatchRows, BatchMirror, BatchSum, BatchesMirrorOnHand

LEMMA BatchSumNat ==
    ASSUME TypeOK, NEW w \in Warehouses, NEW p \in Products PROVE BatchSum(w, p) \in Nat
BY BatchesNat DEF BatchSum

LEMMA BatchMirrorStays ==
    ASSUME NEW w \in Warehouses, NEW p \in Products, BatchMirror(w, p),
           batchQty'[w][p] = batchQty[w][p], OnHandOf(w, p)' = OnHandOf(w, p)
    PROVE  BatchMirror(w, p)'
BY DEF BatchMirror, BatchSum

LEMMA ReceivedSum ==
    ASSUME TypeOK, TypeOK', NEW w \in Warehouses, NEW p \in Products,
           NEW q \in Quantities, NEW b \in Batches, NEW d, ReceiveBatch(w, p, q, b, d)
    PROVE  BatchSum(w, p)' = BatchSum(w, p) + q
<1> DEFINE f == batchQty[w][p]
           g == batchQty'[w][p]
<1>1. \A c \in Batches : f[c] \in Int /\ g[c] \in Int
  BY DEF TypeOK
<1>2. \A c \in Batches \ {b} : g[c] = f[c]
  BY DEF ReceiveBatch, TypeOK
<1>3. IsFiniteSet(Batches)
  BY StockConstants
<1>4. g[b] = f[b] + q /\ q \in Nat
  BY StockConstants DEF ReceiveBatch, TypeOK
<1>5. SumFunctionOnSet(f, Batches) \in Nat
  BY BatchesNat
<1> HIDE DEF f, g
<1>6. SumFunctionOnSet(g, Batches) = SumFunctionOnSet(f, Batches) + g[b] - f[b]
  BY <1>1, <1>2, <1>3, SumChange
<1>7. SumFunctionOnSet(g, Batches) = SumFunctionOnSet(f, Batches) + q
  BY <1>1, <1>5, <1>6, <1>4
<1>. QED BY <1>7 DEF f, g, BatchSum

LEMMA DrawnSum ==
    ASSUME TypeOK, BatchesRanked, NEW w \in Warehouses, NEW p \in Products,
           NEW q \in Nat, NEW take \in FefoDraws(w, p, Whole * q),
           batchQty'[w][p] = AfterDraw(w, p, take)
    PROVE  BatchSum(w, p)' = BatchSum(w, p) - q
<1> DEFINE s == BatchSum(w, p)
           t == SumFunctionOnSet(AfterDraw(w, p, take), Batches)
<1>1. Whole \in Nat \ {0} /\ Whole * q \in Nat
  BY StockConstants
<1>2. s \in Nat
  BY BatchSumNat
<1>3. Whole * q <= Whole * s /\ t = RoundedRatio(Whole * s - Whole * q, Whole)
  BY <1>1, DrawnBalance DEF BatchSum
<1>4. BatchSum(w, p)' = t
  BY DEF BatchSum
<1> HIDE DEF s, t
<1>5. q <= s
  BY <1>1, <1>2, <1>3, TimesOrder
<1>6. s - q \in Nat /\ Whole * s - Whole * q = Whole * (s - q)
  BY <1>1, <1>2, <1>5
<1>7. t = s - q
  BY <1>1, <1>3, <1>6, RoundedRatioExact
<1>. QED BY <1>4, <1>7 DEF s

\* The balances and the stock row of a component line, each rounded on its own,
\* stay equal: the other rows of the product are whole.
LEMMA LineSum ==
    ASSUME TypeOK, TypeOK', BatchesRanked, NEW w \in Warehouses, NEW p \in Products,
           NEW q \in Quantities, Assemble(w, p, q), NEW c \in Components(p),
           BatchMirror(w, c), NEW take \in FefoDraws(w, c, Need(p, c, q)),
           batchQty'[w][c] = AfterDraw(w, c, take)
    PROVE  BatchMirror(w, c)'
<1> DEFINE s == OnHandOf(w, c)
           had == onHand[w][c][NoVariant]
           need == Need(p, c, q)
<1>1. Whole \in Nat \ {0} /\ NoVariant \in Variants /\ c \in Products /\ IsFiniteSet(Variants)
  BY StockConstants
<1>2. need \in Nat /\ need <= Whole * had
  BY LineType DEF Assemble
<1>3. had \in Nat
  BY <1>1 DEF TypeOK, StockRows
<1>4. PICK k \in Nat : s = had + k
  <2> DEFINE f == onHand[w][c]
             U == Variants \ {NoVariant}
  <2>1. \A v \in Variants : f[v] \in Nat
    BY <1>1 DEF TypeOK, StockRows
  <2>2. IsFiniteSet(U) /\ U \subseteq Variants
    BY <1>1, FS_Subset
  <2>3. s = SumFunctionOnSet(f, Variants) /\ f[NoVariant] = had
    BY DEF OnHandOf
  <2> HIDE DEF f, s, had
  <2>4. SumFunctionOnSet(f, Variants) = f[NoVariant] + SumFunctionOnSet(f, U)
    <3>1. \A v \in Variants : f[v] \in Int
      BY <2>1
    <3>. QED BY <1>1, <3>1, SumRemove
  <2>5. SumFunctionOnSet(f, U) \in Nat
    BY <2>1, <2>2, SumNat
  <2>. QED BY <2>3, <2>4, <2>5
<1>5. BatchSum(w, c)' = RoundedRatio(Whole * s - need, Whole)
  <2>1. SumFunctionOnSet(AfterDraw(w, c, take), Batches)
          = RoundedRatio(Whole * SumFunctionOnSet(batchQty[w][c], Batches) - need, Whole)
    BY <1>1, <1>2, DrawnBalance
  <2>2. SumFunctionOnSet(batchQty[w][c], Batches) = s
    BY DEF BatchMirror, BatchSum
  <2>. QED BY <2>1, <2>2 DEF BatchSum
<1>6. /\ onHand'[w][c][NoVariant] = RoundedRatio(Whole * had - need, Whole)
      /\ \A v \in Variants \ {NoVariant} : onHand'[w][c][v] = onHand[w][c][v]
  BY <1>1, AssembleRows DEF LeftAfterLine
<1>7. OnHandOf(w, c)' = s + onHand'[w][c][NoVariant] - had
  BY <1>1, <1>6, OnHandMoves
<1>8. BatchMirror(w, c)' <=> BatchSum(w, c)' = OnHandOf(w, c)'
  BY DEF BatchMirror
<1> HIDE DEF s, had, need
<1> DEFINE n == Whole * had - need
<1>9. n \in Nat
  <2>1. Whole * had \in Nat
    BY <1>1, <1>3
  <2>. QED BY <1>2, <2>1
<1>10. Whole * s - need = n + Whole * k
  <2>1. Whole * s = Whole * had + Whole * k /\ Whole * had \in Nat /\ Whole * k \in Nat
    BY <1>1, <1>3, <1>4
  <2>. QED BY <1>2, <2>1
<1>11. onHand'[w][c][NoVariant] = RoundedRatio(n, Whole)
  BY <1>6
<1>12. BatchSum(w, c)' = RoundedRatio(n + Whole * k, Whole)
  BY <1>5, <1>10
<1> HIDE DEF n
<1>13. BatchSum(w, c)' = RoundedRatio(n, Whole) + k /\ RoundedRatio(n, Whole) \in Nat
  BY <1>1, <1>9, <1>12, RoundedRatioShift, RoundedRatioNat
<1>. QED BY <1>3, <1>4, <1>7, <1>8, <1>11, <1>13

----------------------------------------------------------------------------
(* Every operation keeps the ranks.                                        *)

LEMMA RanksNowhere ==
    ASSUME TypeOK, TypeOK', BatchesRanked, Nowhere, created' = created
    PROVE  BatchesRanked'
<1>1. ASSUME NEW x \in Warehouses, NEW n \in Products, NEW b \in Batches,
             batchQty'[x][n][b] > 0
      PROVE  batchQty[x][n][b] > 0
  <2>1. batchQty[x][n][b] \in Nat /\ batchQty'[x][n][b] \in Nat
    BY DEF TypeOK
  <2>2. ~ batchQty'[x][n][b] > batchQty[x][n][b]
    BY DEF Nowhere, Appears
  <2>. QED BY <1>1, <2>1, <2>2
<1>. QED BY <1>1, RanksStay

LEMMA RanksReceiveTracked ==
    ASSUME TypeOK, TypeOK', BatchesRanked, NEW w \in Warehouses, NEW p \in Products,
           NEW q \in Quantities, NEW S, NEW b \in Batches, NEW d,
           ReceiveTracked(w, p, q, S, b, d)
    PROVE  BatchesRanked'
<1>1. CASE UNCHANGED batchVars
  BY <1>1, RanksSame DEF batchVars
<1>2. CASE ReceiveBatch(w, p, q, b, d)
  BY <1>2, RanksReceive
<1>. QED BY <1>1, <1>2 DEF ReceiveTracked

LEMMA RanksReleaseTracked ==
    ASSUME TypeOK, TypeOK', BatchesRanked, NEW w \in Warehouses, NEW p \in Products,
           NEW q \in Quantities, NEW explicit, ReleaseTracked(w, p, q, explicit)
    PROVE  BatchesRanked'
<1>1. created' = created
  BY DEF ReleaseTracked, batchVars
<1>. QED BY <1>1, ReleaseAppears, RanksNowhere

\* A transfer as the balances see it.
LEMMA CarriedBatches ==
    ASSUME TypeOK, NEW from \in Warehouses, NEW to \in Warehouses, from # to,
           NEW p \in Products, NEW take, NEW arrived,
           batchQty' = [batchQty EXCEPT ![from][p] = take, ![to][p] = arrived]
    PROVE  /\ batchQty'[from][p] = take /\ batchQty'[to][p] = arrived
           /\ \A x \in Warehouses, n \in Products :
                 n # p \/ x \notin {from, to} => batchQty'[x][n] = batchQty[x][n]
BY DEF TypeOK

LEMMA CarryPick ==
    ASSUME TypeOK, NEW from \in Warehouses, NEW to \in Warehouses, from # to,
           NEW p \in Products, NEW q, NEW explicit, CarryTracked(from, to, p, q, explicit)
    PROVE  \/ batchQty' = batchQty /\ created' = created /\ ~ IsBatchTracked(p)
           \/ /\ created' = created
              /\ \E take \in FefoDraws(from, p, Whole * q) :
                   /\ batchQty'[from][p] = AfterDraw(from, p, take)
                   /\ \A b \in Batches : batchQty'[to][p][b]
                        = RoundedRatio(Whole * batchQty[to][p][b] + take[b], Whole)
                   /\ \A x \in Warehouses, n \in Products :
                        n # p \/ x \notin {from, to} => batchQty'[x][n] = batchQty[x][n]
<1>1. ASSUME NEW take \in FefoDraws(from, p, Whole * q),
             batchQty' = [batchQty EXCEPT
                 ![from][p] = AfterDraw(from, p, take),
                 ![to][p] = [b \in Batches |->
                     RoundedRatio(Whole * batchQty[to][p][b] + take[b], Whole)]],
             created' = created
      PROVE  /\ created' = created
             /\ \E t \in FefoDraws(from, p, Whole * q) :
                   /\ batchQty'[from][p] = AfterDraw(from, p, t)
                   /\ \A b \in Batches : batchQty'[to][p][b]
                        = RoundedRatio(Whole * batchQty[to][p][b] + t[b], Whole)
                   /\ \A x \in Warehouses, n \in Products :
                        n # p \/ x \notin {from, to} => batchQty'[x][n] = batchQty[x][n]
  <2> DEFINE drawn == AfterDraw(from, p, take)
             arrived == [b \in Batches |->
                     RoundedRatio(Whole * batchQty[to][p][b] + take[b], Whole)]
  <2>1. \A b \in Batches : arrived[b]
           = RoundedRatio(Whole * batchQty[to][p][b] + take[b], Whole)
    OBVIOUS
  <2>2. batchQty' = [batchQty EXCEPT ![from][p] = drawn, ![to][p] = arrived]
    BY <1>1
  <2> HIDE DEF drawn, arrived
  <2>3. /\ batchQty'[from][p] = drawn /\ batchQty'[to][p] = arrived
        /\ \A x \in Warehouses, n \in Products :
              n # p \/ x \notin {from, to} => batchQty'[x][n] = batchQty[x][n]
    BY <2>2 DEF TypeOK
  <2>. QED BY <1>1, <2>1, <2>3 DEF drawn
<1>2. CASE IsBatchTracked(p) /\ ~ IsSerialTracked(p)
  BY <1>1, <1>2 DEF CarryTracked
<1>3. CASE ~ IsBatchTracked(p)
  BY <1>3 DEF CarryTracked, batchVars
<1>. QED BY <1>2, <1>3 DEF IsBatchTracked, IsSerialTracked

LEMMA RanksCarryTracked ==
    ASSUME TypeOK, TypeOK', BatchesRanked, NEW from \in Warehouses, NEW to \in Warehouses,
           from # to, NEW p \in Products, NEW q \in Quantities, NEW explicit,
           CarryTracked(from, to, p, q, explicit)
    PROVE  BatchesRanked'
<1>0. q \in Nat /\ Whole * q \in Nat /\ Whole \in Nat \ {0}
  BY StockConstants
<1>1. created' = created
  BY CarryPick
<1>2. OnlyAt(to, p)
  BY CarryAppears
<1>3. ASSUME NEW x \in Warehouses, NEW n \in Products, NEW b \in Batches,
             batchQty'[x][n][b] > 0
      PROVE  \E y \in Warehouses : batchQty[y][n][b] > 0
  <2>1. batchQty[x][n][b] \in Nat /\ batchQty'[x][n][b] \in Nat
    BY DEF TypeOK
  <2>2. CASE ~ (x = to /\ n = p)
    <3>1. ~ batchQty'[x][n][b] > batchQty[x][n][b]
      BY <1>2, <2>2 DEF OnlyAt, Appears
    <3>. QED BY <1>3, <2>1, <3>1
  <2>3. CASE x = to /\ n = p /\ batchQty' # batchQty
    <3>1. PICK take \in FefoDraws(from, p, Whole * q) :
              \A c \in Batches : batchQty'[to][p][c]
                = RoundedRatio(Whole * batchQty[to][p][c] + take[c], Whole)
      BY <2>3, CarryPick
    <3>2. CASE batchQty'[to][p][b] # batchQty[to][p][b]
      <4> DEFINE arrived == batchQty'[to][p]
      <4>1. /\ \A c \in Batches : arrived[c]
                  = RoundedRatio(Whole * batchQty[to][p][c] + take[c], Whole)
            /\ arrived[b] # batchQty[to][p][b]
        BY <3>1, <3>2
      <4> HIDE DEF arrived
      <4>2. take[b] > 0
        BY <1>0, <4>1, ArrivedBalance
      <4>3. batchQty[from][p][b] \in Nat /\ take[b] \in Nat
            /\ take[b] <= Whole * batchQty[from][p][b]
        BY <1>0, FefoDrawsType DEF TypeOK
      <4>4. batchQty[from][p][b] # 0
        BY <1>0, <4>2, <4>3
      <4>. QED BY <2>3, <4>3, <4>4
    <3>3. CASE batchQty'[to][p][b] = batchQty[to][p][b]
      BY <1>3, <2>3, <3>3
    <3>. QED BY <3>2, <3>3
  <2>4. CASE batchQty' = batchQty
    BY <1>3, <2>4
  <2>. QED BY <2>2, <2>3, <2>4
<1>. QED BY <1>1, <1>3, RanksStay

LEMMA RanksAssemble ==
    ASSUME TypeOK, TypeOK', BatchesRanked, NEW w \in Warehouses, NEW p \in Products,
           NEW q \in Quantities, Assemble(w, p, q)
    PROVE  BatchesRanked'
<1>1. created' = created
  BY DEF Assemble, ReleaseComponents
<1>. QED BY <1>1, ReleaseComponentsAppears, RanksNowhere

----------------------------------------------------------------------------
(* Every operation keeps the mirror, tracking flags permitting.            *)

LEMMA ReceiveBalances ==
    ASSUME TypeOK, TypeOK', BatchRows, tracking' = tracking,
           NEW w \in Warehouses, NEW p \in Products, NEW v \in Variants,
           NEW q \in Quantities, NEW S, NEW b \in Batches, NEW d,
           ReceiveTracked(w, p, q, S, b, d), onHand' = [onHand EXCEPT ![w][p][v] = @ + q]
    PROVE  BatchRows'
<1>1. /\ OnHandOf(w, p)' = OnHandOf(w, p) + q
      /\ \A x \in Warehouses, n \in Products :
            ~ (x = w /\ n = p) => OnHandOf(x, n)' = OnHandOf(x, n)
  BY RowOfReceipt
<1>2. \A x \in Warehouses, n \in Products :
         ~ (x = w /\ n = p) => batchQty'[x][n] = batchQty[x][n]
  BY DEF ReceiveTracked, ReceiveBatch, batchVars, TypeOK
<1>3. ASSUME NEW x \in Warehouses, NEW n \in Products, IsBatchTracked(n)'
      PROVE  BatchMirror(x, n)'
  <2>1. IsBatchTracked(n) /\ BatchMirror(x, n)
    BY <1>3 DEF IsBatchTracked, BatchRows
  <2>2. CASE ~ (x = w /\ n = p)
    BY <1>1, <1>2, <2>1, <2>2, BatchMirrorStays
  <2>3. CASE x = w /\ n = p
    <3>1. ReceiveBatch(w, p, q, b, d)
      BY <2>1, <2>3 DEF ReceiveTracked, IsBatchTracked, IsSerialTracked
    <3>2. BatchSum(w, p)' = BatchSum(w, p) + q
      BY <3>1, ReceivedSum
    <3>. QED BY <1>1, <2>1, <2>3, <3>2 DEF BatchMirror
  <2>. QED BY <2>2, <2>3
<1>. QED BY <1>3 DEF BatchRows

LEMMA ReleaseBalances ==
    ASSUME TypeOK, TypeOK', BatchesRanked, BatchRows, tracking' = tracking,
           NEW w \in Warehouses, NEW p \in Products, NEW v \in Variants,
           NEW q \in Quantities, NEW explicit, ReleaseTracked(w, p, q, explicit),
           onHand' = [onHand EXCEPT ![w][p][v] = @ - q]
    PROVE  BatchRows'
<1>0. q \in Nat
  BY StockConstants
<1>1. /\ OnHandOf(w, p)' = OnHandOf(w, p) - q
      /\ \A x \in Warehouses, n \in Products :
            ~ (x = w /\ n = p) => OnHandOf(x, n)' = OnHandOf(x, n)
  BY RowOfRelease
<1>2. \A x \in Warehouses, n \in Products :
         ~ (x = w /\ n = p) => batchQty'[x][n] = batchQty[x][n]
  <2>1. CASE batchQty' = batchQty
    BY <2>1
  <2>2. ASSUME NEW take, batchQty' = [batchQty EXCEPT ![w][p] = AfterDraw(w, p, take)]
        PROVE  \A x \in Warehouses, n \in Products :
                  ~ (x = w /\ n = p) => batchQty'[x][n] = batchQty[x][n]
    BY <2>2 DEF TypeOK
  <2>. QED BY <2>1, <2>2 DEF ReleaseTracked, batchVars
<1>3. ASSUME NEW x \in Warehouses, NEW n \in Products, IsBatchTracked(n)'
      PROVE  BatchMirror(x, n)'
  <2>1. IsBatchTracked(n) /\ BatchMirror(x, n)
    BY <1>3 DEF IsBatchTracked, BatchRows
  <2>2. CASE ~ (x = w /\ n = p)
    BY <1>1, <1>2, <2>1, <2>2, BatchMirrorStays
  <2>3. CASE x = w /\ n = p
    <3>1. PICK take \in FefoDraws(w, p, Whole * q) :
              batchQty' = [batchQty EXCEPT ![w][p] = AfterDraw(w, p, take)]
      BY <2>1, <2>3 DEF ReleaseTracked, IsBatchTracked, IsSerialTracked
    <3>2. batchQty'[w][p] = AfterDraw(w, p, take)
      BY <3>1 DEF TypeOK
    <3>3. BatchSum(w, p)' = BatchSum(w, p) - q
      BY <1>0, <3>2, DrawnSum
    <3>. QED BY <1>1, <2>1, <2>3, <3>3 DEF BatchMirror
  <2>. QED BY <2>2, <2>3
<1>. QED BY <1>3 DEF BatchRows

LEMMA TransferBalances ==
    ASSUME TypeOK, TypeOK', BatchesRanked, BatchRows, NEW from \in Warehouses,
           NEW to \in Warehouses, NEW p \in Products, NEW v \in Variants,
           NEW q \in Quantities, NEW explicit, Transfer(from, to, p, v, q, explicit)
    PROVE  BatchRows'
<1>0. q \in Nat /\ from # to /\ tracking' = tracking /\ CarryTracked(from, to, p, q, explicit)
  BY StockConstants DEF Transfer
<1>1. /\ OnHandOf(from, p)' = OnHandOf(from, p) - q
      /\ OnHandOf(to, p)' = OnHandOf(to, p) + q
      /\ \A x \in Warehouses, n \in Products :
            n # p \/ x \notin {from, to} => OnHandOf(x, n)' = OnHandOf(x, n)
  BY <1>0, RowOfTransfer DEF Transfer
<1>2. \A x \in Warehouses, n \in Products :
         n # p \/ x \notin {from, to} => batchQty'[x][n] = batchQty[x][n]
  BY <1>0, CarryPick
<1>3. ASSUME NEW x \in Warehouses, NEW n \in Products, IsBatchTracked(n)'
      PROVE  BatchMirror(x, n)'
  <2>1. IsBatchTracked(n) /\ BatchMirror(x, n)
    BY <1>0, <1>3 DEF IsBatchTracked, BatchRows
  <2>2. CASE n # p \/ x \notin {from, to}
    BY <1>1, <1>2, <2>1, <2>2, BatchMirrorStays
  <2>3. CASE n = p /\ x \in {from, to}
    <3>1. PICK take \in FefoDraws(from, p, Whole * q) :
             /\ batchQty'[from][p] = AfterDraw(from, p, take)
             /\ \A b \in Batches : batchQty'[to][p][b]
                  = RoundedRatio(Whole * batchQty[to][p][b] + take[b], Whole)
      BY <1>0, <2>1, <2>3, CarryPick
    <3>2. BatchSum(from, p)' = BatchSum(from, p) - q
      BY <1>0, <3>1, DrawnSum
    <3>3. BatchSum(to, p)' = BatchSum(to, p) + q
      <4> DEFINE arrived == batchQty'[to][p]
      <4>1. \A b \in Batches : arrived[b]
               = RoundedRatio(Whole * batchQty[to][p][b] + take[b], Whole)
        BY <3>1
      <4> HIDE DEF arrived
      <4>2. SumFunctionOnSet(arrived, Batches)
              = SumFunctionOnSet(batchQty[to][p], Batches) + q
        BY <1>0, <4>1, ArrivedBalance
      <4>. QED BY <4>2 DEF arrived, BatchSum
    <3>. QED BY <1>1, <2>1, <2>3, <3>2, <3>3 DEF BatchMirror
  <2>. QED BY <2>2, <2>3
<1>. QED BY <1>3 DEF BatchRows

LEMMA AssembleBalances ==
    ASSUME TypeOK, TypeOK', BatchesRanked, BatchRows, NEW w \in Warehouses,
           NEW p \in Products, NEW q \in Quantities, Assemble(w, p, q)
    PROVE  BatchRows'
<1> DEFINE batchLines == {c \in Components(p) : IsBatchTracked(c)}
<1>0. tracking' = tracking /\ ~ IsBatchTracked(p) /\ Components(p) \subseteq Products
  BY StockConstants DEF Assemble
<1>1. PICK take \in [batchLines -> UNION {FefoDraws(w, c, Need(p, c, q)) : c \in batchLines}] :
        /\ \A c \in batchLines : take[c] \in FefoDraws(w, c, Need(p, c, q))
        /\ batchQty' = [batchQty EXCEPT ![w] = [c \in Products |->
              IF c \in batchLines THEN AfterDraw(w, c, take[c]) ELSE batchQty[w][c]]]
  BY DEF Assemble, ReleaseComponents
<1>2. ASSUME NEW x \in Warehouses, NEW n \in Products, IsBatchTracked(n)'
      PROVE  BatchMirror(x, n)'
  <2>1. IsBatchTracked(n) /\ BatchMirror(x, n) /\ n # p
    BY <1>0, <1>2 DEF IsBatchTracked, BatchRows
  <2>2. CASE x = w /\ n \in batchLines
    <3>1. batchQty'[w][n] = AfterDraw(w, n, take[n])
      BY <1>1, <2>2 DEF TypeOK
    <3>2. take[n] \in FefoDraws(w, n, Need(p, n, q)) /\ n \in Components(p)
      BY <1>1, <2>2
    <3>. QED BY <2>1, <2>2, <3>1, <3>2, LineSum
  <2>3. CASE ~ (x = w /\ n \in batchLines)
    <3>1. batchQty'[x][n] = batchQty[x][n]
      BY <1>1, <2>3 DEF TypeOK
    <3>2. ~ (x = w /\ n \in Components(p) \cup {p})
      BY <2>1, <2>3
    <3>3. OnHandOf(x, n)' = OnHandOf(x, n)
      BY <3>2, AssembleRows, OnHandStays
    <3>. QED BY <2>1, <3>1, <3>3, BatchMirrorStays
  <2>. QED BY <2>2, <2>3
<1>. QED BY <1>2 DEF BatchRows

\* Ranks first: they do not depend on the tracking flags.
LEMMA StockKeepsRanks ==
    ASSUME TypeOK, TypeOK', BatchesRanked, Next
    PROVE  BatchesRanked'
<1>1. CASE StockOperation
  <2>1. PICK w \in Warehouses, p \in Products, v \in Variants, q \in Quantities :
           \/ \E S \in SUBSET Serials, b \in Batches, d \in Dates \cup {NoDate} :
                 \/ \E c \in Costs : StockIn(w, p, v, q, c, S, b, d)
                 \/ AdjustUp(w, p, v, q, S, b, d)
           \/ \E S \in SUBSET Serials :
                 \/ StockOut(w, p, v, q, S)
                 \/ AdjustDown(w, p, v, q, S)
                 \/ \E to \in Warehouses : Transfer(w, to, p, v, q, S)
           \/ Assemble(w, p, q)
    BY <1>1 DEF StockOperation
  <2>2. ASSUME NEW S, NEW b \in Batches, NEW d,
               AdjustUp(w, p, v, q, S, b, d) \/ \E c : StockIn(w, p, v, q, c, S, b, d)
        PROVE  BatchesRanked'
    <3>1. ReceiveTracked(w, p, q, S, b, d)
      BY <2>2 DEF AdjustUp, StockIn
    <3>. QED BY <3>1, RanksReceiveTracked
  <2>3. ASSUME NEW S, StockOut(w, p, v, q, S) \/ AdjustDown(w, p, v, q, S)
        PROVE  BatchesRanked'
    <3>1. ReleaseTracked(w, p, q, S)
      BY <2>3 DEF StockOut, AdjustDown
    <3>. QED BY <3>1, RanksReleaseTracked
  <2>4. ASSUME NEW S, NEW to \in Warehouses, Transfer(w, to, p, v, q, S)
        PROVE  BatchesRanked'
    <3>1. w # to /\ CarryTracked(w, to, p, q, S)
      BY <2>4 DEF Transfer
    <3>. QED BY <3>1, RanksCarryTracked
  <2>. QED BY <2>1, <2>2, <2>3, <2>4, RanksAssemble
<1>2. CASE \/ \E w \in Warehouses, p \in Products, v \in Variants : MarkRead(w, p, v)
           \/ \E p \in Products, mode \in Modes : Retrack(p, mode)
           \/ \E p \in Products, v \in Variants : DeleteVariant(p, v)
  BY <1>2, RanksSame DEF MarkRead, Retrack, DeleteVariant, batchVars
<1>. QED BY <1>1, <1>2 DEF Next

LEMMA StockKeepsBatchRows ==
    ASSUME TypeOK, TypeOK', BatchesRanked, BatchRows, Next, tracking' = tracking,
           ~ StockDropped
    PROVE  BatchRows'
<1>1. CASE StockOperation
  <2>1. PICK w \in Warehouses, p \in Products, v \in Variants, q \in Quantities :
           \/ \E S \in SUBSET Serials, b \in Batches, d \in Dates \cup {NoDate} :
                 \/ \E c \in Costs : StockIn(w, p, v, q, c, S, b, d)
                 \/ AdjustUp(w, p, v, q, S, b, d)
           \/ \E S \in SUBSET Serials :
                 \/ StockOut(w, p, v, q, S)
                 \/ AdjustDown(w, p, v, q, S)
                 \/ \E to \in Warehouses : Transfer(w, to, p, v, q, S)
           \/ Assemble(w, p, q)
    BY <1>1 DEF StockOperation
  <2>2. ASSUME NEW S, NEW b \in Batches, NEW d,
               AdjustUp(w, p, v, q, S, b, d) \/ \E c : StockIn(w, p, v, q, c, S, b, d)
        PROVE  BatchRows'
    <3>1. /\ ReceiveTracked(w, p, q, S, b, d)
          /\ onHand' = [onHand EXCEPT ![w][p][v] = @ + q]
      BY <2>2 DEF AdjustUp, StockIn
    <3>. QED BY <3>1, ReceiveBalances
  <2>3. ASSUME NEW S, StockOut(w, p, v, q, S) \/ AdjustDown(w, p, v, q, S)
        PROVE  BatchRows'
    <3>1. /\ ReleaseTracked(w, p, q, S)
          /\ onHand' = [onHand EXCEPT ![w][p][v] = @ - q]
      BY <2>3 DEF StockOut, AdjustDown
    <3>. QED BY <3>1, ReleaseBalances
  <2>. QED BY <2>1, <2>2, <2>3, TransferBalances, AssembleBalances
<1>2. CASE \/ \E w \in Warehouses, p \in Products, v \in Variants : MarkRead(w, p, v)
           \/ \E p \in Products, mode \in Modes : Retrack(p, mode)
           \/ \E p \in Products, v \in Variants : DeleteVariant(p, v)
  <2>1. onHand' = onHand /\ batchQty' = batchQty
    BY <1>2, EmptyVariantDeleted DEF MarkRead, Retrack, DeleteVariant, batchVars
  <2>2. ASSUME NEW w \in Warehouses, NEW p \in Products, IsBatchTracked(p)'
        PROVE  BatchMirror(w, p)'
    <3>1. BatchMirror(w, p)
      BY <2>2 DEF IsBatchTracked, BatchRows
    <3>. QED BY <2>1, <3>1, BatchMirrorStays, OnHandStays
  <2>. QED BY <2>2 DEF BatchRows
<1>. QED BY <1>1, <1>2 DEF Next

\* While nobody changes the tracking flags or deletes a variant that has stock,
\* the batch balances of a product in a warehouse add up to what its stock rows
\* count, through every FEFO draw, transfer and assembly, although each row is
\* rounded on its own: the mirror BatchStock's docstring promises.
THEOREM BatchesMirrorStock == MCSpec => []KeptBatchesMirrorOnHand
<1> DEFINE Inv == BatchesRanked /\ (~ reshaped => BatchRows)
<1>1. MCInit => Inv
  <2> SUFFICES ASSUME Init PROVE BatchesRanked /\ BatchRows
    BY DEF MCInit
  <2>1. BatchesRanked
    <3>1. \A p \in Products, b \in Batches : created[p][b] = 0
      BY DEF Init
    <3>2. ASSUME NEW p \in Products, NEW b \in Batches
          PROVE  created[p][b] <= Cardinality(KnownBatches(p))
      <4>1. KnownBatches(p) \in SUBSET Batches
        BY DEF KnownBatches
      <4>2. Cardinality(KnownBatches(p)) \in Nat
        BY <4>1, StockConstants, FS_Subset, FS_CardinalityType
      <4>. QED BY <3>1, <4>2
    <3>3. \A w \in Warehouses, p \in Products, b \in Batches : batchQty[w][p][b] = 0
      BY DEF Init
    <3>4. \A p \in Products : Ranked(p)
      BY <3>1, <3>2 DEF Ranked
    <3>5. Recorded
      BY <3>3 DEF Recorded
    <3>. QED BY <3>4, <3>5 DEF BatchesRanked
  <2>2. ASSUME NEW w \in Warehouses, NEW p \in Products
        PROVE  BatchMirror(w, p)
    <3>1. /\ \A v \in Variants : onHand[w][p][v] = 0
          /\ \A b \in Batches : batchQty[w][p][b] = 0
      BY DEF Init, NoStock
    <3>2. OnHandOf(w, p) = 0
      BY <3>1, StockConstants, SumZero DEF OnHandOf
    <3>3. BatchSum(w, p) = 0
      BY <3>1, StockConstants, SumZero DEF BatchSum
    <3>. QED BY <3>2, <3>3 DEF BatchMirror
  <2>. QED BY <2>1, <2>2 DEF BatchRows
<1>2. TypeOK /\ TypeOK' /\ Inv /\ [MCNext]_<<vars, reshaped>> => Inv'
  <2> SUFFICES ASSUME TypeOK, TypeOK', Inv, [MCNext]_<<vars, reshaped>> PROVE Inv'
    OBVIOUS
  <2>1. CASE MCNext
    <3>1. Next /\ (~ reshaped' => ~ reshaped /\ tracking' = tracking /\ ~ StockDropped)
      BY <2>1 DEF MCNext
    <3>. QED BY <3>1, StockKeepsRanks, StockKeepsBatchRows
  <2>2. CASE UNCHANGED <<vars, reshaped>>
    <3>1. /\ onHand' = onHand /\ batchQty' = batchQty /\ created' = created
          /\ tracking' = tracking /\ reshaped' = reshaped
      BY <2>2 DEF vars
    <3>2. BatchesRanked'
      BY <3>1, RanksSame
    <3>3. BatchRows => BatchRows'
      BY <3>1 DEF BatchRows, BatchMirror, BatchSum, IsBatchTracked, OnHandOf
    <3>. QED BY <3>1, <3>2, <3>3
  <2>. QED BY <2>1, <2>2
<1>3. Inv => KeptBatchesMirrorOnHand
  BY BatchRowsIsMirror DEF KeptBatchesMirrorOnHand
<1>4. MCSpec => []TypeOK
  BY InstanceOfSpec, TypeCorrect, PTL
<1>. QED BY <1>1, <1>2, <1>3, <1>4, PTL DEF MCSpec

=============================================================================
