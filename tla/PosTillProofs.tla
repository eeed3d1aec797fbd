--------------------------- MODULE PosTillProofs ---------------------------
(***************************************************************************)
(* Theorems of PosTill, for any number of requests in flight, with edits,  *)
(* deletions and tracked products.                                         *)
(***************************************************************************)
EXTENDS MCPosTill, SumTheorems, TLAPS

----------------------------------------------------------------------------
(* Type correctness.                                                       *)

LEMMA LoadedOpen ==
    ASSUME TypeOK, NEW r \in Requests, handler[r].op = "open"
    PROVE  handler[r].doc \in Cashiers
BY DEF TypeOK, Idle, None, Loaded

LEMMA LoadedOfTill ==
    ASSUME TypeOK, NEW r \in Requests, handler[r].op \in {"sell", "close", "save", "editTill"}
    PROVE  /\ handler[r] = [op |-> handler[r].op, doc |-> handler[r].doc, seen |-> handler[r].seen]
           /\ handler[r].doc \in Tills /\ handler[r].seen \in TillRow
BY DEF TypeOK, Idle, None, Loaded

LEMMA LoadedOfSale ==
    ASSUME TypeOK, NEW r \in Requests, handler[r].op \in {"refund", "editSale"}
    PROVE  handler[r].doc \in Sales /\ handler[r].seen \in SaleRow
BY DEF TypeOK, Idle, None, Loaded

LEMMA DoneType ==
    ASSUME TypeOK, NEW r \in Requests, Done(r)
    PROVE  handler' \in [Requests -> Loaded \cup {Idle}]
BY DEF TypeOK, Done

LEMMA WorthType == ASSUME NEW row \in SaleRow PROVE Worth(row) \in Nat
<1>1. row.qty \in Nat /\ Price \in Nat
  BY PosConstants DEF SaleRow
<1>. QED BY <1>1 DEF Worth

LEMMA RefundedType ==
    ASSUME NEW row \in SaleRow, NEW m \in Methods PROVE Refunded(row)[m] \in Int
BY WorthType DEF Refunded

LEMMA CashType == ASSUME NEW m, NEW n \in Int PROVE Cash(m, n) \in Int
BY DEF Cash

\* What the completed cash sales of a till come to.
LEMMA TakenType ==
    ASSUME TypeOK, NEW s
    PROVE  SumFunctionOnSet([t \in Sales |-> Worth(sale[t])], CashSales(s)) \in Nat
<1> DEFINE f == [t \in Sales |-> Worth(sale[t])]
<1>1. CashSales(s) \subseteq Sales /\ IsFiniteSet(CashSales(s))
  BY PosConstants, FS_Subset DEF CashSales
<1>2. \A t \in CashSales(s) : f[t] \in Nat
  BY <1>1, WorthType DEF TypeOK
<1> HIDE DEF f
<1>3. SumFunctionOnSet(f, CashSales(s)) \in Nat
  BY <1>1, <1>2, SumNat
<1>. QED BY <1>3 DEF f

LEMMA LoadType == ASSUME TypeOK, NEW r \in Requests, Load(r) PROVE TypeOK'
<1>1. ASSUME NEW op, NEW doc, NEW seen, Begin(r, op, doc, seen),
             [op |-> op, doc |-> doc, seen |-> seen] \in Loaded
      PROVE  TypeOK'
  <2> DEFINE h == [op |-> op, doc |-> doc, seen |-> seen]
  <2>1. h \in Loaded /\ handler' = [handler EXCEPT ![r] = h]
    BY <1>1 DEF Begin
  <2> HIDE DEF h
  <2>. QED BY <1>1, <2>1 DEF Begin, goods, TypeOK
<1>2. ASSUME NEW c \in Cashiers, LoadOpen(r, c) PROVE TypeOK'
  <2>1. MayOpen(c) \in BOOLEAN
    BY DEF MayOpen
  <2>2. [op |-> "open", doc |-> c, seen |-> MayOpen(c)] \in Loaded
    BY <2>1 DEF Loaded
  <2>. QED BY <1>1, <1>2, <2>2 DEF LoadOpen
<1>3. ASSUME NEW s \in Tills, NEW op \in {"sell", "close", "editTill"}, LoadTill(r, op, s)
      PROVE  TypeOK'
  <2>1. [op |-> op, doc |-> s, seen |-> till[s]] \in Loaded
    BY DEF Loaded, TypeOK
  <2>. QED BY <1>1, <1>3, <2>1 DEF LoadTill
<1>4. ASSUME NEW t \in Sales, NEW op \in {"refund", "editSale"}, LoadSale(r, op, t)
      PROVE  TypeOK'
  <2>1. [op |-> op, doc |-> t, seen |-> sale[t]] \in Loaded
    BY DEF Loaded, TypeOK
  <2>. QED BY <1>1, <1>4, <2>1 DEF LoadSale
<1>. QED BY <1>2, <1>3, <1>4 DEF Load

LEMMA TillType ==
    ASSUME TypeOK, NEW s \in Tills
    PROVE  /\ \A row \in TillRow : [till EXCEPT ![s] = row] \in [Tills -> TillRow]
           /\ \A n \in Nat : [till EXCEPT ![s].status = "closed", ![s].expected = n]
                                 \in [Tills -> TillRow]
BY DEF TypeOK, TillRow

\* Two fields of a snapshot changed at once.
LEMMA SummedUp ==
    ASSUME NEW h, NEW n, h = [op |-> h.op, doc |-> h.doc, seen |-> h.seen]
    PROVE  [h EXCEPT !.op = "save", !.seen.expected = n]
               = [op |-> "save", doc |-> h.doc, seen |-> [h.seen EXCEPT !.expected = n]]
<1> DEFINE z == [h.seen EXCEPT !.expected = n]
           o == h.op
           d == h.doc
           s == h.seen
<1>1. [h EXCEPT !.op = "save", !.seen.expected = n] = [h EXCEPT !.op = "save", !.seen = z]
  OBVIOUS
<1>2. h = [op |-> o, doc |-> d, seen |-> s]
  OBVIOUS
<1> HIDE DEF z, o, d, s
<1>3. [h EXCEPT !.op = "save", !.seen = z] = [[h EXCEPT !.op = "save"] EXCEPT !.seen = z]
  OBVIOUS
<1>4. [h EXCEPT !.op = "save"] = [op |-> "save", doc |-> d, seen |-> s]
  BY <1>2
<1>5. [[op |-> "save", doc |-> d, seen |-> s] EXCEPT !.seen = z]
        = [op |-> "save", doc |-> d, seen |-> z]
  OBVIOUS
<1>6. [h EXCEPT !.op = "save", !.seen.expected = n] = [op |-> "save", doc |-> d, seen |-> z]
  BY <1>1, <1>3, <1>4, <1>5
<1>. QED BY <1>6 DEF z, d

LEMMA FinishType == ASSUME TypeOK, NEW r \in Requests, Finish(r) PROVE TypeOK'
<1> DEFINE h == handler[r]
<1>1. ASSUME NEW s \in Tills, NEW float \in Floats, OpenTill(r, s, float) PROVE TypeOK'
  <2>1. h.doc \in Cashiers /\ float \in Nat
    BY <1>1, LoadedOpen, PosConstants DEF OpenTill
  <2>2. [status |-> "open", cashier |-> h.doc, opening |-> float, expected |-> 0] \in TillRow
    BY <2>1 DEF TillRow
  <2>3. till' \in [Tills -> TillRow]
    BY <1>1, <2>2, TillType DEF OpenTill
  <2>4. drawer' \in [Tills -> Int]
    BY <1>1, <2>1 DEF OpenTill, TypeOK
  <2>. QED BY <1>1, <2>3, <2>4, DoneType DEF OpenTill, goods, TypeOK
<1>2. ASSUME SumUp(r) PROVE TypeOK'
  <2> DEFINE taken == SumFunctionOnSet([t \in Sales |-> Worth(sale[t])], CashSales(h.doc))
             n == h.seen.opening + taken
             new == [op |-> "save", doc |-> h.doc, seen |-> [h.seen EXCEPT !.expected = n]]
  <2>1. /\ h = [op |-> h.op, doc |-> h.doc, seen |-> h.seen]
        /\ h.doc \in Tills /\ h.seen \in TillRow
    BY <1>2, LoadedOfTill DEF SumUp
  <2>2. n \in Nat
    <3>1. taken \in Nat
      BY TakenType
    <3>2. h.seen.opening \in Nat
      BY <2>1, PosConstants DEF TillRow
    <3> HIDE DEF taken
    <3>. QED BY <3>1, <3>2
  <2>3. handler' = [handler EXCEPT ![r].op = "save", ![r].seen.expected = n]
    BY <1>2 DEF SumUp
  <2> HIDE DEF n
  <2>4. handler' = [handler EXCEPT ![r] = new]
    <3>1. [handler[r] EXCEPT !.op = "save", !.seen.expected = n] = new
      BY <2>1, SummedUp
    <3>2. handler' = [handler EXCEPT ![r] = [handler[r] EXCEPT !.op = "save", !.seen.expected = n]]
      BY <2>3 DEF TypeOK
    <3>. QED BY <3>1, <3>2
  <2>5. new \in Loaded
    BY <2>1, <2>2 DEF Loaded, TillRow
  <2> HIDE DEF new
  <2>. QED BY <1>2, <2>4, <2>5 DEF SumUp, goods, TypeOK
<1>3. ASSUME CloseTill(r) PROVE TypeOK'
  <2>1. h.doc \in Tills /\ h.seen.expected \in Nat
    BY <1>3, LoadedOfTill DEF CloseTill, TillRow
  <2>2. till' \in [Tills -> TillRow]
    BY <1>3, <2>1, TillType DEF CloseTill
  <2>. QED BY <1>3, <2>2, DoneType DEF CloseTill, goods, TypeOK
<1>4. ASSUME Refund(r) PROVE TypeOK'
  <2>1. h.doc \in Sales /\ h.seen \in SaleRow
    BY <1>4, LoadedOfSale DEF Refund
  <2>2. PutBack(h.doc, h.seen) \in Nat
    BY <2>1, PosConstants DEF PutBack, SaleRow
  <2>3. onHand' \in Nat /\ returned' \in [Sales -> Nat]
    BY <1>4, <2>1, <2>2 DEF Refund, TypeOK
  <2>4. sale' \in [Sales -> SaleRow]
    BY <1>4, <2>1 DEF Refund, TypeOK, SaleRow
  <2>5. posted' \in [Sales -> [Methods -> Int]]
    <3>1. \A m \in Methods : posted[h.doc][m] - Refunded(h.seen)[m] \in Int
      BY <2>1, RefundedType DEF TypeOK
    <3>2. [m \in Methods |-> posted[h.doc][m] - Refunded(h.seen)[m]] \in [Methods -> Int]
      BY <3>1
    <3>3. posted' = [posted EXCEPT ![h.doc] =
                        [m \in Methods |-> posted[h.doc][m] - Refunded(h.seen)[m]]]
      BY <1>4, <2>1 DEF Refund, TypeOK
    <3>. QED BY <3>2, <3>3 DEF TypeOK
  <2>6. drawer' \in [Tills -> Int]
    <3> DEFINE back == Cash(h.seen.method, Worth(h.seen))
    <3>1. back \in Int
      BY <2>1, WorthType, CashType
    <3>2. drawer' = [drawer EXCEPT ![h.seen.till] =
                        IF till[h.seen.till].status = "open" THEN @ - back ELSE @]
      BY <1>4 DEF Refund
    <3> HIDE DEF back
    <3>3. drawer \in [Tills -> Int]
      BY DEF TypeOK
    <3>4. CASE h.seen.till \in Tills
      BY <3>1, <3>2, <3>3, <3>4
    <3>5. CASE h.seen.till \notin Tills
      BY <3>2, <3>3, <3>5
    <3>. QED BY <3>4, <3>5
  <2>. QED BY <1>4, <2>3, <2>4, <2>5, <2>6, DoneType DEF Refund, TypeOK
<1>5. ASSUME Refuse(r) PROVE TypeOK'
  BY <1>5, DoneType DEF Refuse, goods, TypeOK
<1>6. ASSUME NEW float \in Floats, EditTill(r, float) PROVE TypeOK'
  <2>1. h.doc \in Tills /\ Edited(h.seen, float) \in TillRow
    BY <1>6, LoadedOfTill DEF EditTill, Edited, TillRow
  <2>2. till' \in [Tills -> TillRow]
    BY <1>6, <2>1, TillType DEF EditTill
  <2>. QED BY <1>6, <2>2, DoneType DEF EditTill, goods, TypeOK
<1>7. ASSUME NEW t \in Sales, NEW method \in Methods, NEW qty \in Quantities,
             Sell(r, t, method, qty)
      PROVE  TypeOK'
  <2> DEFINE row == [status |-> "completed", till |-> h.doc, method |-> method, qty |-> qty]
  <2>1. h.doc \in Tills /\ qty \in Nat
    BY <1>7, LoadedOfTill, PosConstants DEF Sell
  <2>2. row \in SaleRow
    BY <2>1 DEF SaleRow
  <2>3. /\ sale' = [sale EXCEPT ![t] = row] /\ onHand' = onHand - qty /\ qty <= onHand
        /\ posted' = [posted EXCEPT ![t][method] = @ + Worth(row)]
        /\ drawer' = [drawer EXCEPT ![h.doc] = @ + Cash(method, Worth(row))]
        /\ Done(r) /\ UNCHANGED <<till, returned>>
    BY <1>7 DEF Sell
  <2>8. stripped' = stripped
    BY <1>7 DEF Sell
  <2> HIDE DEF row
  <2>4. Worth(row) \in Int /\ Cash(method, Worth(row)) \in Int
    BY <2>2, WorthType, CashType
  <2>5. sale' \in [Sales -> SaleRow] /\ onHand' \in Nat
    BY <2>1, <2>2, <2>3 DEF TypeOK
  <2>6. posted' \in [Sales -> [Methods -> Int]] /\ drawer' \in [Tills -> Int]
    BY <2>1, <2>3, <2>4 DEF TypeOK
  <2>. QED BY <2>3, <2>5, <2>6, <2>8, DoneType DEF TypeOK
<1>8. ASSUME NEW method \in Methods, NEW s \in Tills, EditSale(r, method, s) PROVE TypeOK'
  <2>1. h.doc \in Sales /\ EditedSale(h.seen, method, s) \in SaleRow
    BY <1>8, LoadedOfSale DEF EditSale, EditedSale, SaleRow
  <2>2. sale' \in [Sales -> SaleRow]
    BY <1>8, <2>1 DEF EditSale, TypeOK
  <2>. QED BY <1>8, <2>2, DoneType DEF EditSale, goods, TypeOK
<1>. QED BY <1>1, <1>2, <1>3, <1>4, <1>5, <1>6, <1>7, <1>8 DEF Finish

LEMMA NoRowsType == NoTill \in TillRow /\ NoSale \in SaleRow
BY PosConstants DEF NoTill, NoSale, TillRow, SaleRow, Methods

LEMMA StepType == TypeOK /\ [Next]_vars => TypeOK'
<1> SUFFICES ASSUME TypeOK, [Next]_vars PROVE TypeOK'
  OBVIOUS
<1>1. ASSUME NEW s \in Tills, DeleteTill(s) PROVE TypeOK'
  BY <1>1, NoRowsType DEF DeleteTill, goods, TypeOK
<1>2. ASSUME NEW t \in Sales, DeleteSale(t) PROVE TypeOK'
  BY <1>2, NoRowsType DEF DeleteSale, goods, TypeOK
<1>3. CASE UNCHANGED vars
  BY <1>3 DEF vars, goods, TypeOK
<1>. QED BY <1>1, <1>2, <1>3, LoadType, FinishType DEF Next

LEMMA InitType == Init => TypeOK
BY NoRowsType, PosConstants DEF Init, TypeOK

\* Every till, sale, posting and snapshot stays within its type: no refund, edit or
\* deletion, however late, lets stock or a drawer leave the numbers.
THEOREM TypeCorrect == Spec => []TypeOK
BY InitType, StepType, PTL DEF Spec

----------------------------------------------------------------------------
(* Refunds.  A request may write back the sale it has read, so what is     *)
(* said of the rows has to hold of the snapshots too.                      *)

ReturnedSnapshots ==
    \A r \in Requests :
        handler[r].op \in {"refund", "editSale"} /\ handler[r].seen.status = "refunded" =>
            handler[r].doc \in stripped \/ returned[handler[r].doc] > 0

ReturnInv == TypeOK /\ RefundedIsReturned /\ ReturnedSnapshots

\* Returns are never taken back and no items come back, so snapshots stay as they
\* are but for the request that moves.
LEMMA SnapshotsStay ==
    ASSUME ReturnInv, TypeOK', NEW r \in Requests, stripped' = stripped,
           \A t \in Sales : returned'[t] >= returned[t],
           \A x \in Requests \ {r} : handler'[x] = handler[x],
           handler'[r].op \in {"refund", "editSale"} /\ handler'[r].seen.status = "refunded" =>
               handler'[r].doc \in stripped \/ returned'[handler'[r].doc] > 0
    PROVE  ReturnedSnapshots'
<1> SUFFICES ASSUME NEW x \in Requests, x # r,
                    handler'[x].op \in {"refund", "editSale"},
                    handler'[x].seen.status = "refunded"
             PROVE  handler'[x].doc \in stripped \/ returned'[handler'[x].doc] > 0
  BY DEF ReturnedSnapshots
<1>1. handler'[x] = handler[x]
  OBVIOUS
<1>2. handler[x].doc \in Sales
  BY <1>1, LoadedOfSale DEF ReturnInv
<1>3. handler[x].doc \in stripped \/ returned[handler[x].doc] > 0
  BY <1>1 DEF ReturnInv, ReturnedSnapshots
<1>4. returned[handler[x].doc] \in Nat /\ returned'[handler[x].doc] \in Nat
  BY <1>2 DEF ReturnInv, TypeOK
<1>. QED BY <1>1, <1>2, <1>3, <1>4

LEMMA DoneSnapshots ==
    ASSUME ReturnInv, TypeOK', NEW r \in Requests, Done(r), stripped' = stripped,
           \A t \in Sales : returned'[t] >= returned[t]
    PROVE  ReturnedSnapshots'
<1>1. handler'[r] = Idle /\ \A x \in Requests \ {r} : handler'[x] = handler[x]
  BY DEF Done, ReturnInv, TypeOK
<1>2. handler'[r].op \notin {"refund", "editSale"}
  BY <1>1 DEF Idle, None
<1>. QED BY <1>1, <1>2, SnapshotsStay

\* A step that leaves the sales and their returns alone and finishes a request.
LEMMA AsideKeeps ==
    ASSUME ReturnInv, TypeOK', NEW r \in Requests, Done(r), UNCHANGED <<sale, returned, stripped>>
    PROVE  ReturnInv'
<1>1. \A t \in Sales : returned'[t] >= returned[t]
  BY DEF ReturnInv, TypeOK
<1>2. RefundedIsReturned'
  BY DEF ReturnInv, RefundedIsReturned
<1>. QED BY <1>1, <1>2, DoneSnapshots DEF ReturnInv

LEMMA LoadKeeps ==
    ASSUME ReturnInv, TypeOK', NEW r \in Requests, Load(r)
    PROVE  ReturnInv'
<1>1. UNCHANGED <<sale, returned, stripped>> /\ \A x \in Requests \ {r} : handler'[x] = handler[x]
  BY DEF Load, LoadOpen, LoadTill, LoadSale, Begin, goods, ReturnInv, TypeOK
<1>2. \A t \in Sales : returned'[t] >= returned[t]
  BY <1>1 DEF ReturnInv, TypeOK
<1>3. ASSUME handler'[r].op \in {"refund", "editSale"}, handler'[r].seen.status = "refunded"
      PROVE  handler'[r].doc \in stripped \/ returned'[handler'[r].doc] > 0
  <2>1. PICK t \in Sales, op \in {"refund", "editSale"} : LoadSale(r, op, t)
    <3>1. handler' = [handler EXCEPT ![r] = handler'[r]]
      BY DEF Load, LoadOpen, LoadTill, LoadSale, Begin, ReturnInv, TypeOK
    <3>2. ASSUME NEW c \in Cashiers, LoadOpen(r, c) PROVE FALSE
      BY <1>3, <3>2 DEF LoadOpen, Begin, ReturnInv, TypeOK
    <3>3. ASSUME NEW s \in Tills, NEW op \in {"sell", "close", "editTill"}, LoadTill(r, op, s)
          PROVE  FALSE
      BY <1>3, <3>3 DEF LoadTill, Begin, ReturnInv, TypeOK
    <3>. QED BY <3>2, <3>3 DEF Load
  <2>2. handler'[r].doc = t /\ handler'[r].seen = sale[t]
    BY <2>1 DEF LoadSale, Begin, ReturnInv, TypeOK
  <2>. QED BY <1>1, <1>3, <2>2 DEF ReturnInv, RefundedIsReturned
<1>4. ReturnedSnapshots'
  BY <1>1, <1>2, <1>3, SnapshotsStay
<1>5. RefundedIsReturned'
  BY <1>1 DEF ReturnInv, RefundedIsReturned
<1>. QED BY <1>4, <1>5 DEF ReturnInv

LEMMA FinishKeeps ==
    ASSUME ReturnInv, TypeOK', NEW r \in Requests, Finish(r)
    PROVE  ReturnInv'
<1> DEFINE h == handler[r]
<1>0. \A t \in Sales : returned[t] \in Nat
  BY DEF ReturnInv, TypeOK
<1>1. ASSUME NEW s \in Tills, NEW float \in Floats, OpenTill(r, s, float) PROVE ReturnInv'
  BY <1>1, AsideKeeps DEF OpenTill, goods
<1>2. ASSUME SumUp(r) PROVE ReturnInv'
  <2>1. UNCHANGED <<sale, returned, stripped>> /\ h.op = "close"
    BY <1>2 DEF SumUp, goods
  <2>2. h = [op |-> h.op, doc |-> h.doc, seen |-> h.seen]
    BY <2>1, LoadedOfTill DEF ReturnInv
  <2>3. handler'[r].op = "save" /\ \A x \in Requests \ {r} : handler'[x] = handler[x]
    BY <1>2, <2>2 DEF SumUp, ReturnInv, TypeOK
  <2>4. \A t \in Sales : returned'[t] >= returned[t]
    BY <1>0, <2>1
  <2>5. ReturnedSnapshots'
    BY <2>1, <2>3, <2>4, SnapshotsStay
  <2>. QED BY <2>1, <2>5 DEF ReturnInv, RefundedIsReturned
<1>3. ASSUME CloseTill(r) PROVE ReturnInv'
  BY <1>3, AsideKeeps DEF CloseTill, goods
<1>4. ASSUME Refund(r) PROVE ReturnInv'
  <2>1. h.doc \in Sales
    BY <1>4, LoadedOfSale DEF Refund, ReturnInv
  <2>2. /\ returned' = IF h.doc \in stripped THEN returned
                         ELSE [returned EXCEPT ![h.doc] = @ + 1]
        /\ sale' = [sale EXCEPT ![h.doc].status = "refunded"]
        /\ Done(r) /\ stripped' = stripped
    BY <1>4 DEF Refund
  <2>3. \A t \in Sales : returned'[t] = IF t = h.doc /\ t \notin stripped
                                        THEN returned[t] + 1 ELSE returned[t]
    BY <2>1, <2>2 DEF ReturnInv, TypeOK
  <2>4. \A t \in Sales : t # h.doc => sale'[t] = sale[t]
    BY <2>1, <2>2 DEF ReturnInv, TypeOK
  <2>5. RefundedIsReturned'
    BY <1>0, <2>2, <2>3, <2>4 DEF ReturnInv, RefundedIsReturned
  <2>6. \A t \in Sales : returned'[t] >= returned[t]
    BY <1>0, <2>3
  <2>. QED BY <2>2, <2>5, <2>6, DoneSnapshots DEF ReturnInv
<1>5. ASSUME Refuse(r) PROVE ReturnInv'
  BY <1>5, AsideKeeps DEF Refuse, goods
<1>6. ASSUME NEW float \in Floats, EditTill(r, float) PROVE ReturnInv'
  BY <1>6, AsideKeeps DEF EditTill, goods
<1>7. ASSUME NEW t \in Sales, NEW method \in Methods, NEW qty \in Quantities,
             Sell(r, t, method, qty)
      PROVE  ReturnInv'
  <2>1. UNCHANGED <<returned, stripped>> /\ Done(r)
    BY <1>7 DEF Sell
  <2>2. sale'[t].status = "completed" /\ \A u \in Sales : u # t => sale'[u] = sale[u]
    BY <1>7 DEF Sell, ReturnInv, TypeOK
  <2>3. RefundedIsReturned'
    BY <2>1, <2>2 DEF ReturnInv, RefundedIsReturned
  <2>4. \A u \in Sales : returned'[u] >= returned[u]
    BY <1>0, <2>1
  <2>. QED BY <2>1, <2>3, <2>4, DoneSnapshots DEF ReturnInv
<1>8. ASSUME NEW method \in Methods, NEW s \in Tills, EditSale(r, method, s) PROVE ReturnInv'
  <2>1. h.op = "editSale" /\ h.doc \in Sales /\ h.seen \in SaleRow
    BY <1>8, LoadedOfSale DEF EditSale, ReturnInv
  <2>2. UNCHANGED <<returned, stripped>> /\ Done(r)
        /\ sale' = [sale EXCEPT ![h.doc] = EditedSale(h.seen, method, s)]
    BY <1>8 DEF EditSale, goods
  <2>3. EditedSale(h.seen, method, s).status = h.seen.status
    BY <2>1 DEF EditedSale, SaleRow
  <2>4. sale'[h.doc].status = h.seen.status /\ \A u \in Sales : u # h.doc => sale'[u] = sale[u]
    BY <2>1, <2>2, <2>3 DEF ReturnInv, TypeOK
  <2>5. RefundedIsReturned'
    BY <2>1, <2>2, <2>4 DEF ReturnInv, RefundedIsReturned, ReturnedSnapshots
  <2>6. \A u \in Sales : returned'[u] >= returned[u]
    BY <1>0, <2>2
  <2>. QED BY <2>2, <2>5, <2>6, DoneSnapshots DEF ReturnInv
<1>. QED BY <1>1, <1>2, <1>3, <1>4, <1>5, <1>6, <1>7, <1>8 DEF Finish

LEMMA StepKeeps == ReturnInv /\ [Next]_vars => ReturnInv'
<1> SUFFICES ASSUME ReturnInv, [Next]_vars PROVE ReturnInv'
  OBVIOUS
<1>0. TypeOK'
  BY StepType DEF ReturnInv
<1>1. ASSUME NEW s \in Tills, DeleteTill(s) PROVE ReturnInv'
  BY <1>0, <1>1 DEF DeleteTill, goods, ReturnInv, RefundedIsReturned, ReturnedSnapshots
<1>2. ASSUME NEW t \in Sales, DeleteSale(t) PROVE ReturnInv'
  <2>1. sale'[t].status # "refunded" /\ \A u \in Sales : u # t => sale'[u] = sale[u]
    BY <1>2 DEF DeleteSale, NoSale, None, ReturnInv, TypeOK
  <2>2. UNCHANGED <<returned, handler>> /\ stripped \subseteq stripped'
    BY <1>2 DEF DeleteSale
  <2>. QED BY <1>0, <2>1, <2>2 DEF ReturnInv, RefundedIsReturned, ReturnedSnapshots
<1>3. CASE UNCHANGED vars
  BY <1>0, <1>3 DEF vars, goods, ReturnInv, RefundedIsReturned, ReturnedSnapshots
<1>. QED BY <1>0, <1>1, <1>2, <1>3, LoadKeeps, FinishKeeps DEF Next

\* However requests overlap and whatever is edited and deleted, a sale that has kept
\* its items is shown as refunded only if its goods were put back
\* (POSTransactionViewSet.refund).
THEOREM RefundsAreReturned == Spec => []RefundedIsReturned
<1>1. Init => ReturnInv
  <2>1. Init => RefundedIsReturned /\ ReturnedSnapshots
    BY DEF Init, RefundedIsReturned, ReturnedSnapshots, NoSale, Idle, None
  <2>. QED BY <2>1, InitType DEF ReturnInv
<1>2. ReturnInv => RefundedIsReturned
  BY DEF ReturnInv
<1>. QED BY <1>1, <1>2, StepKeeps, PTL DEF Spec

----------------------------------------------------------------------------
(* What holds as long as requests do not overlap, edits and deletions      *)
(* included: the only request in flight has seen the rows as they are.     *)

Overlapping == \E r, s \in Requests : r # s /\ handler[r] # Idle /\ handler[s] # Idle

Free(c, tills) == \A s \in Tills : ~ (tills[s].status = "open" /\ tills[s].cashier = c)

Fresh(h, tills, sales) ==
    /\ h.op = "open" /\ h.seen => Free(h.doc, tills)
    /\ h.op \in {"sell", "close", "editTill"} => h.seen = tills[h.doc]
    /\ h.op = "save" => /\ tills[h.doc].status = "open"
                        /\ h.seen.opening = tills[h.doc].opening
    /\ h.op \in {"refund", "editSale"} => h.seen = sales[h.doc]

AllFresh == \A r \in Requests : handler[r] # Idle => Fresh(handler[r], till, sale)

AloneInv ==
    /\ TypeOK
    /\ past # "overlapped" => ~ Overlapping /\ OneOpenSession /\ AllFresh

\* Once the request in flight has ended there is none.
LEMMA LastOneDone ==
    ASSUME TypeOK, ~ Overlapping, NEW r \in Requests, handler[r].op # None, Done(r)
    PROVE  AllFresh' /\ \A x \in Requests : handler'[x] = Idle
<1>1. handler[r] # Idle
  BY DEF Idle
<1>. QED BY <1>1 DEF TypeOK, Overlapping, Done, AllFresh

LEMMA AloneLoad ==
    ASSUME TypeOK, ~ Overlapping', OneOpenSession, AllFresh, NEW r \in Requests, Load(r)
    PROVE  OneOpenSession' /\ AllFresh' /\ LeavesClosed
<1>1. ASSUME NEW op, NEW doc, NEW seen, Begin(r, op, doc, seen), op # None,
             Fresh([op |-> op, doc |-> doc, seen |-> seen], till, sale)
      PROVE  OneOpenSession' /\ AllFresh' /\ LeavesClosed
  <2> DEFINE h == [op |-> op, doc |-> doc, seen |-> seen]
  <2>1. UNCHANGED <<till, sale>> /\ handler' = [handler EXCEPT ![r] = h] /\ h # Idle
    <3>1. h.op = op /\ Idle.op = None
      BY DEF Idle
    <3>. QED BY <1>1, <3>1 DEF Begin
  <2>2. handler'[r] = h /\ Fresh(h, till, sale)
    BY <1>1, <2>1 DEF TypeOK
  <2> HIDE DEF h
  <2>3. \A x \in Requests : x # r => handler'[x] = Idle
    BY <2>1, <2>2 DEF Overlapping
  <2>4. AllFresh'
    BY <2>1, <2>2, <2>3 DEF AllFresh
  <2>. QED BY <2>1, <2>4 DEF OneOpenSession, LeavesClosed
<1>2. ASSUME NEW c \in Cashiers, LoadOpen(r, c)
      PROVE  OneOpenSession' /\ AllFresh' /\ LeavesClosed
  <2>1. Fresh([op |-> "open", doc |-> c, seen |-> MayOpen(c)], till, sale)
    BY DEF Fresh, Free, MayOpen
  <2>. QED BY <1>1, <1>2, <2>1 DEF LoadOpen, None
<1>3. ASSUME NEW s \in Tills, NEW op \in {"sell", "close", "editTill"}, LoadTill(r, op, s)
      PROVE  OneOpenSession' /\ AllFresh' /\ LeavesClosed
  <2>1. Fresh([op |-> op, doc |-> s, seen |-> till[s]], till, sale)
    BY DEF Fresh
  <2>. QED BY <1>1, <1>3, <2>1 DEF LoadTill, None
<1>4. ASSUME NEW t \in Sales, NEW op \in {"refund", "editSale"}, LoadSale(r, op, t)
      PROVE  OneOpenSession' /\ AllFresh' /\ LeavesClosed
  <2>1. Fresh([op |-> op, doc |-> t, seen |-> sale[t]], till, sale)
    BY DEF Fresh
  <2>. QED BY <1>1, <1>4, <2>1 DEF LoadSale, None
<1>. QED BY <1>2, <1>3, <1>4 DEF Load

\* A step that leaves the tills alone, and every sale in its till.
LEMMA SalesStay ==
    ASSUME TypeOK, OneOpenSession, till' = till,
           \A t \in Sales : sale'[t].till \in {sale[t].till, None}
    PROVE  OneOpenSession' /\ LeavesClosed
BY PosConstants DEF OneOpenSession, LeavesClosed

LEMMA AloneFinish ==
    ASSUME TypeOK, TypeOK', ~ Overlapping, OneOpenSession, AllFresh, NEW r \in Requests, Finish(r)
    PROVE  OneOpenSession' /\ AllFresh' /\ LeavesClosed
<1> DEFINE h == handler[r]
<1>0. h.op # None => Fresh(h, till, sale)
  BY DEF AllFresh, Idle
<1>1. ASSUME NEW s \in Tills, NEW float \in Floats, OpenTill(r, s, float)
      PROVE  OneOpenSession' /\ AllFresh' /\ LeavesClosed
  <2>1. h.op = "open" /\ h.op # None /\ h.seen /\ till[s] = NoTill /\ Done(r) /\ sale' = sale
    BY <1>1 DEF OpenTill, None
  <2>2. /\ till'[s].status = "open" /\ till'[s].cashier = h.doc
        /\ \A z \in Tills : z # s => till'[z] = till[z]
    BY <1>1 DEF OpenTill, TypeOK
  <2>3. Free(h.doc, till)
    BY <1>0, <2>1 DEF Fresh
  <2>4. till[s].status = None /\ AllFresh'
    BY <2>1, LastOneDone DEF NoTill
  <2>5. OneOpenSession'
    BY <2>2, <2>3 DEF OneOpenSession, Free
  <2>6. LeavesClosed
    BY <2>1, <2>2, <2>4 DEF LeavesClosed, None
  <2>. QED BY <2>4, <2>5, <2>6
<1>2. ASSUME SumUp(r) PROVE OneOpenSession' /\ AllFresh' /\ LeavesClosed
  <2> DEFINE n == h.seen.opening
                  + SumFunctionOnSet([t \in Sales |-> Worth(sale[t])], CashSales(h.doc))
  <2>1. /\ h.op = "close" /\ h.op # None /\ h.seen.status = "open" /\ UNCHANGED <<till, sale>>
        /\ h = [op |-> h.op, doc |-> h.doc, seen |-> h.seen] /\ h.seen \in TillRow
    BY <1>2, LoadedOfTill DEF SumUp, None
  <2>2. h.seen = till[h.doc]
    BY <1>0, <2>1 DEF Fresh
  <2>3. /\ \A x \in Requests \ {r} : handler'[x] = handler[x]
        /\ handler'[r] = [handler[r] EXCEPT !.op = "save", !.seen.expected = n]
    BY <1>2 DEF SumUp, TypeOK
  <2> HIDE DEF n
  <2>4. handler'[r] = [op |-> "save", doc |-> h.doc, seen |-> [h.seen EXCEPT !.expected = n]]
    BY <2>1, <2>3, SummedUp
  <2>5. [h.seen EXCEPT !.expected = n].opening = h.seen.opening
    BY <2>1 DEF TillRow
  <2>6. Fresh(handler'[r], till', sale')
    <3> DEFINE z == [h.seen EXCEPT !.expected = n]
    <3>1. z.opening = till[h.doc].opening /\ till[h.doc].status = "open"
      BY <2>1, <2>2, <2>5
    <3> HIDE DEF z, h
    <3>2. Fresh([op |-> "save", doc |-> h.doc, seen |-> z], till, sale)
      BY <3>1 DEF Fresh
    <3>. QED BY <2>1, <2>4, <3>2 DEF z
  <2>7. h # Idle
    BY <2>1 DEF Idle
  <2>8. \A x \in Requests : x # r => handler'[x] = Idle
    BY <2>3, <2>7 DEF Overlapping
  <2>9. AllFresh'
    BY <2>6, <2>8 DEF AllFresh
  <2>. QED BY <2>1, <2>9 DEF OneOpenSession, LeavesClosed
<1>3. ASSUME CloseTill(r) PROVE OneOpenSession' /\ AllFresh' /\ LeavesClosed
  <2>1. h.op = "save" /\ h.op # None /\ Done(r) /\ sale' = sale
    BY <1>3 DEF CloseTill, None
  <2>2. h.doc \in Tills /\ till[h.doc].status = "open"
    BY <1>0, <2>1, LoadedOfTill DEF Fresh
  <2>3. till'[h.doc].status = "closed" /\ \A z \in Tills : z # h.doc => till'[z] = till[z]
    BY <1>3, <2>2 DEF CloseTill, TypeOK, TillRow
  <2>. QED BY <2>1, <2>2, <2>3, LastOneDone DEF OneOpenSession, LeavesClosed
<1>4. ASSUME Refund(r) PROVE OneOpenSession' /\ AllFresh' /\ LeavesClosed
  <2>1. h.op = "refund" /\ h.op # None /\ Done(r) /\ till' = till
        /\ sale' = [sale EXCEPT ![h.doc].status = "refunded"]
    BY <1>4 DEF Refund, None
  <2>2. \A t \in Sales : sale'[t].till = sale[t].till
    BY <2>1 DEF TypeOK, SaleRow
  <2>. QED BY <2>1, <2>2, SalesStay, LastOneDone
<1>5. ASSUME Refuse(r) PROVE OneOpenSession' /\ AllFresh' /\ LeavesClosed
  <2>1. h.op # None /\ Done(r) /\ till' = till /\ sale' = sale
    BY <1>5 DEF Refuse, None
  <2>. QED BY <2>1, SalesStay, LastOneDone
<1>6. ASSUME NEW float \in Floats, EditTill(r, float)
      PROVE  OneOpenSession' /\ AllFresh' /\ LeavesClosed
  <2>1. h.op = "editTill" /\ h.op # None /\ Done(r) /\ sale' = sale
        /\ till' = [till EXCEPT ![h.doc] = Edited(h.seen, float)]
    BY <1>6 DEF EditTill, None
  <2>2. h.doc \in Tills /\ h.seen = till[h.doc]
    BY <1>0, <2>1, LoadedOfTill DEF Fresh
  <2>3. \A z \in Tills : /\ till'[z].status = till[z].status /\ till'[z].cashier = till[z].cashier
                         /\ till'[z].expected = till[z].expected
    BY <2>1, <2>2 DEF Edited, TypeOK, TillRow
  <2>. QED BY <2>1, <2>3, LastOneDone DEF OneOpenSession, LeavesClosed
<1>7. ASSUME NEW t \in Sales, NEW method \in Methods, NEW qty \in Quantities,
             Sell(r, t, method, qty)
      PROVE  OneOpenSession' /\ AllFresh' /\ LeavesClosed
  <2>1. h.op = "sell" /\ h.op # None /\ h.seen.status = "open" /\ Done(r) /\ till' = till
    BY <1>7 DEF Sell, AcceptsSale, None
  <2>2. h.seen = till[h.doc]
    BY <1>0, <2>1 DEF Fresh
  <2>3. sale'[t].till = h.doc /\ \A u \in Sales : u # t => sale'[u] = sale[u]
    BY <1>7 DEF Sell, TypeOK
  <2>. QED BY <2>1, <2>2, <2>3, LastOneDone DEF OneOpenSession, LeavesClosed
<1>8. ASSUME NEW method \in Methods, NEW s \in Tills, EditSale(r, method, s)
      PROVE  OneOpenSession' /\ AllFresh' /\ LeavesClosed
  <2>1. /\ h.op = "editSale" /\ h.op # None /\ Done(r) /\ till' = till
        /\ s # h.seen.till => till[s].status = "open"
        /\ sale' = [sale EXCEPT ![h.doc] = EditedSale(h.seen, method, s)]
    BY <1>8 DEF EditSale, AcceptsSale, None
  <2>2. h.doc \in Sales /\ h.seen = sale[h.doc] /\ h.seen \in SaleRow
    BY <1>0, <2>1, LoadedOfSale DEF Fresh
  <2>3. sale'[h.doc].till = s /\ \A u \in Sales : u # h.doc => sale'[u] = sale[u]
    BY <2>1, <2>2 DEF EditedSale, TypeOK, SaleRow
  <2>. QED BY <2>1, <2>2, <2>3, LastOneDone DEF OneOpenSession, LeavesClosed
<1>. QED BY <1>1, <1>2, <1>3, <1>4, <1>5, <1>6, <1>7, <1>8 DEF Finish

\* A session or a sale is deleted while no request is in flight.
LEMMA AloneDeletion ==
    ASSUME TypeOK, OneOpenSession, Deletion, \A r \in Requests : handler[r] = Idle
    PROVE  OneOpenSession' /\ AllFresh' /\ LeavesClosed
<1>1. ASSUME NEW s \in Tills, DeleteTill(s) PROVE OneOpenSession' /\ AllFresh' /\ LeavesClosed
  <2>1. /\ till'[s] = NoTill /\ \A z \in Tills : z # s => till'[z] = till[z]
        /\ UNCHANGED <<sale, handler>>
    BY <1>1 DEF DeleteTill, TypeOK
  <2>2. till'[s].status # "open"
    BY <2>1 DEF NoTill, None
  <2>. QED BY <2>1, <2>2 DEF OneOpenSession, AllFresh, LeavesClosed
<1>2. ASSUME NEW t \in Sales, DeleteSale(t) PROVE OneOpenSession' /\ AllFresh' /\ LeavesClosed
  <2>1. /\ sale'[t] = NoSale /\ \A u \in Sales : u # t => sale'[u] = sale[u]
        /\ UNCHANGED <<till, handler>>
    BY <1>2 DEF DeleteSale, TypeOK
  <2>2. AllFresh'
    BY <2>1 DEF AllFresh
  <2>. QED BY <2>1, <2>2, SalesStay DEF NoSale
<1>. QED BY <1>1, <1>2 DEF Deletion

LEMMA AloneStep ==
    ASSUME AloneInv, [MCNext]_<<vars, past>>
    PROVE  AloneInv' /\ (past' # "overlapped" => LeavesClosed)
<1>1. TypeOK /\ TypeOK'
  BY StepType DEF AloneInv, MCNext
<1>2. CASE UNCHANGED <<vars, past>>
  <2>1. UNCHANGED <<till, sale, handler, past>>
    BY <1>2 DEF vars
  <2>. QED BY <1>1, <2>1 DEF AloneInv, Overlapping, OneOpenSession, AllFresh, LeavesClosed
<1>3. CASE MCNext
  <2>1. SUFFICES ASSUME past' # "overlapped"
                 PROVE  ~ Overlapping' /\ OneOpenSession' /\ AllFresh' /\ LeavesClosed
    BY <1>1 DEF AloneInv
  <2>2. past # "overlapped" /\ ~ Overlap
    BY <1>3, <2>1 DEF MCNext
  <2>3. ~ Overlapping' /\ (Deletion => \A r \in Requests : handler[r] = Idle)
    BY <2>2 DEF Overlap, Overlapping
  <2>4. ~ Overlapping /\ OneOpenSession /\ AllFresh
    BY <2>2 DEF AloneInv
  <2>. QED BY <1>1, <1>3, <2>3, <2>4, AloneLoad, AloneFinish, AloneDeletion
           DEF MCNext, Next, Deletion
<1>. QED BY <1>2, <1>3

LEMMA AloneInit == MCInit => AloneInv
BY InitType DEF MCInit, Init, AloneInv, Overlapping, OneOpenSession, AllFresh, NoTill, None

\* As long as requests do not overlap, whatever is edited and deleted in between, a
\* cashier has one open session at most (POSSessionSerializer.validate).
THEOREM AloneOneSession == MCSpec => []AloneOneOpenSession
<1>1. AloneInv => AloneOneOpenSession
  BY DEF AloneInv, AloneOneOpenSession
<1>2. AloneInv /\ [MCNext]_<<vars, past>> => AloneInv'
  BY AloneStep
<1>. QED BY <1>1, <1>2, AloneInit, PTL DEF MCSpec

\* As long as requests do not overlap, no step reopens a closed session, changes the
\* cash it was to hold or moves a sale into it (POSSessionViewSet.close,
\* POSTransactionSerializer.validate_session).
THEOREM AloneClosedStays == MCSpec => AloneClosedForGood
<1>1. AloneInv /\ [MCNext]_<<vars, past>> => AloneInv' /\ [past' # "overlapped" => LeavesClosed]_vars
  BY AloneStep
<1>. QED BY <1>1, AloneInit, PTL DEF MCSpec, AloneClosedForGood

----------------------------------------------------------------------------
(* Without edits and deletions, besides: the cash, the goods and the books *)
(* agree with the sales.                                                   *)

Completed(S) == {t \in Sales : S[t].status = "completed"}
Cashed(S, s) == {t \in Sales : /\ S[t].till = s /\ S[t].method = "cash"
                               /\ S[t].status = "completed"}

\* What the completed cash sales of a till come to, and the units completed sales took.
Taken(S, s) == SumFunctionOnSet([t \in Sales |-> Worth(S[t])], Cashed(S, s))
Sold(S) == SumFunctionOnSet([t \in Sales |-> S[t].qty], Completed(S))
InTill(row, s) == IF row.till = s THEN Cash(row.method, Worth(row)) ELSE 0

LEMMA RowNumbers ==
    ASSUME NEW S \in [Sales -> SaleRow], NEW t \in Sales
    PROVE  S[t].qty \in Nat /\ Worth(S[t]) \in Nat /\ S[t] \in SaleRow
<1>1. S[t] \in SaleRow
  OBVIOUS
<1>. QED BY <1>1, WorthType, PosConstants DEF SaleRow

LEMMA SoldType ==
    ASSUME NEW S \in [Sales -> SaleRow], NEW s
    PROVE  Sold(S) \in Nat /\ Taken(S, s) \in Nat
<1> DEFINE f == [t \in Sales |-> Worth(S[t])]
           g == [t \in Sales |-> S[t].qty]
<1>1. IsFiniteSet(Completed(S)) /\ IsFiniteSet(Cashed(S, s))
  BY PosConstants, FS_Subset DEF Completed, Cashed
<1>2. \A t \in Sales : f[t] \in Nat /\ g[t] \in Nat
  BY RowNumbers
<1>3. \A t \in Completed(S) : g[t] \in Nat
  BY <1>2 DEF Completed
<1>4. \A t \in Cashed(S, s) : f[t] \in Nat
  BY <1>2 DEF Cashed
<1>5. Sold(S) = SumFunctionOnSet(g, Completed(S))
  BY DEF Sold
<1>6. Taken(S, s) = SumFunctionOnSet(f, Cashed(S, s))
  BY DEF Taken
<1> HIDE DEF f, g
<1>. QED BY <1>1, <1>3, <1>4, <1>5, <1>6, SumNat

\* One more completed sale.
LEMMA SaleJoins ==
    ASSUME NEW S \in [Sales -> SaleRow], NEW T \in [Sales -> SaleRow], NEW t \in Sales,
           S[t].status # "completed", T[t].status = "completed",
           \A u \in Sales \ {t} : T[u] = S[u]
    PROVE  /\ Sold(T) = Sold(S) + T[t].qty
           /\ \A s \in Tills : Taken(T, s) = Taken(S, s) + InTill(T[t], s)
<1>1. Sold(T) = Sold(S) + T[t].qty
  <2> DEFINE f == [u \in Sales |-> S[u].qty]
             g == [u \in Sales |-> T[u].qty]
  <2>1. IsFiniteSet(Completed(S)) /\ t \notin Completed(S) /\ Completed(T) = Completed(S) \cup {t}
    BY PosConstants, FS_Subset DEF Completed
  <2>2. \A u \in Completed(S) : f[u] \in Int /\ g[u] = f[u]
    BY <2>1, RowNumbers DEF Completed
  <2>3. g[t] \in Int /\ g[t] = T[t].qty
    BY RowNumbers
  <2>4. Sold(S) = SumFunctionOnSet(f, Completed(S)) /\ Sold(T) = SumFunctionOnSet(g, Completed(T))
    BY DEF Sold
  <2> HIDE DEF f, g
  <2>5. SumFunctionOnSet(g, Completed(S) \cup {t}) = SumFunctionOnSet(f, Completed(S)) + g[t]
    <3> DEFINE C == Completed(S)
    <3>1. IsFiniteSet(C) /\ t \notin C
      BY <2>1
    <3>2. \A u \in C : f[u] \in Int /\ g[u] = f[u]
      BY <2>2
    <3>3. g[t] \in Int
      BY <2>3
    <3> HIDE DEF C
    <3>4. SumFunctionOnSet(g, C \cup {t}) = SumFunctionOnSet(f, C) + g[t]
      BY <3>1, <3>2, <3>3, SumJoin
    <3>. QED BY <3>4 DEF C
  <2>. QED BY <2>1, <2>3, <2>4, <2>5
<1>2. ASSUME NEW s \in Tills PROVE Taken(T, s) = Taken(S, s) + InTill(T[t], s)
  <2> DEFINE f == [u \in Sales |-> Worth(S[u])]
             g == [u \in Sales |-> Worth(T[u])]
  <2>1. IsFiniteSet(Cashed(S, s)) /\ t \notin Cashed(S, s)
    BY PosConstants, FS_Subset DEF Cashed
  <2>2. \A u \in Cashed(S, s) : f[u] \in Int /\ g[u] = f[u]
    BY <2>1, RowNumbers DEF Cashed
  <2>3. g[t] \in Int /\ g[t] = Worth(T[t])
    BY RowNumbers
  <2>4. Taken(S, s) = SumFunctionOnSet(f, Cashed(S, s))
        /\ Taken(T, s) = SumFunctionOnSet(g, Cashed(T, s))
    BY DEF Taken
  <2>5. Taken(S, s) \in Int
    BY SoldType
  <2> HIDE DEF f, g
  <2>6. CASE T[t].till = s /\ T[t].method = "cash"
    <3>1. Cashed(T, s) = Cashed(S, s) \cup {t}
      BY <2>6 DEF Cashed
    <3>2. SumFunctionOnSet(g, Cashed(S, s) \cup {t}) = SumFunctionOnSet(f, Cashed(S, s)) + g[t]
      <4> DEFINE C == Cashed(S, s)
      <4>1. IsFiniteSet(C) /\ t \notin C
        BY <2>1
      <4>2. \A u \in C : f[u] \in Int /\ g[u] = f[u]
        BY <2>2
      <4>3. g[t] \in Int
        BY <2>3
      <4> HIDE DEF C
      <4>4. SumFunctionOnSet(g, C \cup {t}) = SumFunctionOnSet(f, C) + g[t]
        BY <4>1, <4>2, <4>3, SumJoin
      <4>. QED BY <4>4 DEF C
    <3>3. InTill(T[t], s) = g[t]
      BY <2>3, <2>6 DEF InTill, Cash
    <3>. QED BY <2>4, <3>1, <3>2, <3>3
  <2>7. CASE ~ (T[t].till = s /\ T[t].method = "cash")
    <3>1. Cashed(T, s) = Cashed(S, s)
      BY <2>7 DEF Cashed
    <3>2. SumFunctionOnSet(g, Cashed(S, s)) = SumFunctionOnSet(f, Cashed(S, s))
      BY <2>1, <2>2, SumEqual
    <3>3. InTill(T[t], s) = 0
      BY <2>7 DEF InTill, Cash
    <3>. QED BY <2>4, <2>5, <3>1, <3>2, <3>3
  <2>. QED BY <2>6, <2>7
<1>. QED BY <1>1, <1>2

\* One fewer.
LEMMA SaleLeaves ==
    ASSUME NEW S \in [Sales -> SaleRow], NEW T \in [Sales -> SaleRow], NEW t \in Sales,
           S[t].status = "completed", T[t].status # "completed",
           \A u \in Sales \ {t} : T[u] = S[u]
    PROVE  /\ Sold(T) = Sold(S) - S[t].qty
           /\ \A s \in Tills : Taken(T, s) = Taken(S, s) - InTill(S[t], s)
<1>1. \A u \in Sales \ {t} : S[u] = T[u]
  OBVIOUS
<1>2. /\ Sold(S) = Sold(T) + S[t].qty
      /\ \A s \in Tills : Taken(S, s) = Taken(T, s) + InTill(S[t], s)
  BY <1>1, SaleJoins
<1>3. Sold(T) \in Int /\ S[t].qty \in Int
  BY SoldType, RowNumbers
<1>4. ASSUME NEW s \in Tills PROVE Taken(T, s) \in Int /\ InTill(S[t], s) \in Int
  BY SoldType, RowNumbers DEF InTill, Cash
<1>. QED BY <1>2, <1>3, <1>4

\* Every completed sale is of a session, an open drawer holds the float and the
\* takings, and a request about to close one has summed it up.
Sited == \A t \in Sales : sale[t].status = "completed" =>
             sale[t].till \in Tills /\ till[sale[t].till].status # None
DrawerMatches(row, cash, taken) ==
    /\ row.status = "open" => cash = row.opening + taken
    /\ row.status = "closed" => row.expected = cash
AllDrawers == \A s \in Tills : DrawerMatches(till[s], drawer[s], Taken(sale, s))
AllSummed == \A r \in Requests : handler[r].op = "save" =>
    handler[r].seen.expected = till[handler[r].doc].opening + Taken(sale, handler[r].doc)

Plain ==
    Sited /\ AllDrawers /\ AllSummed /\ PostingsMirror /\ GoodsMatchSales /\ stripped = {}
PlainInv == AloneInv /\ (past = "plain" => Plain)

LEMMA GoodsAreSold == GoodsMatchSales <=> onHand + Sold(sale) = Stock
BY DEF GoodsMatchSales, Sold, Completed

LEMMA AllIdle == ASSUME \A x \in Requests : handler'[x] = Idle PROVE AllSummed'
BY DEF AllSummed, Idle, None

LEMMA PlainLoad ==
    ASSUME TypeOK, Plain, NEW r \in Requests, Load(r) PROVE Plain'
<1>1. /\ UNCHANGED <<till, sale, onHand, returned, stripped, posted, drawer>>
      /\ handler'[r].op # "save" /\ \A x \in Requests : x # r => handler'[x] = handler[x]
  BY DEF Load, LoadOpen, LoadTill, LoadSale, Begin, goods, TypeOK
<1>2. AllSummed'
  BY <1>1 DEF AllSummed, Plain
<1>. QED BY <1>1, <1>2 DEF Plain, Sited, AllDrawers, PostingsMirror, GoodsMatchSales

LEMMA PlainFinish ==
    ASSUME TypeOK, TypeOK', ~ Overlapping, AllFresh, Plain, NEW r \in Requests,
           Finish(r), ~ Edition
    PROVE  Plain'
<1> DEFINE h == handler[r]
<1>0. h.op # None => Fresh(h, till, sale)
  BY DEF AllFresh, Idle
<1>9. sale \in [Sales -> SaleRow] /\ sale' \in [Sales -> SaleRow]
  BY DEF TypeOK
<1>10. Sold(sale) \in Nat /\ \A s \in Tills : Taken(sale, s) \in Nat
  BY <1>9, SoldType
<1>11. ASSUME NEW s \in Tills PROVE drawer[s] \in Int /\ till[s].opening \in Int
  <2>1. till[s] \in TillRow /\ drawer[s] \in Int
    BY DEF TypeOK
  <2>2. till[s].opening \in Floats
    BY <2>1 DEF TillRow
  <2>3. till[s].opening \in Nat
    BY <2>2, PosConstants, Zenon
  <2>. QED BY <2>1, <2>3
<1>12. ASSUME NEW row \in SaleRow, NEW s PROVE InTill(row, s) \in Int
  <2>1. Cash(row.method, Worth(row)) \in Int
    BY WorthType, CashType
  <2>. QED BY <2>1 DEF InTill
<1>1. ASSUME NEW s \in Tills, NEW float \in Floats, OpenTill(r, s, float) PROVE Plain'
  <2>1. /\ h.op # None /\ till[s] = NoTill /\ Done(r)
        /\ UNCHANGED <<sale, onHand, returned, stripped, posted>>
    BY <1>1 DEF OpenTill, goods, None
  <2>2. /\ till'[s].status = "open" /\ till'[s].opening = float /\ drawer'[s] = float
        /\ \A z \in Tills : z # s => till'[z] = till[z] /\ drawer'[z] = drawer[z]
    BY <1>1 DEF OpenTill, TypeOK
  <2>3. Taken(sale, s) = 0
    <3>1. Cashed(sale, s) = {}
      BY <2>1 DEF Cashed, Plain, Sited, NoTill
    <3>. QED BY <3>1, SumEmpty DEF Taken
  <2>4. float \in Nat
    BY PosConstants
  <2>5. AllDrawers'
    <3>1. ASSUME NEW z \in Tills PROVE DrawerMatches(till'[z], drawer'[z], Taken(sale, z))
      <4>1. CASE z = s
        BY <2>2, <2>3, <2>4, <4>1 DEF DrawerMatches
      <4>2. CASE z # s
        BY <2>2, <4>2 DEF Plain, AllDrawers
      <4>. QED BY <4>1, <4>2
    <3>. QED BY <2>1, <3>1 DEF AllDrawers
  <2>6. Sited'
    BY <2>1, <2>2 DEF Plain, Sited, None
  <2>7. AllSummed'
    BY <2>1, LastOneDone, AllIdle
  <2>. QED BY <2>1, <2>5, <2>6, <2>7 DEF Plain, PostingsMirror, GoodsMatchSales
<1>2. ASSUME SumUp(r) PROVE Plain'
  <2> DEFINE n == h.seen.opening
                  + SumFunctionOnSet([t \in Sales |-> Worth(sale[t])], CashSales(h.doc))
             z == [h.seen EXCEPT !.expected = n]
  <2>1. /\ h.op = "close" /\ h.op # None
        /\ UNCHANGED <<till, sale, onHand, returned, stripped, posted, drawer>>
        /\ h = [op |-> h.op, doc |-> h.doc, seen |-> h.seen] /\ h.seen \in TillRow
    BY <1>2, LoadedOfTill DEF SumUp, goods, None
  <2>2. h.seen = till[h.doc]
    BY <1>0, <2>1 DEF Fresh
  <2>3. n = till[h.doc].opening + Taken(sale, h.doc)
    BY <2>2 DEF Taken, Cashed, CashSales
  <2>4. /\ \A x \in Requests \ {r} : handler'[x] = handler[x]
        /\ handler'[r] = [handler[r] EXCEPT !.op = "save", !.seen.expected = n]
    BY <1>2 DEF SumUp, TypeOK
  <2> HIDE DEF n
  <2>5. handler'[r] = [op |-> "save", doc |-> h.doc, seen |-> z]
    BY <2>1, <2>4, SummedUp
  <2>6. z.expected = n
    BY <2>1 DEF TillRow
  <2> HIDE DEF z
  <2>7. handler'[r].seen.expected = n /\ handler'[r].doc = h.doc
    BY <2>5, <2>6
  <2>8. AllSummed'
    BY <2>1, <2>3, <2>4, <2>7 DEF Plain, AllSummed
  <2>. QED BY <2>1, <2>8 DEF Plain, Sited, AllDrawers, PostingsMirror, GoodsMatchSales
<1>3. ASSUME CloseTill(r) PROVE Plain'
  <2>1. /\ h.op = "save" /\ h.op # None /\ Done(r)
        /\ UNCHANGED <<sale, onHand, returned, stripped, posted, drawer>>
    BY <1>3 DEF CloseTill, goods, None
  <2>2. h.doc \in Tills /\ till[h.doc].status = "open"
    BY <1>0, <2>1, LoadedOfTill DEF Fresh
  <2>3. h.seen.expected = drawer[h.doc]
    BY <2>1, <2>2 DEF Plain, AllSummed, AllDrawers, DrawerMatches
  <2>4. /\ till'[h.doc].status = "closed" /\ till'[h.doc].expected = h.seen.expected
        /\ \A z \in Tills : z # h.doc => till'[z] = till[z]
    BY <1>3, <2>2 DEF CloseTill, TypeOK, TillRow
  <2>5. AllDrawers'
    BY <2>1, <2>3, <2>4 DEF Plain, AllDrawers, DrawerMatches
  <2>6. Sited'
    BY <2>1, <2>4 DEF Plain, Sited, None
  <2>7. AllSummed'
    BY <2>1, LastOneDone, AllIdle
  <2>. QED BY <2>1, <2>5, <2>6, <2>7 DEF Plain, PostingsMirror, GoodsMatchSales
<1>4. ASSUME Refund(r) PROVE Plain'
  <2> DEFINE t == h.doc
             row == h.seen
  <2>1. /\ h.op = "refund" /\ h.op # None /\ row.status = "completed" /\ Done(r) /\ till' = till
        /\ onHand' = onHand + row.qty /\ stripped' = stripped
        /\ sale' = [sale EXCEPT ![t].status = "refunded"]
        /\ posted' = [posted EXCEPT ![t] = [m \in Methods |-> @[m] - Refunded(row)[m]]]
        /\ drawer' = [drawer EXCEPT ![row.till] =
                         IF till[row.till].status = "open"
                         THEN @ - Cash(row.method, Worth(row)) ELSE @]
    BY <1>4 DEF Refund, Refundable, PutBack, Plain, None
  <2>2. t \in Sales /\ row = sale[t] /\ row \in SaleRow
    BY <1>0, <2>1, LoadedOfSale DEF Fresh
  <2> HIDE DEF h, t, row
  <2>3. sale'[t].status = "refunded" /\ \A u \in Sales \ {t} : sale'[u] = sale[u]
    BY <2>1, <2>2 DEF TypeOK, SaleRow
  <2>4. /\ Sold(sale') = Sold(sale) - row.qty
        /\ \A s \in Tills : Taken(sale', s) = Taken(sale, s) - InTill(row, s)
    <3>1. sale[t].status = "completed" /\ sale'[t].status # "completed"
      BY <2>1, <2>2, <2>3
    <3>2. /\ Sold(sale') = Sold(sale) - sale[t].qty
          /\ \A s \in Tills : Taken(sale', s) = Taken(sale, s) - InTill(sale[t], s)
      BY <1>9, <2>2, <2>3, <3>1, SaleLeaves
    <3>. QED BY <2>2, <3>2
  <2>5. GoodsMatchSales'
    <3>1. onHand + Sold(sale) = Stock
      BY GoodsAreSold DEF Plain
    <3>2. Sold(sale) \in Int /\ row.qty \in Int /\ onHand \in Int
      BY <1>9, <1>10, <2>2, RowNumbers DEF TypeOK
    <3>3. onHand' + Sold(sale') = Stock
      BY <2>1, <2>4, <3>1, <3>2
    <3>. QED BY <3>3 DEF GoodsMatchSales, Sold, Completed
  <2>6. PostingsMirror'
    <3>1. posted[t] = Refunded(row)
      BY <2>1, <2>2 DEF Plain, PostingsMirror, None
    <3>2. \A m \in Methods : Refunded(row)[m] \in Int
      BY <2>2, RefundedType
    <3>3. posted'[t] = [m \in Methods |-> Refunded(row)[m] - Refunded(row)[m]]
      BY <2>1, <2>2, <3>1 DEF TypeOK
    <3>4. posted'[t] = [m \in Methods |-> 0]
      BY <3>2, <3>3
    <3>5. \A u \in Sales \ {t} : posted'[u] = posted[u]
      BY <2>1 DEF TypeOK
    <3>. QED BY <2>2, <2>3, <3>4, <3>5 DEF Plain, PostingsMirror
  <2>7. Sited'
    BY <2>1, <2>3 DEF Plain, Sited
  <2>8. AllDrawers'
    <3>1. ASSUME NEW s \in Tills PROVE DrawerMatches(till[s], drawer'[s], Taken(sale', s))
      <4>1. DrawerMatches(till[s], drawer[s], Taken(sale, s))
        BY DEF Plain, AllDrawers
      <4>2. Taken(sale, s) \in Int /\ drawer[s] \in Int /\ InTill(row, s) \in Int
            /\ till[s].opening \in Int
        BY <1>10, <1>11, <1>12, <2>2
      <4>3. CASE row.till = s
        <5>1. drawer'[s] = IF till[s].status = "open" THEN drawer[s] - InTill(row, s)
                           ELSE drawer[s]
          BY <2>1, <4>3 DEF TypeOK, InTill
        <5>. QED BY <2>4, <4>1, <4>2, <5>1 DEF DrawerMatches
      <4>4. CASE row.till # s
        <5>1. drawer'[s] = drawer[s] /\ InTill(row, s) = 0
          BY <2>1, <4>4 DEF TypeOK, InTill
        <5>2. Taken(sale', s) = Taken(sale, s)
          BY <2>4, <4>2, <5>1
        <5>. QED BY <4>1, <5>1, <5>2
      <4>. QED BY <4>3, <4>4
    <3>. QED BY <2>1, <3>1 DEF AllDrawers
  <2>9. AllSummed'
    BY <2>1, LastOneDone, AllIdle DEF h
  <2>. QED BY <2>1, <2>5, <2>6, <2>7, <2>8, <2>9 DEF Plain
<1>5. ASSUME Refuse(r) PROVE Plain'
  <2>1. h.op # None /\ Done(r) /\ UNCHANGED <<till, sale, onHand, returned, stripped, posted, drawer>>
    BY <1>5 DEF Refuse, goods, None
  <2>2. AllSummed'
    BY <2>1, LastOneDone, AllIdle
  <2>. QED BY <2>1, <2>2 DEF Plain, Sited, AllDrawers, PostingsMirror, GoodsMatchSales
<1>7. ASSUME NEW t \in Sales, NEW method \in Methods, NEW qty \in Quantities,
             Sell(r, t, method, qty)
      PROVE  Plain'
  <2> DEFINE row == [status |-> "completed", till |-> h.doc, method |-> method, qty |-> qty]
             d == h.doc
  <2>1. /\ h.op = "sell" /\ h.op # None /\ h.seen.status = "open" /\ Done(r) /\ till' = till
        /\ sale[t] = NoSale /\ stripped' = stripped
        /\ sale' = [sale EXCEPT ![t] = row] /\ onHand' = onHand - qty
        /\ posted' = [posted EXCEPT ![t][method] = @ + Worth(row)]
        /\ drawer' = [drawer EXCEPT ![d] = @ + Cash(method, Worth(row))]
    BY <1>7 DEF Sell, AcceptsSale, None
  <2>2. d \in Tills /\ till[d].status = "open" /\ qty \in Nat
    BY <1>0, <2>1, LoadedOfTill, PosConstants DEF Fresh
  <2>3. row.status = "completed" /\ row.till = d /\ row.method = method /\ row.qty = qty
    OBVIOUS
  <2>4. row \in SaleRow
    BY <2>2 DEF SaleRow
  <2> HIDE DEF h, row, d
  <2>5. sale'[t] = row /\ \A u \in Sales \ {t} : sale'[u] = sale[u]
    BY <2>1 DEF TypeOK
  <2>6. sale[t].status = None
    BY <2>1 DEF NoSale
  <2>7. /\ Sold(sale') = Sold(sale) + qty
        /\ \A s \in Tills : Taken(sale', s) = Taken(sale, s) + InTill(row, s)
    BY <1>9, <2>3, <2>5, <2>6, SaleJoins DEF None
  <2>8. GoodsMatchSales'
    <3>1. onHand + Sold(sale) = Stock
      BY GoodsAreSold DEF Plain
    <3>2. Sold(sale) \in Int /\ onHand \in Int
      BY <1>10 DEF TypeOK
    <3>3. onHand' + Sold(sale') = Stock
      BY <2>1, <2>2, <2>7, <3>1, <3>2
    <3>. QED BY <3>3 DEF GoodsMatchSales, Sold, Completed
  <2>9. PostingsMirror'
    <3>1. Worth(row) \in Nat
      BY <2>4, WorthType
    <3>2. posted'[t] = [posted[t] EXCEPT ![method] = posted[t][method] + Worth(row)]
      BY <2>1 DEF TypeOK
    <3>5. posted[t] = [m \in Methods |-> 0]
      BY <2>6 DEF Plain, PostingsMirror, None
    <3>3. posted'[t] = Refunded(row)
      BY <2>3, <3>1, <3>2, <3>5 DEF Refunded
    <3>4. \A u \in Sales \ {t} : posted'[u] = posted[u]
      BY <2>1 DEF TypeOK
    <3>. QED BY <2>3, <2>5, <3>3, <3>4 DEF Plain, PostingsMirror
  <2>10. Sited'
    BY <2>1, <2>2, <2>3, <2>5 DEF Plain, Sited, None
  <2>11. AllDrawers'
    <3>1. ASSUME NEW s \in Tills PROVE DrawerMatches(till[s], drawer'[s], Taken(sale', s))
      <4>1. DrawerMatches(till[s], drawer[s], Taken(sale, s))
        BY DEF Plain, AllDrawers
      <4>2. Taken(sale, s) \in Int /\ drawer[s] \in Int /\ InTill(row, s) \in Int
            /\ till[s].opening \in Int
        BY <1>10, <1>11, <1>12, <2>4
      <4>3. CASE d = s
        <5>1. drawer'[s] = drawer[s] + InTill(row, s) /\ till[s].status = "open"
          BY <2>1, <2>2, <2>3, <4>3 DEF TypeOK, InTill
        <5>. QED BY <2>7, <4>1, <4>2, <5>1 DEF DrawerMatches
      <4>4. CASE d # s
        <5>1. drawer'[s] = drawer[s] /\ InTill(row, s) = 0
          BY <2>1, <2>3, <4>4 DEF TypeOK, InTill
        <5>2. Taken(sale', s) = Taken(sale, s)
          BY <2>7, <4>2, <5>1
        <5>. QED BY <4>1, <5>1, <5>2
      <4>. QED BY <4>3, <4>4
    <3>. QED BY <2>1, <3>1 DEF AllDrawers
  <2>12. AllSummed'
    BY <2>1, LastOneDone, AllIdle DEF h
  <2>. QED BY <2>1, <2>8, <2>9, <2>10, <2>11, <2>12 DEF Plain
<1>8. /\ \A float \in Floats : ~ EditTill(r, float)
      /\ \A method \in Methods, s \in Tills : ~ EditSale(r, method, s)
  BY DEF Edition, EditTill, EditSale
<1>. QED BY <1>1, <1>2, <1>3, <1>4, <1>5, <1>7, <1>8 DEF Finish

LEMMA PlainStep == PlainInv /\ [MCNext]_<<vars, past>> => PlainInv'
<1> SUFFICES ASSUME PlainInv, [MCNext]_<<vars, past>> PROVE PlainInv'
  OBVIOUS
<1>1. AloneInv /\ AloneInv' /\ TypeOK /\ TypeOK'
  BY AloneStep DEF PlainInv, AloneInv
<1>2. CASE UNCHANGED <<vars, past>>
  <2>1. UNCHANGED <<till, sale, onHand, returned, stripped, posted, drawer, handler, past>>
    BY <1>2 DEF vars, goods
  <2>. QED BY <1>1, <2>1 DEF PlainInv, Plain, Sited, AllDrawers, AllSummed, PostingsMirror,
                             GoodsMatchSales
<1>3. CASE MCNext
  <2>1. SUFFICES ASSUME past' = "plain" PROVE Plain'
    BY <1>1 DEF PlainInv
  <2>2. past = "plain" /\ ~ Edition /\ ~ Deletion
    BY <1>3, <2>1 DEF MCNext
  <2>3. Plain /\ ~ Overlapping /\ AllFresh
    BY <1>1, <2>2 DEF PlainInv, AloneInv
  <2>. QED BY <1>1, <1>3, <2>2, <2>3, PlainLoad, PlainFinish DEF MCNext, Next, Deletion
<1>. QED BY <1>2, <1>3

LEMMA PlainInit == MCInit => PlainInv
<1> SUFFICES ASSUME MCInit PROVE PlainInv
  OBVIOUS
<1>1. /\ \A t \in Sales : sale[t].status = None
      /\ \A s \in Tills : till[s].status = None
      /\ \A r \in Requests : handler[r].op = None
      /\ onHand = Stock /\ stripped = {} /\ \A t \in Sales : posted[t] = [m \in Methods |-> 0]
  BY DEF MCInit, Init, NoSale, NoTill, Idle
<1>2. Sited /\ AllDrawers /\ AllSummed /\ PostingsMirror
  BY <1>1 DEF Sited, AllDrawers, DrawerMatches, AllSummed, PostingsMirror, None
<1>3. Completed(sale) = {}
  BY <1>1 DEF Completed, None
<1>4. GoodsMatchSales
  BY <1>1, <1>3, SumEmpty, PosConstants, GoodsAreSold DEF Sold
<1>. QED BY <1>1, <1>2, <1>4, AloneInit DEF PlainInv, Plain

\* As long as requests do not overlap and nothing is edited or deleted: a closed
\* session expects exactly the cash its drawer holds, the journal entries of a sale
\* and of its refund mirror each other, and what is missing from the shelf is what
\* completed sales took (POSSessionViewSet.close, POSTransactionViewSet.refund).
THEOREM PlainTillBalances == MCSpec => []PlainTillAddsUp
<1>1. PlainInv => PlainTillAddsUp
  BY DEF PlainInv, Plain, PlainTillAddsUp, AllDrawers, DrawerMatches, ExpectedIsDrawer
<1>. QED BY <1>1, PlainInit, PlainStep, PTL DEF MCSpec
=============================================================================
