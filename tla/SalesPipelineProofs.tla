------------------------ MODULE SalesPipelineProofs ------------------------
(***************************************************************************)
(* Theorems of SalesPipeline, for any number of requests in flight.        *)
(***************************************************************************)
EXTENDS MCSalesPipeline, SumTheorems, TLAPS

----------------------------------------------------------------------------
(* Type correctness.                                                       *)

LEMMA AskedIsNat ==
    ASSUME NEW ask \in Asks, NEW l \in Lines PROVE Asked(ask, l) \in Nat
<1>1. \A e \in 1..MaxEntries : ask[l][e] \in Nat
  <2>1. Amounts \subseteq Nat
    BY PipelineConstants DEF Amounts
  <2>. QED BY <2>1 DEF Asks
<1>2. IsFiniteSet(1..MaxEntries)
  BY PipelineConstants, FS_Interval
<1>. QED BY <1>1, <1>2, SumNat DEF Asked

\* What a handler works on follows from its operation.
LEMMA LoadedQuotation ==
    ASSUME TypeOK, NEW r \in Requests, handler[r].op \in {"send", "accept", "reject", "convert"}
    PROVE  handler[r].doc \in Quotations /\ handler[r].seen \in Quoted
BY DEF TypeOK, Idle, None, Loaded, OnOrder, OnInvoice

LEMMA LoadedOrder ==
    ASSUME TypeOK, NEW r \in Requests, handler[r].op = "invoice"
    PROVE  handler[r].doc \in Orders /\ handler[r].seen \in Ordered /\ handler[r].counts \in Counts
BY DEF TypeOK, Idle, None, Loaded, OnQuotation, OnInvoice

LEMMA LoadedEdit ==
    ASSUME TypeOK, NEW r \in Requests, handler[r].op = "edit"
    PROVE  \/ /\ handler[r].doc \in Quotations /\ handler[r].doc \notin Orders
              /\ handler[r].seen \in Quoted
           \/ /\ handler[r].doc \in Orders /\ handler[r].doc \notin Quotations
              /\ handler[r].seen \in Ordered
BY PipelineConstants DEF TypeOK, Idle, None, Loaded, OnInvoice

LEMMA LoadedPatch ==
    ASSUME TypeOK, NEW r \in Requests, handler[r].op = "patch"
    PROVE  /\ handler[r].doc \in Invoices /\ handler[r] # Idle
           /\ handler[r].doc \notin Quotations /\ handler[r].doc \notin Orders
BY PipelineConstants DEF TypeOK, Idle, None, Loaded, OnQuotation, OnOrder

LEMMA DoneType ==
    ASSUME TypeOK, NEW r \in Requests, Done(r)
    PROVE  handler' \in [Requests -> Loaded \cup {Idle}]
BY DEF TypeOK, Done

LEMMA LoadType ==
    ASSUME TypeOK, NEW r \in Requests
    PROVE  /\ \A q \in Quotations, op \in OnQuotation : LoadQuotation(r, op, q) => TypeOK'
           /\ \A o \in Orders, op \in OnOrder : LoadOrder(r, op, o) => TypeOK'
           /\ \A b \in Invoices : LoadInvoice(r, b) => TypeOK'
<1>1. ASSUME NEW q \in Quotations, NEW op \in OnQuotation, LoadQuotation(r, op, q) PROVE TypeOK'
  <2> DEFINE h == [op |-> op, doc |-> q, seen |-> quotation[q], counts |-> NoCounts]
  <2>1. h \in Loaded
    BY DEF TypeOK, Loaded, NoCounts, Counts
  <2>2. handler' = [handler EXCEPT ![r] = h]
    BY <1>1 DEF LoadQuotation
  <2> HIDE DEF h
  <2>. QED BY <1>1, <2>1, <2>2 DEF LoadQuotation, TypeOK
<1>2. ASSUME NEW o \in Orders, NEW op \in OnOrder, LoadOrder(r, op, o) PROVE TypeOK'
  <2> DEFINE h == [op |-> op, doc |-> o, seen |-> order[o], counts |-> invoiced[o]]
  <2>1. h \in Loaded
    BY DEF TypeOK, Loaded
  <2>2. handler' = [handler EXCEPT ![r] = h]
    BY <1>2 DEF LoadOrder
  <2> HIDE DEF h
  <2>. QED BY <1>2, <2>1, <2>2 DEF LoadOrder, TypeOK
<1>3. ASSUME NEW b \in Invoices, LoadInvoice(r, b) PROVE TypeOK'
  <2> DEFINE h == [op |-> "patch", doc |-> b]
  <2>1. h \in Loaded
    BY DEF Loaded, OnInvoice
  <2>2. handler' = [handler EXCEPT ![r] = h]
    BY <1>3 DEF LoadInvoice
  <2> HIDE DEF h
  <2>. QED BY <1>3, <2>1, <2>2 DEF LoadInvoice, TypeOK
<1>. QED BY <1>1, <1>2, <1>3

\* An invoice written by hand, whatever it bills and whichever order it names.
LEMMA ByHandType ==
    ASSUME TypeOK, NEW o \in Orders \cup {None}
    PROVE  /\ \A b \in Invoices, qty \in [Lines -> Amounts] : CreateInvoice(b, o, qty) => TypeOK'
           /\ \A r \in Requests : EditInvoice(r, o) => TypeOK'
<1>1. Amounts \subseteq Nat
  BY PipelineConstants DEF Amounts
<1>2. ASSUME NEW b \in Invoices, NEW qty \in [Lines -> Amounts], CreateInvoice(b, o, qty)
      PROVE  TypeOK'
  <2>1. BillOf(o, qty) \in Billing
    BY <1>1 DEF BillOf, Billing, Counts
  <2>. QED BY <1>2, <2>1 DEF CreateInvoice, TypeOK
<1>3. ASSUME NEW r \in Requests, EditInvoice(r, o) PROVE TypeOK'
  <2>1. handler[r].doc \in Invoices
    BY <1>3, LoadedPatch DEF EditInvoice
  <2>2. bill' \in [Invoices -> Billing]
    BY <1>3, <2>1 DEF EditInvoice, TypeOK, Billing
  <2>. QED BY <1>3, <2>2, DoneType DEF EditInvoice, TypeOK
<1>. QED BY <1>2, <1>3

LEMMA StatusType ==
    ASSUME TypeOK
    PROVE  /\ \A q \in Quotations, s \in QuotationStatus \cup Absent :
                 [quotation EXCEPT ![q].status = s] \in [Quotations -> Quoted]
           /\ \A o \in Orders, s \in OrderStatus \cup Absent :
                 [order EXCEPT ![o].status = s] \in [Orders -> Ordered]
BY DEF TypeOK, Quoted, Ordered

\* The effect of a conversion on the counts and the bills.
LEMMA ConvertType ==
    ASSUME TypeOK, NEW r \in Requests, NEW b \in Invoices, NEW ask \in Asks,
           ConvertToInvoice(r, b, ask)
    PROVE  TypeOK'
<1> DEFINE h == handler[r]
           o == h.doc
           counts == [l \in Lines |-> Counted(h.counts, ask, l)]
           touched == {l \in Lines : Asked(ask, l) > 0}
           qty == [l \in Lines |-> Asked(ask, l)]
           line == [l \in Lines |-> IF l \in touched THEN counts[l] ELSE invoiced[o][l]]
           status == IF Fulfilled(counts) THEN "fulfilled" ELSE "confirmed"
<1>1. o \in Orders /\ h.counts \in Counts
  BY LoadedOrder DEF ConvertToInvoice
<1>2. qty \in Counts
  BY AskedIsNat DEF Counts
<1>3. counts \in Counts
  BY <1>1, AskedIsNat DEF Counts, Counted
<1>4. line \in Counts
  BY <1>1, <1>3 DEF Counts, TypeOK
<1>5. status \in OrderStatus \cup Absent
  BY DEF OrderStatus
<1>6. /\ bill' = [bill EXCEPT ![b] = BillOf(o, qty)]
      /\ invoiced' = [invoiced EXCEPT ![o] = line]
      /\ order' = [order EXCEPT ![o].status = status]
      /\ Done(r) /\ UNCHANGED <<quotation, answers, conversions>>
  BY DEF ConvertToInvoice
<1> HIDE DEF h, o, counts, touched, qty, line, status
<1>7. bill' \in [Invoices -> Billing] /\ invoiced' \in [Orders -> Counts]
  BY <1>1, <1>2, <1>4, <1>6 DEF TypeOK, Billing, BillOf
<1>8. order' \in [Orders -> Ordered]
  BY <1>1, <1>5, <1>6, StatusType
<1>. QED BY <1>6, <1>7, <1>8, DoneType DEF TypeOK

LEMMA StepType == TypeOK /\ [Next]_vars => TypeOK'
<1> SUFFICES ASSUME TypeOK, [Next]_vars PROVE TypeOK'
  OBVIOUS
<1> USE DEF QuotationStatus, OrderStatus
<1>1. ASSUME NEW r \in Requests, Send(r) \/ Answer(r) PROVE TypeOK'
  <2>1. handler[r].doc \in Quotations
    BY <1>1, LoadedQuotation DEF Send, Answer
  <2>2. \E s \in QuotationStatus \cup Absent :
            quotation' = [quotation EXCEPT ![handler[r].doc].status = s]
    BY <1>1 DEF Send, Answer
  <2>3. quotation' \in [Quotations -> Quoted]
    BY <2>1, <2>2, StatusType
  <2>4. answers' \in [Quotations -> Nat]
    BY <1>1, <2>1 DEF Send, Answer, TypeOK
  <2>. QED BY <1>1, <2>3, <2>4, DoneType DEF Send, Answer, TypeOK
<1>2. ASSUME NEW r \in Requests, NEW o \in Orders, ConvertToOrder(r, o) PROVE TypeOK'
  <2>1. handler[r].doc \in Quotations
    BY <1>2, LoadedQuotation DEF ConvertToOrder
  <2>2. OrderedStatus \in QuotationStatus \cup Absent
    BY DEF OrderedStatus
  <2>3. quotation' \in [Quotations -> Quoted]
    BY <1>2, <2>1, <2>2, StatusType DEF ConvertToOrder
  <2>4. conversions' \in [Quotations -> Nat] /\ order' \in [Orders -> Ordered]
    BY <1>2, <2>1 DEF ConvertToOrder, TypeOK, Ordered
  <2>. QED BY <1>2, <2>3, <2>4, DoneType DEF ConvertToOrder, TypeOK
<1>3. ASSUME NEW r \in Requests, Edit(r) PROVE TypeOK'
  <2>0. handler[r].op = "edit"
    BY <1>3 DEF Edit
  <2>1. CASE handler[r].doc \in Quotations
    <3>1. handler[r].seen.status \in QuotationStatus \cup Absent
      BY <2>0, <2>1, LoadedEdit, PipelineConstants DEF Quoted
    <3>2. quotation' \in [Quotations -> Quoted] /\ order' = order
      BY <1>3, <2>1, <3>1, StatusType DEF Edit
    <3>. QED BY <1>3, <3>2, DoneType DEF Edit, TypeOK
  <2>2. CASE handler[r].doc \notin Quotations
    <3>1. handler[r].seen.status \in OrderStatus \cup Absent /\ handler[r].doc \in Orders
      BY <2>0, <2>2, LoadedEdit DEF Ordered
    <3>2. order' \in [Orders -> Ordered] /\ quotation' = quotation
      BY <1>3, <2>2, <3>1, StatusType DEF Edit
    <3>. QED BY <1>3, <3>2, DoneType DEF Edit, TypeOK
  <2>. QED BY <2>1, <2>2
<1>4. ASSUME NEW r \in Requests, Abort(r) PROVE TypeOK'
  BY <1>4, DoneType DEF Abort, TypeOK
<1>5. ASSUME NEW r \in Requests, Serve(r) PROVE TypeOK'
  <2>1. ASSUME NEW b \in Invoices, NEW ask \in Asks, ConvertToInvoice(r, b, ask) PROVE TypeOK'
    BY <2>1, ConvertType
  <2>. QED BY <1>1, <1>2, <1>3, <1>4, <1>5, <2>1, LoadType, ByHandType DEF Serve
<1>6. ASSUME NEW o \in Orders, CreateOrder(o) \/ DeleteOrder(o) PROVE TypeOK'
  <2>1. order' \in [Orders -> Ordered]
    <3>1. [status |-> "draft", lines |-> TRUE] \in Ordered /\ Gone \in Ordered
      BY DEF Ordered, Gone, Absent
    <3>2. \E row \in Ordered : order' = [order EXCEPT ![o] = row]
      BY <1>6, <3>1 DEF CreateOrder, DeleteOrder
    <3>. QED BY <3>2 DEF TypeOK
  <2>2. invoiced' \in [Orders -> Counts]
    BY <1>6 DEF CreateOrder, DeleteOrder, TypeOK, NoCounts, Counts
  <2>3. bill' \in [Invoices -> Billing]
    BY <1>6 DEF CreateOrder, DeleteOrder, TypeOK, Billing
  <2>. QED BY <1>6, <2>1, <2>2, <2>3 DEF CreateOrder, DeleteOrder, TypeOK
<1>7. ASSUME NEW q \in Quotations, DeleteQuotation(q) PROVE TypeOK'
  BY <1>7 DEF DeleteQuotation, TypeOK, Quoted, Gone, Absent
<1>8. ASSUME NEW b \in Invoices, DeleteInvoice(b) PROVE TypeOK'
  BY <1>8 DEF DeleteInvoice, TypeOK, Billing, NoBill, NoCounts, Counts, Absent
<1>9. CASE UNCHANGED vars
  BY <1>9 DEF vars, TypeOK
<1>. QED BY <1>5, <1>6, <1>7, <1>8, <1>9, ByHandType DEF Next

\* Every document row, count and snapshot stays within its type.
THEOREM TypeCorrect == Spec => []TypeOK
<1>1. Init => TypeOK
  BY DEF Init, TypeOK, Quoted, Ordered, QuotationStatus, OrderStatus, Absent, Counts, NoCounts,
     NoBill, Billing
<1>. QED BY <1>1, StepType, PTL DEF Spec

----------------------------------------------------------------------------
(* What survives every interleaving, as long as nothing is deleted.  The   *)
(* invariant speaks of the snapshots in flight as well as of the rows,     *)
(* because a handler computes from its snapshot and may write it back.     *)

Totals == [o \in Orders |-> [l \in Lines |-> Billed(o, l)]]

QuotationBacked(row, ordered, told) ==
    /\ row.status = "converted" => ordered > 0
    /\ row.status \in {"accepted", "rejected"} => told > 0

OrderBacked(row, counts, total) ==
    /\ \A l \in Lines : counts[l] <= total[l]
    /\ row.status = "fulfilled" => \A l \in Lines : total[l] >= Quantity[l]

BackedRows ==
    /\ \A q \in Quotations : QuotationBacked(quotation[q], conversions[q], answers[q])
    /\ \A o \in Orders : OrderBacked(order[o], invoiced[o], Totals[o])

\* A handler's snapshot, backed by conversions, answers and invoices.
Backed(h, ordered, told, total) ==
    /\ h.doc \in Quotations => QuotationBacked(h.seen, ordered[h.doc], told[h.doc])
    /\ h.doc \in Orders => OrderBacked(h.seen, h.counts, total[h.doc])

BackedSnapshots ==
    \A r \in Requests : handler[r] # Idle => Backed(handler[r], conversions, answers, Totals)

RaceInv == TypeOK /\ BackedRows /\ BackedSnapshots

LEMMA SumOfBills ==
    ASSUME NEW B \in [Invoices -> Billing], NEW o, NEW l \in Lines
    PROVE  SumFunctionOnSet([b \in Invoices |-> IF B[b].order = o THEN B[b].qty[l] ELSE 0],
                            Invoices) \in Nat
<1> DEFINE f == [b \in Invoices |-> IF B[b].order = o THEN B[b].qty[l] ELSE 0]
<1>1. \A b \in Invoices : f[b] \in Nat
  BY DEF Billing, Counts
<1>2. IsFiniteSet(Invoices)
  BY PipelineConstants
<1> HIDE DEF f
<1>3. SumFunctionOnSet(f, Invoices) \in Nat
  BY <1>1, <1>2, SumNat
<1>. QED BY <1>3 DEF f

LEMMA TotalsType ==
    ASSUME TypeOK, TypeOK' PROVE \A o \in Orders : Totals[o] \in Counts /\ Totals'[o] \in Counts
<1> SUFFICES ASSUME NEW o \in Orders, NEW l \in Lines
             PROVE  Billed(o, l) \in Nat /\ Billed(o, l)' \in Nat
  BY DEF Totals, Counts
<1>1. bill \in [Invoices -> Billing] /\ bill' \in [Invoices -> Billing]
  BY DEF TypeOK
<1>. QED BY <1>1, SumOfBills DEF Billed, BilledBy

\* A new invoice adds what it bills to the totals of its order.
LEMMA SumOfNewBill ==
    ASSUME NEW B \in [Invoices -> Billing], NEW b \in Invoices, B[b] = NoBill,
           NEW o \in Orders, NEW qty \in Counts, NEW p \in Orders, NEW l \in Lines,
           NEW f, f = [c \in Invoices |-> IF B[c].order = p THEN B[c].qty[l] ELSE 0],
           NEW C, C = [B EXCEPT ![b] = BillOf(o, qty)],
           NEW g, g = [c \in Invoices |-> IF C[c].order = p THEN C[c].qty[l] ELSE 0]
    PROVE  SumFunctionOnSet(g, Invoices)
               = SumFunctionOnSet(f, Invoices) + IF p = o THEN qty[l] ELSE 0
<1>1. \A c \in Invoices : f[c] \in Int /\ g[c] \in Int
  BY DEF Billing, Counts, BillOf
<1>2. \A c \in Invoices \ {b} : g[c] = f[c]
  OBVIOUS
<1>3. f[b] = 0 /\ g[b] = IF p = o THEN qty[l] ELSE 0
  BY PipelineConstants DEF NoBill, Billing, BillOf
<1>4. IsFiniteSet(Invoices)
  BY PipelineConstants
<1>5. SumFunctionOnSet(f, Invoices) \in Int
  BY <1>1, <1>4, SumInt
<1>6. SumFunctionOnSet(g, Invoices) = SumFunctionOnSet(f, Invoices) + g[b] - f[b]
  BY <1>1, <1>2, <1>4, SumChange
<1>. QED BY <1>1, <1>3, <1>5, <1>6

LEMMA NewBill ==
    ASSUME bill \in [Invoices -> Billing], NEW b \in Invoices, bill[b] = NoBill,
           NEW o \in Orders, NEW qty \in Counts,
           bill' = [bill EXCEPT ![b] = BillOf(o, qty)]
    PROVE  \A p \in Orders, l \in Lines :
               Totals'[p][l] = Totals[p][l] + IF p = o THEN qty[l] ELSE 0
<1> TAKE p \in Orders, l \in Lines
<1>1. Billed(p, l)' = Billed(p, l) + IF p = o THEN qty[l] ELSE 0
  BY SumOfNewBill DEF Billed, BilledBy
<1>. QED BY <1>1 DEF Totals

\* The totals follow the one invoice that changes.
Bills(row, p, l) == IF row.order = p THEN row.qty[l] ELSE 0

LEMMA BillChanges ==
    ASSUME TypeOK, TypeOK', NEW b \in Invoices,
           \A c \in Invoices : c # b => bill'[c] = bill[c],
           NEW p \in Orders, NEW l \in Lines
    PROVE  /\ Totals'[p][l] = Totals[p][l] + Bills(bill'[b], p, l) - Bills(bill[b], p, l)
           /\ Totals[p][l] \in Nat
           /\ Bills(bill'[b], p, l) \in Nat /\ Bills(bill[b], p, l) \in Nat
<1> DEFINE f == BilledBy(p, l)
           g == BilledBy(p, l)'
<1>1. \A c \in Invoices : f[c] \in Nat /\ g[c] \in Nat
  BY DEF TypeOK, BilledBy, Billing, Counts
<1>2. \A c \in Invoices \ {b} : g[c] = f[c]
  BY DEF BilledBy
<1>3. f[b] = Bills(bill[b], p, l) /\ g[b] = Bills(bill'[b], p, l)
  BY DEF BilledBy, Bills
<1>4. /\ Totals[p][l] = SumFunctionOnSet(f, Invoices)
      /\ Totals'[p][l] = SumFunctionOnSet(g, Invoices)
  BY DEF Totals, Billed
<1>5. IsFiniteSet(Invoices)
  BY PipelineConstants
<1> HIDE DEF f, g
<1>6. SumFunctionOnSet(g, Invoices) = SumFunctionOnSet(f, Invoices) + g[b] - f[b]
  BY <1>1, <1>2, <1>5, SumChange
<1>7. SumFunctionOnSet(f, Invoices) \in Nat
  BY <1>1, <1>5, SumNat
<1>. QED BY <1>1, <1>3, <1>4, <1>6, <1>7

\* What no step takes back while nothing is deleted or taken off its order.
Advances ==
    /\ \A q \in Quotations : conversions'[q] >= conversions[q] /\ answers'[q] >= answers[q]
    /\ \A o \in Orders, l \in Lines : Totals'[o][l] >= Totals[o][l]

LEMMA QuotationStays ==
    ASSUME TypeOK, TypeOK', Advances, NEW q \in Quotations, NEW row,
           QuotationBacked(row, conversions[q], answers[q])
    PROVE  QuotationBacked(row, conversions'[q], answers'[q])
BY DEF TypeOK, Advances, QuotationBacked

LEMMA OrderStays ==
    ASSUME TypeOK, TypeOK', Advances, NEW o \in Orders, NEW row, NEW counts \in Counts,
           OrderBacked(row, counts, Totals[o])
    PROVE  OrderBacked(row, counts, Totals'[o])
<1>1. Totals[o] \in Counts /\ Totals'[o] \in Counts
  BY TotalsType
<1>2. \A l \in Lines : Quantity[l] \in Nat
  BY PipelineConstants
<1>. QED BY <1>1, <1>2 DEF Advances, OrderBacked, Counts

\* The snapshots stay backed when nothing they count is taken back and the
\* handler that moved has ended, or holds a backed snapshot.
LEMMA BackedStays ==
    ASSUME TypeOK, TypeOK', Advances, NEW h \in Loaded, Backed(h, conversions, answers, Totals)
    PROVE  Backed(h, conversions', answers', Totals')
<1>1. h.doc \in Orders => h.counts \in Counts
  BY PipelineConstants DEF Loaded
<1>. QED BY <1>1, QuotationStays, OrderStays DEF Backed

LEMMA SnapshotsStay ==
    ASSUME RaceInv, TypeOK', Advances, NEW r \in Requests,
           \A x \in Requests : x # r => handler'[x] = handler[x],
           handler'[r] # Idle => Backed(handler'[r], conversions', answers', Totals')
    PROVE  BackedSnapshots'
<1> SUFFICES ASSUME NEW x \in Requests, handler'[x] # Idle, x # r
             PROVE  Backed(handler'[x], conversions', answers', Totals')
  BY DEF BackedSnapshots, Backed
<1>1. handler'[x] = handler[x]
  OBVIOUS
<1>2. handler[x] \in Loaded /\ Backed(handler[x], conversions, answers, Totals)
  BY <1>1 DEF RaceInv, TypeOK, BackedSnapshots
<1>. QED BY <1>1, <1>2, BackedStays DEF RaceInv

LEMMA TotalsUnchanged ==
    bill' = bill => Totals' = Totals
BY DEF Totals, Billed, BilledBy

LEMMA QuietAdvances ==
    ASSUME RaceInv, TypeOK', UNCHANGED <<answers, conversions, bill>>
    PROVE  Totals' = Totals /\ Advances
<1>1. Totals' = Totals
  BY TotalsUnchanged
<1>2. \A o \in Orders : Totals[o] \in Counts
  BY TotalsType DEF RaceInv
<1>. QED BY <1>1, <1>2 DEF RaceInv, TypeOK, Advances, Counts

LEMMA DoneSnapshots ==
    ASSUME RaceInv, TypeOK', Advances, NEW r \in Requests, Done(r) PROVE BackedSnapshots'
<1>1. handler'[r] = Idle /\ \A x \in Requests : x # r => handler'[x] = handler[x]
  BY DEF Done, RaceInv, TypeOK
<1>. QED BY <1>1, SnapshotsStay

\* Moving a document to a status that is backed.
LEMMA QuotationMoves ==
    ASSUME RaceInv, TypeOK', Advances, UNCHANGED <<order, invoiced>>,
           NEW q \in Quotations, NEW s, quotation' = [quotation EXCEPT ![q].status = s],
           s = "converted" => conversions'[q] > 0,
           s \in {"accepted", "rejected"} => answers'[q] > 0
    PROVE  BackedRows'
<1>1. ASSUME NEW p \in Quotations PROVE QuotationBacked(quotation'[p], conversions'[p], answers'[p])
  <2>1. CASE p = q
    <3>1. quotation'[q].status = s
      BY DEF RaceInv, TypeOK, Quoted
    <3>. QED BY <2>1, <3>1 DEF QuotationBacked
  <2>2. CASE p # q
    <3>1. quotation'[p] = quotation[p]
      BY <2>2 DEF RaceInv, TypeOK
    <3>. QED BY <3>1, QuotationStays DEF RaceInv, BackedRows
  <2>. QED BY <2>1, <2>2
<1>2. ASSUME NEW o \in Orders PROVE OrderBacked(order[o], invoiced[o], Totals'[o])
  BY OrderStays DEF RaceInv, BackedRows, TypeOK
<1>. QED BY <1>1, <1>2 DEF BackedRows

LEMMA OrderMoves ==
    ASSUME RaceInv, TypeOK', Advances, UNCHANGED <<quotation, conversions, answers>>,
           NEW o \in Orders, OrderBacked(order'[o], invoiced'[o], Totals'[o]),
           \A p \in Orders : p # o => order'[p] = order[p] /\ invoiced'[p] = invoiced[p]
    PROVE  BackedRows'
<1>1. ASSUME NEW p \in Orders PROVE OrderBacked(order'[p], invoiced'[p], Totals'[p])
  <2>1. CASE p # o
    <3>1. OrderBacked(order[p], invoiced[p], Totals'[p])
      BY OrderStays DEF RaceInv, BackedRows, TypeOK
    <3>. QED BY <2>1, <3>1
  <2>. QED BY <2>1
<1>. QED BY <1>1 DEF BackedRows, RaceInv

LEMMA ConvertBacked ==
    ASSUME RaceInv, TypeOK', NEW r \in Requests, NEW b \in Invoices, NEW ask \in Asks,
           ConvertToInvoice(r, b, ask)
    PROVE  BackedRows' /\ BackedSnapshots'
<1> DEFINE h == handler[r]
           o == h.doc
           counts == [l \in Lines |-> Counted(h.counts, ask, l)]
           touched == {l \in Lines : Asked(ask, l) > 0}
           qty == [l \in Lines |-> Asked(ask, l)]
           line == [l \in Lines |-> IF l \in touched THEN counts[l] ELSE invoiced[o][l]]
           status == IF Fulfilled(counts) THEN "fulfilled" ELSE "confirmed"
<1>1. /\ bill' = [bill EXCEPT ![b] = BillOf(o, qty)]
      /\ invoiced' = [invoiced EXCEPT ![o] = line]
      /\ order' = [order EXCEPT ![o].status = status]
      /\ bill[b] = NoBill
      /\ Done(r) /\ UNCHANGED <<quotation, answers, conversions>>
  BY DEF ConvertToInvoice
<1>2. o \in Orders /\ h.counts \in Counts /\ h # Idle
  BY LoadedOrder DEF ConvertToInvoice, RaceInv, Idle, None
<1>3. \A l \in Lines : h.counts[l] <= Totals[o][l] /\ invoiced[o][l] <= Totals[o][l]
  BY <1>2 DEF RaceInv, BackedSnapshots, Backed, BackedRows, OrderBacked
<1>4. \A l \in Lines : qty[l] \in Nat /\ h.counts[l] \in Nat /\ Quantity[l] \in Nat
                       /\ invoiced[o][l] \in Nat
  BY <1>2, AskedIsNat, PipelineConstants DEF Counts, RaceInv, TypeOK
<1>5. qty \in Counts
  BY <1>4 DEF Counts
<1>6. \A p \in Orders, l \in Lines : Totals[p][l] \in Nat
  BY TotalsType DEF RaceInv, Counts
<1>7. \A p \in Orders, l \in Lines : Totals'[p][l] = Totals[p][l] + IF p = o THEN qty[l] ELSE 0
  <2>1. bill \in [Invoices -> Billing] /\ bill[b] = NoBill /\ o \in Orders /\ qty \in Counts
    BY <1>1, <1>2, <1>5 DEF RaceInv, TypeOK
  <2>2. bill' = [bill EXCEPT ![b] = BillOf(o, qty)]
    BY <1>1
  <2> HIDE DEF qty, o
  <2>. QED BY <2>1, <2>2, NewBill
<1>8. \A l \in Lines : counts[l] = h.counts[l] + qty[l]
  BY DEF Counted
<1>9. \A l \in Lines : line[l] \in {counts[l], invoiced[o][l]}
  OBVIOUS
<1>10. status = "fulfilled" => \A l \in Lines : counts[l] >= Quantity[l]
  BY DEF Fulfilled
<1>11. order'[o].status = status /\ invoiced'[o] = line
  BY <1>1, <1>2 DEF RaceInv, TypeOK, Ordered
<1> HIDE DEF h, counts, touched, qty, line, status
<1>12. Advances
  <2>1. \A p \in Orders, l \in Lines : Totals'[p][l] >= Totals[p][l]
    BY <1>2, <1>4, <1>6, <1>7
  <2>. QED BY <1>1, <2>1 DEF Advances, RaceInv, TypeOK
<1>13. OrderBacked(order'[o], invoiced'[o], Totals'[o])
  <2>1. \A l \in Lines : counts[l] <= Totals'[o][l]
    BY <1>2, <1>3, <1>4, <1>6, <1>7, <1>8
  <2>2. \A l \in Lines : line[l] <= Totals'[o][l]
    BY <1>2, <1>3, <1>4, <1>6, <1>7, <1>9, <2>1
  <2>3. \A l \in Lines : counts[l] >= Quantity[l] => Totals'[o][l] >= Quantity[l]
    BY <1>2, <1>4, <1>6, <1>7, <1>8, <2>1
  <2>. QED BY <1>10, <1>11, <2>2, <2>3 DEF OrderBacked
<1>14. BackedRows'
  BY <1>1, <1>2, <1>12, <1>13, OrderMoves DEF RaceInv, TypeOK
<1>. QED BY <1>1, <1>12, <1>14, DoneSnapshots

LEMMA LoadBacked ==
    ASSUME RaceInv, TypeOK', NEW r \in Requests
    PROVE  /\ \A q \in Quotations, op \in OnQuotation :
                 LoadQuotation(r, op, q) => BackedRows' /\ BackedSnapshots'
           /\ \A o \in Orders, op \in OnOrder :
                 LoadOrder(r, op, o) => BackedRows' /\ BackedSnapshots'
           /\ \A b \in Invoices : LoadInvoice(r, b) => BackedRows' /\ BackedSnapshots'
<1>1. ASSUME NEW q \in Quotations, NEW op \in OnQuotation, LoadQuotation(r, op, q)
      PROVE  BackedRows' /\ BackedSnapshots'
  <2>1. /\ UNCHANGED <<quotation, answers, conversions, order, invoiced, bill>>
        /\ handler'[r].doc = q /\ handler'[r].seen = quotation[q]
        /\ \A x \in Requests : x # r => handler'[x] = handler[x]
    BY <1>1 DEF LoadQuotation, RaceInv, TypeOK
  <2>2. Totals' = Totals /\ Advances
    BY <2>1, QuietAdvances
  <2>3. Backed(handler'[r], conversions', answers', Totals')
    BY <2>1, <2>2, PipelineConstants DEF Backed, RaceInv, BackedRows
  <2>. QED BY <2>1, <2>2, <2>3, SnapshotsStay DEF RaceInv, BackedRows
<1>2. ASSUME NEW o \in Orders, NEW op \in OnOrder, LoadOrder(r, op, o)
      PROVE  BackedRows' /\ BackedSnapshots'
  <2>1. /\ UNCHANGED <<quotation, answers, conversions, order, invoiced, bill>>
        /\ handler'[r].doc = o /\ handler'[r].seen = order[o]
        /\ handler'[r].counts = invoiced[o]
        /\ \A x \in Requests : x # r => handler'[x] = handler[x]
    BY <1>2 DEF LoadOrder, RaceInv, TypeOK
  <2>2. Totals' = Totals /\ Advances
    BY <2>1, QuietAdvances
  <2>3. Backed(handler'[r], conversions', answers', Totals')
    BY <2>1, <2>2, PipelineConstants DEF Backed, RaceInv, BackedRows
  <2>. QED BY <2>1, <2>2, <2>3, SnapshotsStay DEF RaceInv, BackedRows
<1>3. ASSUME NEW b \in Invoices, LoadInvoice(r, b) PROVE BackedRows' /\ BackedSnapshots'
  <2>1. /\ UNCHANGED <<quotation, answers, conversions, order, invoiced, bill>>
        /\ handler'[r].doc = b
        /\ \A x \in Requests : x # r => handler'[x] = handler[x]
    BY <1>3 DEF LoadInvoice, RaceInv, TypeOK
  <2>2. Totals' = Totals /\ Advances
    BY <2>1, QuietAdvances
  <2>3. Backed(handler'[r], conversions', answers', Totals')
    BY <2>1, PipelineConstants DEF Backed
  <2>. QED BY <2>1, <2>2, <2>3, SnapshotsStay DEF RaceInv, BackedRows
<1>. QED BY <1>1, <1>2, <1>3

LEMMA EditBacked ==
    ASSUME RaceInv, TypeOK', NEW r \in Requests, Edit(r)
    PROVE  BackedRows' /\ BackedSnapshots'
<1> DEFINE h == handler[r]
<1>1. /\ h.op = "edit" /\ h # Idle /\ Done(r)
      /\ UNCHANGED <<answers, conversions, invoiced, bill>>
  BY DEF Edit, Idle, None
<1>2. Totals' = Totals /\ Advances
  BY <1>1, QuietAdvances
<1>3. Backed(h, conversions, answers, Totals)
  BY <1>1 DEF RaceInv, BackedSnapshots
<1>4. CASE h.doc \in Quotations
  <2>1. quotation' = [quotation EXCEPT ![h.doc].status = h.seen.status] /\ UNCHANGED order
    BY <1>4 DEF Edit
  <2>2. QuotationBacked(h.seen, conversions[h.doc], answers[h.doc])
    BY <1>3, <1>4 DEF Backed
  <2>3. /\ h.seen.status = "converted" => conversions'[h.doc] > 0
        /\ h.seen.status \in {"accepted", "rejected"} => answers'[h.doc] > 0
    BY <1>1, <2>2 DEF QuotationBacked
  <2> HIDE DEF h
  <2>4. BackedRows'
    BY <1>1, <1>2, <1>4, <2>1, <2>3, QuotationMoves
  <2>. QED BY <1>1, <1>2, <2>4, DoneSnapshots
<1>5. CASE h.doc \notin Quotations
  <2>1. order' = [order EXCEPT ![h.doc].status = h.seen.status] /\ UNCHANGED quotation
    BY <1>5 DEF Edit
  <2>2. h.doc \in Orders
    BY <1>1, <1>5, LoadedEdit DEF RaceInv
  <2>3. OrderBacked(h.seen, h.counts, Totals[h.doc])
    BY <1>3, <2>2 DEF Backed
  <2>4. OrderBacked(order'[h.doc], invoiced'[h.doc], Totals'[h.doc])
    <3>1. order'[h.doc].status = h.seen.status /\ invoiced' = invoiced
      BY <1>1, <2>1, <2>2 DEF RaceInv, TypeOK, Ordered
    <3>. QED BY <1>2, <2>2, <2>3, <3>1 DEF RaceInv, BackedRows, OrderBacked
  <2>5. BackedRows'
    BY <1>1, <1>2, <2>1, <2>2, <2>4, OrderMoves DEF RaceInv, TypeOK
  <2>. QED BY <1>1, <1>2, <2>5, DoneSnapshots
<1>. QED BY <1>4, <1>5

LEMMA ServeBacked ==
    ASSUME RaceInv, TypeOK', NEW r \in Requests, Serve(r),
           ~ \E o \in Orders \cup {None} : EditInvoice(r, o)
    PROVE  BackedRows' /\ BackedSnapshots'
<1> DEFINE q == handler[r].doc
<1>1. CASE Send(r)
  <2>1. /\ q \in Quotations /\ Done(r)
        /\ UNCHANGED <<answers, conversions, order, invoiced, bill>>
        /\ \E s \in {"sent"} : quotation' = [quotation EXCEPT ![q].status = s]
    BY <1>1, LoadedQuotation DEF Send, RaceInv
  <2>2. Advances
    BY <2>1, QuietAdvances
  <2> HIDE DEF q
  <2>3. BackedRows'
    BY <2>1, <2>2, QuotationMoves
  <2>. QED BY <2>1, <2>2, <2>3, DoneSnapshots
<1>2. CASE Answer(r)
  <2>1. /\ q \in Quotations /\ Done(r) /\ UNCHANGED <<conversions, order, invoiced, bill>>
        /\ \E s \in {"accepted", "rejected"} : quotation' = [quotation EXCEPT ![q].status = s]
        /\ answers' = [answers EXCEPT ![q] = answers[q] + 1]
    BY <1>2, LoadedQuotation DEF Answer, RaceInv
  <2>2. Totals' = Totals /\ \A o \in Orders : Totals[o] \in Counts
    BY <2>1, TotalsUnchanged, TotalsType DEF RaceInv
  <2> HIDE DEF q
  <2>3. Advances /\ answers'[q] > 0
    BY <2>1, <2>2 DEF Advances, RaceInv, TypeOK, Counts
  <2>4. BackedRows'
    BY <2>1, <2>3, QuotationMoves
  <2>. QED BY <2>1, <2>3, <2>4, DoneSnapshots
<1>3. ASSUME NEW o \in Orders, ConvertToOrder(r, o) PROVE BackedRows' /\ BackedSnapshots'
  <2>1. /\ q \in Quotations /\ Done(r) /\ UNCHANGED <<answers, invoiced, bill>>
        /\ quotation' = [quotation EXCEPT ![q].status = "converted"]
        /\ order' = [order EXCEPT ![o] = [status |-> "draft", lines |-> TRUE]]
        /\ conversions' = [conversions EXCEPT ![q] = conversions[q] + 1]
    BY <1>3, LoadedQuotation DEF ConvertToOrder, RaceInv, OrderedStatus
  <2>2. Totals' = Totals /\ \A p \in Orders : Totals[p] \in Counts
    BY <2>1, TotalsUnchanged, TotalsType DEF RaceInv
  <2> HIDE DEF q
  <2>3. Advances /\ conversions'[q] > 0
    BY <2>1, <2>2 DEF Advances, RaceInv, TypeOK, Counts
  <2>4. \A p \in Quotations : QuotationBacked(quotation'[p], conversions'[p], answers'[p])
    BY <2>1, <2>3, QuotationStays DEF RaceInv, TypeOK, Quoted, BackedRows, QuotationBacked
  <2>5. \A p \in Orders : OrderBacked(order'[p], invoiced'[p], Totals'[p])
    BY <2>1, <2>2 DEF RaceInv, TypeOK, BackedRows, OrderBacked
  <2>6. BackedRows'
    BY <2>4, <2>5 DEF BackedRows
  <2>. QED BY <2>1, <2>3, <2>6, DoneSnapshots
<1>4. CASE Abort(r)
  <2>1. Advances /\ Totals' = Totals
    BY <1>4, QuietAdvances DEF Abort
  <2>. QED BY <1>4, <2>1, DoneSnapshots DEF Abort, RaceInv, BackedRows
<1>5. ASSUME NEW b \in Invoices, NEW ask \in Asks, ConvertToInvoice(r, b, ask)
      PROVE  BackedRows' /\ BackedSnapshots'
  BY <1>5, ConvertBacked
<1>. QED BY <1>1, <1>2, <1>3, <1>4, <1>5, EditBacked, LoadBacked DEF Serve

\* Writing an invoice by hand takes nothing back when no invoice leaves its order.
LEMMA ByHandBacked ==
    ASSUME RaceInv, TypeOK', NEW b \in Invoices,
           \A c \in Invoices : c # b => bill'[c] = bill[c],
           bill[b].order = None \/ bill'[b].order = bill[b].order,
           bill'[b].qty = bill[b].qty \/ bill[b] = NoBill,
           UNCHANGED <<quotation, answers, conversions, order, invoiced>>
    PROVE  Advances /\ BackedRows'
<1>1. ASSUME NEW p \in Orders, NEW l \in Lines PROVE Totals'[p][l] >= Totals[p][l]
  <2>1. /\ Totals'[p][l] = Totals[p][l] + Bills(bill'[b], p, l) - Bills(bill[b], p, l)
        /\ Totals[p][l] \in Nat
        /\ Bills(bill'[b], p, l) \in Nat /\ Bills(bill[b], p, l) \in Nat
    BY BillChanges DEF RaceInv
  <2>2. Bills(bill[b], p, l) = 0 \/ Bills(bill'[b], p, l) = Bills(bill[b], p, l)
    BY PipelineConstants DEF Bills, NoBill
  <2>. QED BY <2>1, <2>2
<1>2. Advances
  BY <1>1 DEF Advances, RaceInv, TypeOK
<1>3. \A q \in Quotations : QuotationBacked(quotation[q], conversions[q], answers[q])
  BY DEF RaceInv, BackedRows
<1>4. \A o \in Orders : OrderBacked(order[o], invoiced[o], Totals'[o])
  BY <1>2, OrderStays DEF RaceInv, BackedRows, TypeOK
<1>. QED BY <1>2, <1>3, <1>4 DEF BackedRows

LEMMA StepBacked ==
    ASSUME RaceInv, [Next]_vars, ~ Deletion, ~ Unlinking PROVE RaceInv'
<1>1. TypeOK'
  BY StepType DEF RaceInv
<1>2. ASSUME NEW r \in Requests, Serve(r) PROVE RaceInv'
  <2>1. CASE \E o \in Orders \cup {None} : EditInvoice(r, o)
    <3>1. PICK o \in Orders \cup {None} : EditInvoice(r, o)
      BY <2>1
    <3> DEFINE b == handler[r].doc
    <3>2. b \in Invoices /\ handler[r] # Idle /\ handler[r].op = "patch"
      BY <3>1, LoadedPatch DEF EditInvoice, RaceInv
    <3>3. Done(r) /\ handler'[r] = Idle
      BY <3>1 DEF EditInvoice, Done, RaceInv, TypeOK
    <3>4. bill[b].order = None \/ bill'[b].order = bill[b].order
      BY <3>2, <3>3 DEF Unlinking, Ends
    <3>5. /\ \A c \in Invoices : c # b => bill'[c] = bill[c]
          /\ bill'[b].qty = bill[b].qty
          /\ UNCHANGED <<quotation, answers, conversions, order, invoiced>>
      BY <3>1, <3>2 DEF EditInvoice, RaceInv, TypeOK, Billing
    <3> HIDE DEF b
    <3>6. Advances /\ BackedRows'
      BY <1>1, <3>2, <3>4, <3>5, ByHandBacked
    <3>. QED BY <1>1, <3>3, <3>6, DoneSnapshots DEF RaceInv
  <2>2. CASE ~ \E o \in Orders \cup {None} : EditInvoice(r, o)
    BY <1>1, <1>2, <2>2, ServeBacked DEF RaceInv
  <2>. QED BY <2>1, <2>2
<1>3. ASSUME NEW o \in Orders, CreateOrder(o) PROVE RaceInv'
  <2>1. Totals' = Totals
    BY <1>3, TotalsUnchanged DEF CreateOrder
  <2>2. \A p \in Orders : OrderBacked(order'[p], invoiced'[p], Totals'[p])
    BY <1>3, <2>1 DEF CreateOrder, RaceInv, TypeOK, BackedRows, OrderBacked
  <2>. QED BY <1>1, <1>3, <2>1, <2>2 DEF CreateOrder, RaceInv, BackedRows, BackedSnapshots
<1>5. ASSUME NEW b \in Invoices, NEW o \in Orders \cup {None}, NEW qty \in [Lines -> Amounts],
             CreateInvoice(b, o, qty)
      PROVE  RaceInv'
  <2>1. /\ bill[b] = NoBill /\ bill[b].order = None
        /\ \A c \in Invoices : c # b => bill'[c] = bill[c]
        /\ UNCHANGED <<quotation, answers, conversions, order, invoiced, handler>>
    BY <1>5 DEF CreateInvoice, NoBill, RaceInv, TypeOK
  <2>2. Advances /\ BackedRows'
    BY <1>1, <2>1, ByHandBacked
  <2>3. ASSUME NEW x \in Requests, handler[x] # Idle
        PROVE  Backed(handler[x], conversions', answers', Totals')
    <3>1. handler[x] \in Loaded /\ Backed(handler[x], conversions, answers, Totals)
      BY <2>3 DEF RaceInv, TypeOK, BackedSnapshots
    <3>. QED BY <1>1, <2>2, <3>1, BackedStays DEF RaceInv
  <2>. QED BY <1>1, <2>1, <2>2, <2>3 DEF RaceInv, BackedSnapshots
<1>4. CASE UNCHANGED vars
  <2>1. Totals' = Totals
    BY <1>4, TotalsUnchanged DEF vars
  <2>. QED BY <1>1, <1>4, <2>1 DEF vars, RaceInv, BackedRows, BackedSnapshots
<1>. QED BY <1>2, <1>3, <1>4, <1>5 DEF Next, Deletion

LEMMA InitType == Init => TypeOK
BY DEF Init, TypeOK, Quoted, Ordered, QuotationStatus, OrderStatus, Absent, Counts, NoCounts,
   NoBill, Billing

LEMMA InitTotals ==
    ASSUME Init PROVE \A o \in Orders, l \in Lines : Totals[o][l] = 0
<1> SUFFICES ASSUME NEW o \in Orders, NEW l \in Lines PROVE Billed(o, l) = 0
  BY DEF Totals
<1>1. IsFiniteSet(Invoices) /\ \A b \in Invoices : BilledBy(o, l)[b] = 0
  BY PipelineConstants DEF Init, BilledBy, NoBill, NoCounts
<1>. QED BY <1>1, SumZero DEF Billed

LEMMA InitBacked == Init => RaceInv
<1> SUFFICES ASSUME Init PROVE RaceInv
  OBVIOUS
<1>1. BackedRows
  BY InitTotals DEF Init, BackedRows, QuotationBacked, OrderBacked, NoCounts
<1>. QED BY <1>1, InitType DEF Init, RaceInv, BackedSnapshots

LEMMA BackedMeans == RaceInv => CountedIsBilled
BY DEF RaceInv, BackedRows, OrderBacked, Totals, CountedIsBilled

\* The quotations' part of it needs no condition: what a status claims is never
\* taken back.
QuotationsBacked ==
    /\ \A q \in Quotations : QuotationBacked(quotation[q], conversions[q], answers[q])
    /\ \A r \in Requests : handler[r].op \in OnQuotation /\ handler[r].doc \in Quotations =>
          QuotationBacked(handler[r].seen, conversions[handler[r].doc], answers[handler[r].doc])

LEMMA QuotationStep ==
    ASSUME TypeOK, TypeOK', QuotationsBacked,
           NEW q \in Quotations, NEW s, quotation' = [quotation EXCEPT ![q].status = s],
           \A p \in Quotations : conversions'[p] >= conversions[p] /\ answers'[p] >= answers[p],
           s = "converted" => conversions'[q] > 0,
           s \in {"accepted", "rejected"} => answers'[q] > 0,
           NEW r \in Requests, Done(r)
    PROVE  QuotationsBacked'
<1>1. ASSUME NEW p \in Quotations, NEW row, QuotationBacked(row, conversions[p], answers[p])
      PROVE  QuotationBacked(row, conversions'[p], answers'[p])
  BY <1>1 DEF QuotationBacked, TypeOK
<1>2. ASSUME NEW p \in Quotations PROVE QuotationBacked(quotation'[p], conversions'[p], answers'[p])
  <2>1. p = q => quotation'[p].status = s
    BY DEF TypeOK, Quoted
  <2>2. p # q => quotation'[p] = quotation[p]
    BY DEF TypeOK
  <2>. QED BY <1>1, <2>1, <2>2 DEF QuotationsBacked, QuotationBacked
<1>3. ASSUME NEW x \in Requests, handler'[x].op \in OnQuotation, handler'[x].doc \in Quotations
      PROVE  QuotationBacked(handler'[x].seen, conversions'[handler'[x].doc],
                             answers'[handler'[x].doc])
  <2>1. handler'[x] = handler[x]
    BY <1>3 DEF Done, TypeOK, Idle, None, OnQuotation
  <2>. QED BY <1>1, <1>3, <2>1 DEF QuotationsBacked
<1>. QED BY <1>2, <1>3 DEF QuotationsBacked

LEMMA QuotationQuiet ==
    ASSUME TypeOK, TypeOK', QuotationsBacked, UNCHANGED <<quotation, conversions, answers>>,
           \A x \in Requests : handler'[x] = handler[x] \/ handler'[x].op \notin OnQuotation
    PROVE  QuotationsBacked'
BY DEF QuotationsBacked

\* A quotation is shown as converted, accepted or rejected only when an order was made
\* of it or the customer answered, whatever requests overlap, edits write back and
\* deletions take away (QuotationViewSet, PortalQuotationViewSet, serializer.update).
THEOREM StatusesStayBacked == Spec => []StatusIsBacked
<1>1. TypeOK /\ QuotationsBacked /\ [Next]_vars => QuotationsBacked'
  <2> SUFFICES ASSUME TypeOK, QuotationsBacked, [Next]_vars PROVE QuotationsBacked'
    OBVIOUS
  <2>1. TypeOK'
    BY StepType
  <2>2. ASSUME NEW r \in Requests,
               Send(r) \/ Answer(r) \/ \E o \in Orders : ConvertToOrder(r, o)
        PROVE  QuotationsBacked'
    <3> DEFINE q == handler[r].doc
    <3>1. q \in Quotations /\ Done(r)
      BY <2>2, LoadedQuotation DEF Send, Answer, ConvertToOrder
    <3>2. PICK s \in {"sent", "accepted", "rejected", "converted"} :
             /\ quotation' = [quotation EXCEPT ![q].status = s]
             /\ conversions' = IF s = "converted"
                               THEN [conversions EXCEPT ![q] = conversions[q] + 1]
                               ELSE conversions
             /\ answers' = IF s \in {"accepted", "rejected"}
                           THEN [answers EXCEPT ![q] = answers[q] + 1]
                           ELSE answers
      BY <2>2 DEF Send, Answer, ConvertToOrder, OrderedStatus
    <3> HIDE DEF q
    <3>3. /\ \A p \in Quotations : conversions'[p] >= conversions[p] /\ answers'[p] >= answers[p]
          /\ s = "converted" => conversions'[q] > 0
          /\ s \in {"accepted", "rejected"} => answers'[q] > 0
      BY <3>1, <3>2 DEF TypeOK
    <3>. QED BY <2>1, <3>1, <3>2, <3>3, QuotationStep
  <2>3. ASSUME NEW r \in Requests, Edit(r) PROVE QuotationsBacked'
    <3> DEFINE q == handler[r].doc
    <3>1. Done(r) /\ UNCHANGED <<conversions, answers>> /\ handler[r].op \in OnQuotation
      BY <2>3 DEF Edit, OnQuotation
    <3>2. CASE q \in Quotations
      <4>1. quotation' = [quotation EXCEPT ![q].status = handler[r].seen.status]
        BY <2>3, <3>2 DEF Edit
      <4>2. QuotationBacked(handler[r].seen, conversions[q], answers[q])
        BY <3>1, <3>2 DEF QuotationsBacked
      <4>4. PICK s : s = handler[r].seen.status
        OBVIOUS
      <4>5. /\ s = "converted" => conversions'[q] > 0
            /\ s \in {"accepted", "rejected"} => answers'[q] > 0
        BY <3>1, <4>2, <4>4 DEF QuotationBacked
      <4>6. quotation' = [quotation EXCEPT ![q].status = s] /\ Done(r)
        BY <3>1, <4>1, <4>4
      <4> HIDE DEF q
      <4>3. \A p \in Quotations : conversions'[p] >= conversions[p] /\ answers'[p] >= answers[p]
        BY <3>1 DEF TypeOK
      <4>. QED BY <2>1, <3>2, <4>3, <4>5, <4>6, QuotationStep
    <3>3. CASE q \notin Quotations
      <4>1. UNCHANGED quotation
        BY <2>3, <3>3 DEF Edit
      <4>2. \A x \in Requests : handler'[x] = handler[x] \/ handler'[x].op \notin OnQuotation
        BY <3>1 DEF Done, TypeOK, Idle, None, OnQuotation
      <4>. QED BY <2>1, <3>1, <4>1, <4>2, QuotationQuiet
    <3>. QED BY <3>2, <3>3
  <2>4. ASSUME NEW r \in Requests, NEW q \in Quotations, NEW op, LoadQuotation(r, op, q)
        PROVE  QuotationsBacked'
    <3>1. /\ UNCHANGED <<quotation, conversions, answers>>
          /\ handler'[r].doc = q /\ handler'[r].seen = quotation[q]
          /\ \A x \in Requests : x # r => handler'[x] = handler[x]
      BY <2>4 DEF LoadQuotation, TypeOK
    <3>. QED BY <3>1 DEF QuotationsBacked
  <2>5. ASSUME NEW r \in Requests, NEW o \in Orders, NEW op, LoadOrder(r, op, o)
        PROVE  QuotationsBacked'
    <3>1. /\ UNCHANGED <<quotation, conversions, answers>>
          /\ handler'[r].doc = o /\ o \notin Quotations
          /\ \A x \in Requests : x # r => handler'[x] = handler[x]
      BY <2>5, PipelineConstants DEF LoadOrder, TypeOK
    <3>. QED BY <3>1 DEF QuotationsBacked
  <2>6. ASSUME NEW r \in Requests,
               \/ Abort(r) \/ \E b \in Invoices : LoadInvoice(r, b)
               \/ \E b \in Invoices, ask \in Asks : ConvertToInvoice(r, b, ask)
               \/ \E o \in Orders \cup {None} : EditInvoice(r, o)
        PROVE  QuotationsBacked'
    <3>1. /\ UNCHANGED <<quotation, conversions, answers>>
          /\ Done(r) \/ \E b \in Invoices : LoadInvoice(r, b)
      BY <2>6 DEF Abort, LoadInvoice, ConvertToInvoice, EditInvoice
    <3>2. /\ handler'[r].op \notin OnQuotation
          /\ \A x \in Requests : x # r => handler'[x] = handler[x]
      BY <3>1 DEF LoadInvoice, Done, TypeOK, Idle, None, OnQuotation
    <3>. QED BY <2>1, <3>1, <3>2, QuotationQuiet
  <2>7. ASSUME NEW q \in Quotations, DeleteQuotation(q) PROVE QuotationsBacked'
    <3>1. /\ UNCHANGED <<conversions, answers, handler>>
          /\ \A p \in Quotations : quotation'[p] = IF p = q THEN Gone ELSE quotation[p]
      BY <2>7 DEF DeleteQuotation, TypeOK
    <3>. QED BY <3>1 DEF QuotationsBacked, QuotationBacked, Gone
  <2>8. CASE \/ \E o \in Orders : CreateOrder(o) \/ DeleteOrder(o)
             \/ \E b \in Invoices : DeleteInvoice(b)
             \/ \E b \in Invoices, o \in Orders \cup {None}, qty \in [Lines -> Amounts] :
                   CreateInvoice(b, o, qty)
             \/ UNCHANGED vars
    BY <2>1, <2>8, QuotationQuiet
       DEF CreateOrder, DeleteOrder, DeleteInvoice, CreateInvoice, vars
  <2>. QED BY <2>2, <2>3, <2>4, <2>5, <2>6, <2>7, <2>8 DEF Next, Serve
<1>2. Init => QuotationsBacked
  BY DEF Init, QuotationsBacked, QuotationBacked, Idle, None, OnQuotation
<1>3. QuotationsBacked => StatusIsBacked
  BY DEF QuotationsBacked, QuotationBacked, StatusIsBacked
<1>. QED BY <1>1, <1>2, <1>3, TypeCorrect, PTL DEF Spec

\* Where staff may delete documents and move invoices between orders, what an order
\* counts as invoiced has been billed, and an order shown as fulfilled is billed in
\* full, for as long as no document has been deleted and no invoice taken off its
\* order, however the requests overlap and whatever the invoices made by hand bill
\* (SalesOrderViewSet.convert_to_invoice, InvoiceSerializer, serializer.update).
THEOREM KeptOrdersStayBacked == MCSpec => []KeptCountedIsBilled
<1> DEFINE KeptInv == TypeOK /\ (past \cap {"delete", "unlink"} = {} => RaceInv)
<1>1. MCInit => KeptInv
  BY InitBacked DEF MCInit, RaceInv
<1>2. KeptInv /\ [MCNext]_<<vars, past>> => KeptInv'
  <2> SUFFICES ASSUME KeptInv, [MCNext]_<<vars, past>> PROVE KeptInv'
    OBVIOUS
  <2>1. [Next]_vars
    BY DEF MCNext
  <2>2. TypeOK'
    BY <2>1, StepType
  <2>3. ASSUME past' \cap {"delete", "unlink"} = {}
        PROVE  /\ past \cap {"delete", "unlink"} = {}
               /\ (~ Deletion /\ ~ Unlinking) \/ UNCHANGED vars
    BY <2>3 DEF MCNext, Happened
  <2>4. UNCHANGED vars /\ RaceInv => RaceInv'
    <3> SUFFICES ASSUME UNCHANGED vars, RaceInv PROVE RaceInv'
      OBVIOUS
    <3>1. Totals' = Totals
      BY TotalsUnchanged DEF vars
    <3>. QED BY <2>2, <3>1 DEF vars, RaceInv, BackedRows, BackedSnapshots
  <2>. QED BY <2>1, <2>2, <2>3, <2>4, StepBacked
<1>3. KeptInv => KeptCountedIsBilled
  BY BackedMeans DEF KeptCountedIsBilled
<1>. QED BY <1>1, <1>2, <1>3, PTL DEF MCSpec
----------------------------------------------------------------------------
(* What holds as long as requests do not overlap, edits and deletions      *)
(* included: a deletion may still come between a request's reading and its *)
(* transaction, so the request in flight may know a document that is gone. *)

\* One answer and one order per quotation; a status that can still be answered or
\* converted means that neither has happened.
Decided(row, ordered, told) ==
    /\ told <= 1 /\ ordered <= 1
    /\ row.status \in {"draft", "sent"} => told = 0
    /\ row.status \in {"draft", "sent", "accepted", "rejected"} => ordered = 0

\* A request lists each line once.
ListedOnce == MaxEntries = 1

\* Whatever is billed has been counted; with one entry for each line that bounds it.
Filled(row, counts, total) ==
    \A l \in Lines : /\ ListedOnce => total[l] <= Quantity[l]
                     /\ row.lines => total[l] <= counts[l]
                     /\ row.status = "unused" => total[l] = 0

\* What a request in flight has seen is still so, unless its order is gone.
Fresh(h, ordered, told, orders, counted) ==
    /\ h.doc \in Quotations => Exists(h.seen) /\ Decided(h.seen, ordered[h.doc], told[h.doc])
    /\ h.doc \in Orders => /\ Exists(h.seen) /\ orders[h.doc].status # "unused"
                           /\ orders[h.doc].lines => h.counts = counted[h.doc]

AllDecided == \A q \in Quotations : Decided(quotation[q], conversions[q], answers[q])
AllFilled == \A o \in Orders : Filled(order[o], invoiced[o], Totals[o])
AllFresh == \A r \in Requests :
    handler[r] # Idle => Fresh(handler[r], conversions, answers, order, invoiced)

\* The step keeps the orders filled; it may put an invoice on one by hand otherwise.
FilledKept == AllFilled => AllFilled'

AloneInv ==
    /\ TypeOK
    /\ "overlap" \notin past => ~ Overlap /\ AllDecided /\ AllFresh
    /\ past \cap {"overlap", "link"} = {} => AllFilled

\* Once the request in flight has ended there is none.
LEMMA LastOneDone ==
    ASSUME TypeOK, ~ Overlap, NEW r \in Requests, handler[r] # Idle, Done(r)
    PROVE  AllFresh'
BY DEF TypeOK, Overlap, Done, AllFresh

LEMMA AloneLoad ==
    ASSUME TypeOK, AllDecided, AllFresh, NEW r \in Requests
    PROVE  /\ \A q \in Quotations, op \in OnQuotation :
                 LoadQuotation(r, op, q) => AllDecided' /\ FilledKept /\ AllFresh'
           /\ \A o \in Orders, op \in OnOrder :
                 LoadOrder(r, op, o) => AllDecided' /\ FilledKept /\ AllFresh'
           /\ \A b \in Invoices : LoadInvoice(r, b) => AllDecided' /\ FilledKept /\ AllFresh'
<1>1. ASSUME NEW q \in Quotations, NEW op \in OnQuotation, LoadQuotation(r, op, q)
      PROVE  AllDecided' /\ FilledKept /\ AllFresh'
  <2>1. /\ UNCHANGED <<quotation, answers, conversions, order, invoiced, bill>>
        /\ handler'[r].doc = q /\ handler'[r].seen = quotation[q] /\ Exists(quotation[q])
        /\ \A x \in Requests : x # r => handler'[x] = handler[x]
    BY <1>1 DEF LoadQuotation, TypeOK
  <2>2. Totals' = Totals
    BY <2>1, TotalsUnchanged
  <2>3. Fresh(handler'[r], conversions, answers, order, invoiced)
    BY <2>1, PipelineConstants DEF Fresh, AllDecided
  <2>. QED BY <2>1, <2>2, <2>3 DEF AllDecided, AllFilled, AllFresh, FilledKept
<1>2. ASSUME NEW o \in Orders, NEW op \in OnOrder, LoadOrder(r, op, o)
      PROVE  AllDecided' /\ FilledKept /\ AllFresh'
  <2>1. /\ UNCHANGED <<quotation, answers, conversions, order, invoiced, bill>>
        /\ handler'[r].doc = o /\ handler'[r].seen = order[o] /\ Exists(order[o])
        /\ handler'[r].counts = invoiced[o]
        /\ \A x \in Requests : x # r => handler'[x] = handler[x]
    BY <1>2 DEF LoadOrder, TypeOK
  <2>2. Totals' = Totals
    BY <2>1, TotalsUnchanged
  <2>3. Fresh(handler'[r], conversions, answers, order, invoiced)
    BY <2>1, PipelineConstants DEF Fresh, Exists, Absent
  <2>. QED BY <2>1, <2>2, <2>3 DEF AllDecided, AllFilled, AllFresh, FilledKept
<1>3. ASSUME NEW b \in Invoices, LoadInvoice(r, b)
      PROVE  AllDecided' /\ FilledKept /\ AllFresh'
  <2>1. /\ UNCHANGED <<quotation, answers, conversions, order, invoiced, bill>>
        /\ handler'[r].doc = b
        /\ \A x \in Requests : x # r => handler'[x] = handler[x]
    BY <1>3 DEF LoadInvoice, TypeOK
  <2>2. Totals' = Totals
    BY <2>1, TotalsUnchanged
  <2>3. Fresh(handler'[r], conversions, answers, order, invoiced)
    BY <2>1, PipelineConstants DEF Fresh
  <2>. QED BY <2>1, <2>2, <2>3 DEF AllDecided, AllFilled, AllFresh, FilledKept
<1>. QED BY <1>1, <1>2, <1>3

\* Moving a quotation, seen by the only request, to its next status.
LEMMA DecidedMoves ==
    ASSUME TypeOK, AllDecided, NEW q \in Quotations, NEW s,
           quotation' = [quotation EXCEPT ![q].status = s],
           Decided([status |-> s], conversions'[q], answers'[q]),
           \A p \in Quotations : p # q => conversions'[p] = conversions[p]
                                          /\ answers'[p] = answers[p]
    PROVE  AllDecided'
<1> SUFFICES ASSUME NEW p \in Quotations
             PROVE  Decided(quotation'[p], conversions'[p], answers'[p])
  BY DEF AllDecided
<1>1. CASE p = q
  <2>1. quotation'[q].status = s
    BY DEF TypeOK, Quoted
  <2>. QED BY <1>1, <2>1 DEF Decided
<1>2. CASE p # q
  BY <1>2 DEF TypeOK, AllDecided
<1>. QED BY <1>1, <1>2

LEMMA FilledStays ==
    ASSUME UNCHANGED <<order, invoiced, bill>> PROVE FilledKept
BY TotalsUnchanged DEF AllFilled, FilledKept

LEMMA AloneQuotation ==
    ASSUME TypeOK, ~ Overlap, AllDecided, AllFresh, NEW r \in Requests,
           Send(r) \/ Answer(r) \/ \E o \in Orders : ConvertToOrder(r, o)
    PROVE  AllDecided' /\ FilledKept /\ AllFresh'
<1> DEFINE h == handler[r]
           q == handler[r].doc
<1>1. /\ q \in Quotations /\ h # Idle /\ Done(r)
  BY LoadedQuotation DEF Send, Answer, ConvertToOrder, Idle, None
<1>2. Exists(h.seen) /\ Decided(h.seen, conversions[q], answers[q])
  BY <1>1 DEF AllFresh, Fresh
<1>3. AllFresh'
  BY <1>1, LastOneDone
<1>4. CASE Send(r)
  <2>1. /\ h.seen.status = "draft" /\ UNCHANGED <<answers, conversions, order, invoiced, bill>>
        /\ quotation' = [quotation EXCEPT ![q].status = "sent"]
    BY <1>4 DEF Send
  <2>2. Decided([status |-> "sent"], conversions'[q], answers'[q])
    BY <1>2, <2>1 DEF Decided
  <2> HIDE DEF h, q
  <2>3. AllDecided'
    BY <1>1, <2>1, <2>2, DecidedMoves
  <2>. QED BY <1>3, <2>1, <2>3, FilledStays
<1>5. CASE Answer(r)
  <2>1. /\ h.seen.status = "sent" /\ UNCHANGED <<conversions, order, invoiced, bill>>
        /\ answers' = [answers EXCEPT ![q] = answers[q] + 1]
    BY <1>5 DEF Answer, Answerable
  <2>2. PICK s \in {"accepted", "rejected"} : quotation' = [quotation EXCEPT ![q].status = s]
    BY <1>5 DEF Answer
  <2>3. answers'[q] = 1 /\ conversions'[q] = 0
        /\ \A p \in Quotations : p # q => answers'[p] = answers[p]
    BY <1>1, <1>2, <2>1 DEF Decided, TypeOK
  <2>4. Decided([status |-> s], conversions'[q], answers'[q])
    BY <2>2, <2>3 DEF Decided
  <2> HIDE DEF h, q
  <2>5. AllDecided'
    BY <1>1, <2>1, <2>2, <2>3, <2>4, DecidedMoves
  <2>. QED BY <1>3, <2>1, <2>5, FilledStays
<1>6. ASSUME NEW o \in Orders, ConvertToOrder(r, o) PROVE AllDecided' /\ FilledKept /\ AllFresh'
  <2>1. /\ h.seen.status \notin {"converted", "rejected"} /\ UNCHANGED <<answers, invoiced, bill>>
        /\ quotation' = [quotation EXCEPT ![q].status = "converted"]
        /\ conversions' = [conversions EXCEPT ![q] = conversions[q] + 1]
        /\ order[o].status = "unused"
        /\ order' = [order EXCEPT ![o] = [status |-> "draft", lines |-> TRUE]]
    BY <1>6 DEF ConvertToOrder, Convertible, OrderedStatus
  <2>2. h.seen.status \in {"draft", "sent", "accepted"}
    BY <1>1, <1>2, <2>1, LoadedQuotation, <1>6
       DEF Exists, ConvertToOrder, Quoted, QuotationStatus
  <2>3. answers'[q] <= 1 /\ conversions'[q] = 1
        /\ \A p \in Quotations : p # q => conversions'[p] = conversions[p]
    BY <1>1, <1>2, <2>1, <2>2 DEF Decided, TypeOK
  <2>4. Decided([status |-> "converted"], conversions'[q], answers'[q])
    BY <2>3 DEF Decided
  <2> HIDE DEF h, q
  <2>5. AllDecided'
    BY <1>1, <2>1, <2>3, <2>4, DecidedMoves
  <2>6. Totals' = Totals
    BY <2>1, TotalsUnchanged
  <2>7. FilledKept
    <3>1. ASSUME AllFilled, NEW p \in Orders PROVE Filled(order'[p], invoiced'[p], Totals'[p])
      <4>1. Filled(order[p], invoiced[p], Totals[p])
        BY <3>1 DEF AllFilled
      <4>2. p # o => order'[p] = order[p]
        BY <2>1 DEF TypeOK
      <4>3. \A l \in Lines : invoiced[p][l] \in Nat /\ Quantity[l] \in Nat
        BY PipelineConstants DEF TypeOK, Counts
      <4>4. CASE p = o
        <5>1. \A l \in Lines : Totals[p][l] = 0
          BY <2>1, <4>1, <4>4 DEF Filled
        <5>2. order'[p].status = "draft"
          BY <2>1, <4>4 DEF TypeOK
        <5>. QED BY <2>1, <2>6, <4>3, <5>1, <5>2 DEF Filled
      <4>. QED BY <2>1, <2>6, <4>1, <4>2, <4>4
    <3>. QED BY <3>1 DEF AllFilled, FilledKept
  <2>. QED BY <1>3, <2>5, <2>7
<1>. QED BY <1>4, <1>5, <1>6

\* An edit writes back the status its request has seen.
LEMMA AloneEdit ==
    ASSUME TypeOK, ~ Overlap, AllDecided, AllFresh, NEW r \in Requests, Edit(r)
    PROVE  AllDecided' /\ FilledKept /\ AllFresh'
<1> DEFINE h == handler[r]
<1>1. /\ h.op = "edit" /\ h # Idle /\ Done(r)
      /\ UNCHANGED <<answers, conversions, invoiced, bill>>
  BY DEF Edit, Idle, None
<1>2. AllFresh' /\ Fresh(h, conversions, answers, order, invoiced)
  BY <1>1, LastOneDone DEF AllFresh
<1>3. CASE h.doc \in Quotations
  <2>1. quotation' = [quotation EXCEPT ![h.doc].status = h.seen.status] /\ UNCHANGED order
    BY <1>3 DEF Edit
  <2>2. Decided([status |-> h.seen.status], conversions'[h.doc], answers'[h.doc])
    BY <1>1, <1>2, <1>3 DEF Fresh, Decided
  <2> HIDE DEF h
  <2>3. AllDecided'
    BY <1>1, <1>3, <2>1, <2>2, DecidedMoves
  <2>. QED BY <1>1, <1>2, <2>1, <2>3, FilledStays
<1>4. CASE h.doc \notin Quotations
  <2>1. order' = [order EXCEPT ![h.doc].status = h.seen.status] /\ UNCHANGED quotation
    BY <1>4 DEF Edit
  <2>2. h.doc \in Orders /\ Exists(h.seen)
    BY <1>1, <1>2, <1>4, LoadedEdit DEF Fresh
  <2>3. Totals' = Totals
    BY <1>1, TotalsUnchanged
  <2>4. ASSUME AllFilled, NEW p \in Orders PROVE Filled(order'[p], invoiced'[p], Totals'[p])
    <3>1. order'[p].lines = order[p].lines
      BY <2>1, <2>2 DEF TypeOK, Ordered
    <3>2. order'[p].status = "unused" => order[p].status = "unused"
      BY <2>1, <2>2 DEF TypeOK, Ordered, Exists, Absent
    <3> HIDE DEF h
    <3>. QED BY <1>1, <2>3, <2>4, <3>1, <3>2 DEF AllFilled, Filled
  <2>. QED BY <1>1, <1>2, <2>1, <2>4 DEF AllDecided, AllFilled, FilledKept
<1>. QED BY <1>3, <1>4

\* With one entry for each line, what is asked of it was outstanding.
LEMMA OneEntry ==
    ASSUME ListedOnce, NEW ask \in Asks, NEW l \in Lines, NEW counts \in Counts,
           Billable(counts, ask, l)
    PROVE  counts[l] + Asked(ask, l) <= Quantity[l]
<1>1. 1..MaxEntries = {1}
  BY DEF ListedOnce
<1>2. ask[l][1] \in Nat /\ ask[l][1] <= Quantity[l] - counts[l]
  <2>1. 1 \in 1..MaxEntries
    BY <1>1
  <2>2. ask[l][1] \in Amounts
    BY <2>1 DEF Asks
  <2>3. Amounts \subseteq Nat
    BY PipelineConstants DEF Amounts
  <2>. QED BY <2>1, <2>2, <2>3 DEF Billable
<1>3. Asked(ask, l) = ask[l][1]
  <2> DEFINE f == ask[l]
  <2>1. f[1] \in Int
    BY <1>2
  <2>2. Asked(ask, l) = SumFunctionOnSet(f, {1})
    BY <1>1 DEF Asked
  <2> HIDE DEF f
  <2>3. SumFunctionOnSet(f, {1}) = f[1]
    BY <2>1, SumSingle
  <2>. QED BY <2>2, <2>3 DEF f
<1>. QED BY <1>2, <1>3, PipelineConstants DEF Counts

LEMMA AloneConvert ==
    ASSUME TypeOK, TypeOK', ~ Overlap, AllDecided, AllFresh,
           NEW r \in Requests, NEW b \in Invoices, NEW ask \in Asks, ConvertToInvoice(r, b, ask)
    PROVE  AllDecided' /\ FilledKept /\ AllFresh'
<1> DEFINE h == handler[r]
           o == h.doc
           counts == [l \in Lines |-> Counted(h.counts, ask, l)]
           touched == {l \in Lines : Asked(ask, l) > 0}
           qty == [l \in Lines |-> Asked(ask, l)]
           line == [l \in Lines |-> IF l \in touched THEN counts[l] ELSE invoiced[o][l]]
           status == IF Fulfilled(counts) THEN "fulfilled" ELSE "confirmed"
<1>1. /\ bill' = [bill EXCEPT ![b] = BillOf(o, qty)]
      /\ invoiced' = [invoiced EXCEPT ![o] = line]
      /\ order' = [order EXCEPT ![o].status = status]
      /\ bill[b] = NoBill /\ order[o].lines
      /\ \A l \in touched : Billable(h.counts, ask, l)
      /\ Done(r) /\ UNCHANGED <<quotation, answers, conversions>>
  BY DEF ConvertToInvoice
<1>2. o \in Orders /\ h.counts \in Counts /\ h # Idle
  BY LoadedOrder DEF ConvertToInvoice, Idle, None
<1>3. h.counts = invoiced[o]
  BY <1>1, <1>2 DEF AllFresh, Fresh
<1>4. \A l \in Lines : qty[l] \in Nat /\ invoiced[o][l] \in Nat /\ Quantity[l] \in Nat
  BY <1>2, AskedIsNat, PipelineConstants DEF Counts, TypeOK
<1>5. qty \in Counts
  BY <1>4 DEF Counts
<1>6. \A p \in Orders, l \in Lines : Totals[p][l] \in Nat
  BY TotalsType DEF Counts
<1>7. \A p \in Orders, l \in Lines : Totals'[p][l] = Totals[p][l] + IF p = o THEN qty[l] ELSE 0
  <2>1. bill \in [Invoices -> Billing] /\ bill[b] = NoBill /\ o \in Orders /\ qty \in Counts
    BY <1>1, <1>2, <1>5 DEF TypeOK
  <2>2. bill' = [bill EXCEPT ![b] = BillOf(o, qty)]
    BY <1>1
  <2> HIDE DEF qty, o
  <2>. QED BY <2>1, <2>2, NewBill
<1>8. \A l \in Lines : line[l] = invoiced[o][l] + qty[l]
  BY <1>2, <1>3, <1>4, AskedIsNat DEF Counted, Counts
<1>9. ListedOnce => \A l \in Lines : qty[l] > 0 => invoiced[o][l] + qty[l] <= Quantity[l]
  BY <1>1, <1>2, <1>3, OneEntry
<1>11. /\ order'[o].status # "unused" /\ invoiced'[o] = line
       /\ \A p \in Orders : p # o => order'[p] = order[p] /\ invoiced'[p] = invoiced[p]
  BY <1>1, <1>2 DEF TypeOK, Ordered
<1>12. AllFresh'
  BY <1>1, <1>2, LastOneDone
<1> SUFFICES ASSUME AllFilled PROVE AllFilled'
  BY <1>1, <1>12 DEF AllDecided, FilledKept
<1>10. \A p \in Orders : Filled(order[p], invoiced[p], Totals[p])
  BY DEF AllFilled
<1> HIDE DEF h, counts, touched, qty, line, status
<1>13. \A l \in Lines : Totals'[o][l] <= line[l]
  BY <1>1, <1>2, <1>4, <1>6, <1>7, <1>8, <1>10 DEF Filled
<1>14. ListedOnce => \A l \in Lines : Totals'[o][l] <= Quantity[l]
  BY <1>1, <1>2, <1>4, <1>6, <1>7, <1>9, <1>10 DEF Filled
<1>15. ASSUME NEW p \in Orders PROVE Filled(order'[p], invoiced'[p], Totals'[p])
  <2>1. CASE p = o
    <3> HIDE DEF o
    <3>1. Filled(order'[o], invoiced'[o], Totals'[o])
      BY <1>11, <1>13, <1>14 DEF Filled
    <3>. QED BY <2>1, <3>1
  <2>2. CASE p # o
    <3>1. \A l \in Lines : Totals'[p][l] = Totals[p][l]
      BY <1>6, <1>7, <2>2
    <3>. QED BY <2>2, <3>1, <1>10, <1>11 DEF Filled
  <2>. QED BY <2>1, <2>2
<1>. QED BY <1>15 DEF AllFilled

\* Deleting an order or an invoice takes away what was billed, and adds nothing.
LEMMA AloneDeletion ==
    ASSUME TypeOK, TypeOK', AllDecided, AllFresh, Deletion
    PROVE  AllDecided' /\ FilledKept /\ AllFresh'
<1>0. /\ \A p \in Orders, l \in Lines : Totals[p][l] \in Nat /\ Totals'[p][l] \in Nat
                                        /\ invoiced[p][l] \in Nat
      /\ \A l \in Lines : Quantity[l] \in Nat
      /\ AllFilled => \A p \in Orders : Filled(order[p], invoiced[p], Totals[p])
  BY TotalsType, PipelineConstants DEF Counts, TypeOK, AllFilled
<1>1. ASSUME NEW o \in Orders, DeleteOrder(o) PROVE AllDecided' /\ FilledKept /\ AllFresh'
  <2>1. /\ order' = [order EXCEPT ![o] = Gone] /\ invoiced' = [invoiced EXCEPT ![o] = NoCounts]
        /\ bill' = [b \in Invoices |-> IF bill[b].order = o THEN [bill[b] EXCEPT !.order = None]
                                                            ELSE bill[b]]
        /\ UNCHANGED <<quotation, answers, conversions, handler>>
    BY <1>1 DEF DeleteOrder
  <2>2. /\ order'[o].status = "gone" /\ ~ order'[o].lines
        /\ \A p \in Orders : p # o => order'[p] = order[p] /\ invoiced'[p] = invoiced[p]
    BY <2>1 DEF TypeOK, Gone
  <2>3. ASSUME NEW p \in Orders, p # o, NEW l \in Lines PROVE Totals'[p][l] = Totals[p][l]
    <3>1. ASSUME NEW b \in Invoices
          PROVE  (IF bill'[b].order = p THEN bill'[b].qty[l] ELSE 0)
                     = (IF bill[b].order = p THEN bill[b].qty[l] ELSE 0)
      <4>1. bill[b].order = o => bill'[b].order = None /\ None # p
        BY <2>1, PipelineConstants DEF TypeOK, Billing
      <4>2. bill[b].order # o => bill'[b] = bill[b]
        BY <2>1
      <4>. QED BY <2>3, <4>1, <4>2
    <3>2. BilledBy(p, l)' = BilledBy(p, l)
      BY <3>1 DEF BilledBy
    <3>. QED BY <3>2 DEF Totals, Billed
  <2>4. ASSUME NEW l \in Lines PROVE Totals'[o][l] = 0
    <3>1. \A b \in Invoices : bill'[b].order # o
      BY <2>1, PipelineConstants DEF TypeOK, Billing
    <3>2. IsFiniteSet(Invoices) /\ \A b \in Invoices : BilledBy(o, l)'[b] = 0
      BY <3>1, PipelineConstants DEF BilledBy
    <3>3. SumFunctionOnSet(BilledBy(o, l)', Invoices) = 0
      BY <3>2, SumZero
    <3>. QED BY <3>3 DEF Totals, Billed
  <2>5. FilledKept
    <3>1. ASSUME AllFilled, NEW p \in Orders PROVE Filled(order'[p], invoiced'[p], Totals'[p])
      <4>1. CASE p = o
        BY <1>0, <2>2, <2>4, <3>1, <4>1 DEF Filled
      <4>2. CASE p # o
        BY <1>0, <2>2, <2>3, <3>1, <4>2 DEF Filled
      <4>. QED BY <4>1, <4>2
    <3>. QED BY <3>1 DEF AllFilled, FilledKept
  <2>6. AllFresh'
    <3>1. ASSUME NEW x \in Requests, handler[x] # Idle
          PROVE  Fresh(handler[x], conversions, answers, order', invoiced')
      <4>1. Fresh(handler[x], conversions, answers, order, invoiced)
        BY <3>1 DEF AllFresh
      <4>. QED BY <2>2, <4>1 DEF Fresh
    <3>. QED BY <2>1, <3>1 DEF AllFresh
  <2>. QED BY <2>1, <2>5, <2>6 DEF AllDecided
<1>2. ASSUME NEW q \in Quotations, DeleteQuotation(q) PROVE AllDecided' /\ FilledKept /\ AllFresh'
  <2>1. /\ quotation' = [quotation EXCEPT ![q] = Gone]
        /\ UNCHANGED <<answers, conversions, order, invoiced, bill, handler>>
    BY <1>2 DEF DeleteQuotation
  <2>2. AllDecided'
    BY <2>1 DEF AllDecided, Decided, TypeOK, Gone
  <2>. QED BY <2>1, <2>2, FilledStays DEF AllFresh
<1>3. ASSUME NEW c \in Invoices, DeleteInvoice(c) PROVE AllDecided' /\ FilledKept /\ AllFresh'
  <2>1. /\ bill'[c].order = None /\ \A b \in Invoices : b # c => bill'[b] = bill[b]
        /\ UNCHANGED <<quotation, answers, conversions, order, invoiced, handler>>
    BY <1>3 DEF DeleteInvoice, TypeOK, NoBill
  <2>2. ASSUME NEW p \in Orders, NEW l \in Lines PROVE Totals'[p][l] <= Totals[p][l]
    <3>1. Bills(bill'[c], p, l) = 0
      BY <2>1, PipelineConstants DEF Bills
    <3>. QED BY <2>1, <3>1, BillChanges
  <2>3. FilledKept
    <3>1. ASSUME AllFilled, NEW p \in Orders PROVE Filled(order'[p], invoiced'[p], Totals'[p])
      BY <1>0, <2>1, <2>2, <3>1 DEF Filled
    <3>. QED BY <3>1 DEF AllFilled, FilledKept
  <2>. QED BY <2>1, <2>3 DEF AllDecided, AllFresh
<1>. QED BY <1>1, <1>2, <1>3 DEF Deletion

LEMMA AloneCreate ==
    ASSUME TypeOK, TypeOK', AllDecided, AllFresh, NEW o \in Orders, CreateOrder(o)
    PROVE  AllDecided' /\ FilledKept /\ AllFresh'
<1>1. /\ order[o].status = "unused" /\ order'[o].status = "draft"
      /\ \A p \in Orders : p # o => order'[p] = order[p]
      /\ UNCHANGED <<quotation, answers, conversions, invoiced, bill, handler>>
  BY DEF CreateOrder, TypeOK
<1>2. Totals' = Totals
  BY <1>1, TotalsUnchanged
<1>3. ASSUME AllFilled, NEW p \in Orders PROVE Filled(order'[p], invoiced'[p], Totals'[p])
  <2>1. Filled(order[p], invoiced[p], Totals[p])
        /\ \A l \in Lines : invoiced[p][l] \in Nat /\ Quantity[l] \in Nat
    BY <1>3, PipelineConstants DEF AllFilled, TypeOK, Counts
  <2>. QED BY <1>1, <1>2, <2>1 DEF Filled
<1>4. ASSUME NEW x \in Requests, handler[x] # Idle
      PROVE  Fresh(handler[x], conversions, answers, order', invoiced)
  <2>1. Fresh(handler[x], conversions, answers, order, invoiced)
    BY <1>4 DEF AllFresh
  <2>. QED BY <1>1, <2>1 DEF Fresh
<1>. QED BY <1>1, <1>3, <1>4 DEF AllDecided, AllFilled, AllFresh, FilledKept

\* An invoice written by hand bills no more of any order, unless it joins one.
LEMMA AloneByHand ==
    ASSUME TypeOK, TypeOK', NEW b \in Invoices,
           \A c \in Invoices : c # b => bill'[c] = bill[c],
           bill'[b].order \in {None, bill[b].order},
           bill'[b].order = None \/ bill'[b].qty = bill[b].qty,
           UNCHANGED <<order, invoiced>>
    PROVE  FilledKept
<1> SUFFICES ASSUME AllFilled, NEW p \in Orders
             PROVE  Filled(order[p], invoiced[p], Totals'[p])
  BY DEF AllFilled, FilledKept
<1>1. ASSUME NEW l \in Lines
      PROVE  /\ Totals'[p][l] <= Totals[p][l]
             /\ Totals'[p][l] \in Nat /\ Totals[p][l] \in Nat
  <2>1. Bills(bill'[b], p, l) \in {0, Bills(bill[b], p, l)}
    BY PipelineConstants DEF Bills
  <2>2. Totals'[p] \in Counts
    BY TotalsType
  <2>. QED BY <2>1, <2>2, BillChanges DEF Counts
<1>2. Filled(order[p], invoiced[p], Totals[p])
      /\ \A l \in Lines : invoiced[p][l] \in Nat /\ Quantity[l] \in Nat
  BY PipelineConstants DEF AllFilled, TypeOK, Counts
<1>. QED BY <1>1, <1>2 DEF Filled

LEMMA AloneStep == AloneInv /\ [MCNext]_<<vars, past>> => AloneInv'
<1> SUFFICES ASSUME AloneInv, [MCNext]_<<vars, past>> PROVE AloneInv'
  OBVIOUS
<1>1. TypeOK /\ TypeOK'
  BY StepType DEF AloneInv, MCNext
<1>2. CASE UNCHANGED <<vars, past>>
  <2>1. Totals' = Totals
    BY <1>2, TotalsUnchanged DEF vars
  <2>. QED BY <1>1, <1>2, <2>1
           DEF AloneInv, vars, Overlap, AllDecided, AllFilled, AllFresh
<1>3. CASE MCNext
  <2>1. SUFFICES ASSUME "overlap" \notin past'
                 PROVE  /\ ~ Overlap' /\ AllDecided' /\ AllFresh'
                        /\ "link" \notin past' => FilledKept
    <3>1. past \subseteq past'
      BY <1>3 DEF MCNext
    <3>. QED BY <1>1, <3>1 DEF AloneInv, FilledKept
  <2>2. /\ "overlap" \notin past /\ ~ Overlap' /\ Next
        /\ "link" \notin past' => ~ Linking
    BY <1>3, <2>1 DEF MCNext, Happened
  <2>3. ~ Overlap /\ AllDecided /\ AllFresh
    BY <2>2 DEF AloneInv
  <2>4. ASSUME NEW r \in Requests, Abort(r) PROVE AllDecided' /\ FilledKept /\ AllFresh'
    BY <1>1, <2>3, <2>4, LastOneDone, FilledStays DEF Abort, AllDecided
  <2>5. ASSUME NEW r \in Requests, NEW o \in Orders \cup {None}, EditInvoice(r, o)
        PROVE  AllDecided' /\ AllFresh' /\ (~ Linking => FilledKept)
    <3> DEFINE b == handler[r].doc
    <3>1. /\ b \in Invoices /\ handler[r] # Idle /\ Done(r) /\ handler[r].op = "patch"
          /\ UNCHANGED <<quotation, answers, conversions, order, invoiced>>
      BY <1>1, <2>5, LoadedPatch DEF EditInvoice
    <3>2. /\ \A c \in Invoices : c # b => bill'[c] = bill[c]
          /\ bill'[b].qty = bill[b].qty
      BY <1>1, <2>5, <3>1 DEF EditInvoice, TypeOK, Billing
    <3>3. ByHand
      BY <1>1, <3>1 DEF ByHand, Ends, Done, TypeOK
    <3>4. ~ Linking => bill'[b].order \in {None, bill[b].order}
      BY <3>1, <3>3 DEF Linking
    <3> HIDE DEF b
    <3>5. ~ Linking => FilledKept
      BY <1>1, <3>1, <3>2, <3>4, AloneByHand
    <3>. QED BY <1>1, <2>3, <3>1, <3>5, LastOneDone DEF AllDecided
  <2>6. ASSUME NEW b \in Invoices, NEW o \in Orders \cup {None}, NEW qty \in [Lines -> Amounts],
               CreateInvoice(b, o, qty)
        PROVE  AllDecided' /\ AllFresh' /\ (~ Linking => FilledKept)
    <3>1. /\ bill[b].order = None /\ \A c \in Invoices : c # b => bill'[c] = bill[c]
          /\ UNCHANGED <<quotation, answers, conversions, order, invoiced, handler>>
      BY <1>1, <2>6 DEF CreateInvoice, NoBill, TypeOK
    <3>2. ByHand
      BY <3>1 DEF ByHand, Ends
    <3>3. ~ Linking => bill'[b].order = None
      BY <3>1, <3>2 DEF Linking
    <3>4. ~ Linking => FilledKept
      BY <1>1, <3>1, <3>3, AloneByHand
    <3>. QED BY <2>3, <3>1, <3>4 DEF AllDecided, AllFresh
  <2>7. ASSUME NEW r \in Requests, Serve(r)
        PROVE  AllDecided' /\ AllFresh' /\ (~ Linking => FilledKept)
    BY <1>1, <2>3, <2>4, <2>5, <2>7, AloneLoad, AloneQuotation, AloneEdit, AloneConvert DEF Serve
  <2>. QED BY <1>1, <2>2, <2>3, <2>6, <2>7, AloneDeletion, AloneCreate DEF Next, Deletion
<1>. QED BY <1>2, <1>3

LEMMA AloneInit == MCInit => AloneInv
<1> SUFFICES ASSUME MCInit PROVE AloneInv
  OBVIOUS
<1>1. ~ Overlap /\ AllFresh /\ AllDecided
  BY DEF MCInit, Init, Overlap, AllFresh, AllDecided, Decided
<1>2. AllFilled
  BY InitTotals, PipelineConstants DEF MCInit, Init, AllFilled, Filled, NoCounts
<1>. QED BY <1>1, <1>2, InitType DEF MCInit, AloneInv

\* Served one at a time, with edits and deletions in between, a customer answers a
\* quotation once and it becomes at most one order, none when it was rejected
\* (PortalQuotationViewSet, QuotationViewSet.convert_to_order).
THEOREM AloneDecides == MCSpec => []AloneDecidedOnce
<1>1. AloneInv => AloneDecidedOnce
  BY DEF AloneInv, AloneDecidedOnce, AllDecided, Decided, DecidedOnce
<1>. QED BY <1>1, AloneStep, AloneInit, PTL DEF MCSpec

\* Served one at a time, with edits and deletions in between, and as long as no
\* invoice is put on an order by hand, nothing the invoices of an order bill is
\* outstanding; and when a request lists each line once, they never bill more of a
\* line than was ordered (SalesOrderViewSet.convert_to_invoice).
THEOREM AloneOrdersAddUp ==
    ASSUME MaxEntries = 1
    PROVE  MCSpec => []AloneBilledIsCounted
<1>1. AloneInv => AloneBilledIsCounted
  BY DEF AloneInv, AloneBilledIsCounted, AllFilled, Filled, ListedOnce, NeverOverbilled,
     BilledIsCounted, Totals
<1>. QED BY <1>1, AloneStep, AloneInit, PTL DEF MCSpec
=============================================================================
