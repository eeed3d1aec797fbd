-------------------------- MODULE PurchasingProofs --------------------------
(***************************************************************************)
(* Theorems of Purchasing, for any number of requests in flight, with      *)
(* stale edits, crashes between commits, deletions, and receipts of other  *)
(* orders' items and of other products.                                    *)
(***************************************************************************)
EXTENDS MCPurchasing, SumTheorems, TLAPS

----------------------------------------------------------------------------
(* What a receipt lists.                                                   *)

LEMMA EntriesType ==
    ASSUME NEW entries \in Entries
    PROVE  /\ IsFiniteSet(DOMAIN entries) /\ DOMAIN entries \subseteq Nat
           /\ \A e \in DOMAIN entries : entries[e].item \in Items /\ entries[e].qty \in Nat
<1>1. PICK n \in 0..MaxEntries : entries \in [1..n -> Entry]
  BY DEF Entries
<1>2. n \in Nat /\ MaxQty \in Nat
  BY PurchasingConstants
<1>3. IsFiniteSet(1..n)
  BY <1>2, FS_Interval
<1>4. 1..n \subseteq Nat /\ 1..MaxQty \subseteq Nat
  BY <1>2
<1>5. /\ DOMAIN entries = 1..n
      /\ \A e \in 1..n : entries[e].item \in Items /\ entries[e].qty \in 1..MaxQty
  BY <1>1 DEF Entry
<1>. QED BY <1>3, <1>4, <1>5

LEMMA EntriesOfType ==
    ASSUME NEW entries \in Entries, NEW i
    PROVE  /\ EntriesOf(entries, i) \subseteq DOMAIN entries
           /\ IsFiniteSet(EntriesOf(entries, i))
           /\ \A e \in EntriesOf(entries, i) : entries[e].qty \in Nat
<1>1. EntriesOf(entries, i) \subseteq DOMAIN entries
  BY DEF EntriesOf
<1>. QED BY <1>1, EntriesType, FS_Subset

LEMMA ArrivingType ==
    ASSUME NEW entries \in Entries, NEW i PROVE Arriving(entries, i) \in Nat
<1>1. \A e \in EntriesOf(entries, i) : Quantities(entries)[e] \in Nat
  BY EntriesOfType DEF Quantities
<1>2. SumFunctionOnSet(Quantities(entries), EntriesOf(entries, i)) \in Nat
  BY <1>1, EntriesOfType, SumNat
<1>. QED BY <1>2 DEF Arriving

LEMMA StrayingType ==
    ASSUME NEW entries \in Entries, NEW i PROVE Straying(entries, i) \in Nat
<1> DEFINE S == {e \in EntriesOf(entries, i) : ~ entries[e].asOrdered}
<1>1. S \subseteq EntriesOf(entries, i) /\ IsFiniteSet(S)
  BY EntriesOfType, FS_Subset
<1>2. \A e \in S : Quantities(entries)[e] \in Nat
  BY EntriesOfType DEF Quantities
<1> HIDE DEF S
<1>3. SumFunctionOnSet(Quantities(entries), S) \in Nat
  BY <1>1, <1>2, SumNat
<1>. QED BY <1>3 DEF Straying, S

\* Each entry is part of what arrives.
LEMMA EntryArrives ==
    ASSUME NEW entries \in Entries, NEW i, NEW e \in EntriesOf(entries, i)
    PROVE  entries[e].qty <= Arriving(entries, i)
<1> DEFINE f == Quantities(entries)
           S == EntriesOf(entries, i)
<1>1. f[e] = entries[e].qty /\ \A x \in S : f[x] \in Nat
  BY EntriesOfType DEF Quantities
<1>2. IsFiniteSet(S) /\ IsFiniteSet(S \ {e}) /\ e \in S
  BY EntriesOfType, FS_Subset
<1> HIDE DEF f, S
<1>3. SumFunctionOnSet(f, S \ {e}) \in Nat
  BY <1>1, <1>2, SumNat
<1>4. SumFunctionOnSet(f, S) = f[e] + SumFunctionOnSet(f, S \ {e})
  BY <1>1, <1>2, SumRemove
<1>5. f[e] <= SumFunctionOnSet(f, S)
  BY <1>1, <1>2, <1>3, <1>4
<1>. QED BY <1>1, <1>5 DEF Arriving, f, S

\* A finite set of natural numbers that is not empty has a greatest member.
LEMMA GreatestMember ==
    ASSUME NEW S, IsFiniteSet(S), S # {}, S \subseteq Nat
    PROVE  \E m \in S : \A x \in S : x <= m
<1> DEFINE HasGreatest(s) == \E m \in s : \A x \in s : x <= m
           T == {s \in SUBSET S : s # {} /\ ~ HasGreatest(s)}
<1>1. SUFFICES ASSUME T # {} PROVE FALSE
  OBVIOUS
<1>2. T \subseteq SUBSET S
  OBVIOUS
<1>3. PICK u \in T : \A x \in u : u \ {x} \notin T
  BY <1>1, <1>2, SmallestSubset
<1>4. PICK x \in u : TRUE
  OBVIOUS
<1>5. u \subseteq Nat /\ ~ HasGreatest(u)
  OBVIOUS
<1>6. u \ {x} = {} \/ HasGreatest(u \ {x})
  BY <1>3, <1>4
<1>7. CASE u \ {x} = {}
  <2>1. \A y \in u : y <= x
    BY <1>4, <1>5, <1>7
  <2>. QED BY <1>4, <1>5, <2>1
<1>8. CASE HasGreatest(u \ {x})
  <2>1. PICK m \in u \ {x} : \A y \in u \ {x} : y <= m
    BY <1>8
  <2>2. CASE x <= m
    <3>1. \A y \in u : y <= m
      BY <2>1, <2>2
    <3>. QED BY <1>5, <2>1, <3>1
  <2>3. CASE ~ (x <= m)
    <3>1. \A y \in u : y <= x
      BY <1>4, <1>5, <2>1, <2>3
    <3>. QED BY <1>4, <1>5, <3>1
  <2>. QED BY <2>2, <2>3
<1>. QED BY <1>6, <1>7, <1>8

\* What is counted for an item is one of the entries that list it.
LEMMA CountedType ==
    ASSUME NEW entries \in Entries, NEW i, EntriesOf(entries, i) # {},
           NEW seen, seen[i] \in Nat
    PROVE  /\ Counted(seen, entries, i) \in Nat
           /\ Counted(seen, entries, i) <= seen[i] + Arriving(entries, i)
<1> DEFINE S == EntriesOf(entries, i)
           last == CHOOSE e \in S : \A f \in S : f <= e
<1>1. S \subseteq Nat /\ IsFiniteSet(S) /\ S # {}
  BY EntriesOfType, EntriesType
<1>2. \E e \in S : \A f \in S : f <= e
  <2> HIDE DEF S
  <2>. QED BY <1>1, GreatestMember
<1>3. last \in S
  BY <1>2
<1>4. Counted(seen, entries, i) = seen[i] + entries[last].qty
  BY DEF Counted
<1> HIDE DEF last
<1>5. entries[last].qty \in Nat /\ entries[last].qty <= Arriving(entries, i)
  BY <1>3, EntriesOfType, EntryArrives
<1>. QED BY <1>4, <1>5, ArrivingType

----------------------------------------------------------------------------
(* Type correctness.                                                       *)

LEMMA LoadedDemand ==
    ASSUME TypeOK, NEW r \in Requests, handler[r].op \in {"submit", "approve", "reject", "convert"}
    PROVE  handler[r].doc \in Demands /\ handler[r].seen \in DemandStatus
BY DEF TypeOK, Idle, None, Loaded, OnOrder

LEMMA LoadedOnOrder ==
    ASSUME TypeOK, NEW r \in Requests,
           handler[r].op \in {"send", "acknowledge", "receive", "pay", "credit", "post"}
    PROVE  /\ handler[r].doc \in Orders /\ handler[r].seen \in Row
           /\ handler[r].counts \in Counts /\ handler[r].amount \in Nat
           /\ handler[r] = [op |-> handler[r].op, doc |-> handler[r].doc, seen |-> handler[r].seen,
                            counts |-> handler[r].counts, amount |-> handler[r].amount]
BY DEF TypeOK, Idle, None, Loaded, OnDemand

LEMMA LoadedEdit ==
    ASSUME TypeOK, NEW r \in Requests, handler[r].op = "edit"
    PROVE  \/ /\ handler[r].doc \in Demands /\ handler[r].doc \notin Orders
              /\ handler[r].seen \in DemandStatus
           \/ /\ handler[r].doc \in Orders /\ handler[r].doc \notin Demands
              /\ handler[r].seen \in Row
BY PurchasingConstants DEF TypeOK, Idle, None, Loaded

LEMMA DoneType ==
    ASSUME TypeOK, NEW r \in Requests, Done(r)
    PROVE  handler' \in [Requests -> Loaded \cup {Idle}]
BY DEF TypeOK, Done

LEMMA ZeroType == Zero \in Counts
BY DEF Zero, Counts

LEMMA BeginType ==
    ASSUME TypeOK, NEW r \in Requests, NEW h \in Loaded, Begin(r, h)
    PROVE  handler' \in [Requests -> Loaded \cup {Idle}]
BY DEF TypeOK, Begin

LEMMA LoadType ==
    ASSUME TypeOK, NEW r \in Requests
    PROVE  /\ \A d \in Demands, op \in OnDemand : LoadDemand(r, op, d) => TypeOK'
           /\ \A o \in Orders, op \in OnOrder, amount \in Amounts \cup {0} :
                 LoadOrder(r, op, o, amount) => TypeOK'
<1>1. ASSUME NEW d \in Demands, NEW op \in OnDemand, LoadDemand(r, op, d) PROVE TypeOK'
  <2> DEFINE h == [op |-> op, doc |-> d, seen |-> demand[d], counts |-> Zero, amount |-> 0]
  <2>1. h \in Loaded
    BY ZeroType DEF TypeOK, Loaded
  <2>2. Begin(r, h) /\ UNCHANGED <<workflow, order, goods, money, deleted>>
    BY <1>1 DEF LoadDemand
  <2> HIDE DEF h
  <2>. QED BY <2>1, <2>2, BeginType DEF workflow, goods, money, TypeOK
<1>2. ASSUME NEW o \in Orders, NEW op \in OnOrder, NEW amount \in Amounts \cup {0},
             LoadOrder(r, op, o, amount)
      PROVE  TypeOK'
  <2> DEFINE counts == IF op = "receive" THEN received ELSE Zero
             h == [op |-> op, doc |-> o, seen |-> order[o], amount |-> amount, counts |-> counts]
  <2>1. counts \in Counts /\ amount \in Nat
    BY ZeroType, PurchasingConstants DEF TypeOK
  <2>2. Begin(r, h) /\ UNCHANGED <<workflow, order, goods, money, deleted>>
    BY <1>2 DEF LoadOrder
  <2> HIDE DEF counts
  <2>3. h \in Loaded
    BY <2>1 DEF TypeOK, Loaded
  <2> HIDE DEF h
  <2>. QED BY <2>2, <2>3, BeginType DEF workflow, goods, money, TypeOK
<1>. QED BY <1>1, <1>2

LEMMA RowType ==
    ASSUME TypeOK, NEW o \in Orders
    PROVE  /\ \A s \in OrderStatus : [order EXCEPT ![o].status = s] \in [Orders -> Row]
           /\ \A n \in Nat : [order EXCEPT ![o].paid = n] \in [Orders -> Row]
BY DEF TypeOK, Row

LEMMA ReceiveType ==
    ASSUME TypeOK, NEW r \in Requests, NEW entries \in Entries, Receive(r, entries)
    PROVE  TypeOK'
<1> DEFINE h == handler[r]
           touched == {i \in Items : EntriesOf(entries, i) # {}}
<1>1. h.doc \in Orders /\ h.counts \in Counts
  BY LoadedOnOrder DEF Receive
<1>2. /\ stocked' = [i \in Items |-> IF i \in touched THEN stocked[i] + Arriving(entries, i)
                                                       ELSE stocked[i]]
      /\ received' = [i \in Items |-> IF i \in touched THEN Counted(h.counts, entries, i)
                                                        ELSE received[i]]
      /\ strayed' = [i \in Items |-> strayed[i] + Straying(entries, i)]
      /\ \E s \in OrderStatus : order' = [order EXCEPT ![h.doc].status = s]
      /\ Done(r) /\ UNCHANGED <<workflow, money, deleted>>
  BY DEF Receive, OrderStatus
<1>3. stocked' \in Counts
  <2>1. \A i \in Items : stocked[i] \in Nat /\ Arriving(entries, i) \in Nat
    BY ArrivingType DEF TypeOK, Counts
  <2>2. \A i \in Items : stocked[i] + Arriving(entries, i) \in Nat
    BY <2>1
  <2> HIDE DEF touched
  <2>. QED BY <1>2, <2>1, <2>2 DEF Counts
<1>4. received' \in Counts
  <2>1. \A i \in Items : received[i] \in Nat /\ h.counts[i] \in Nat
    BY <1>1 DEF TypeOK, Counts
  <2>2. \A i \in touched : Counted(h.counts, entries, i) \in Nat
    BY <2>1, CountedType
  <2> HIDE DEF touched
  <2>. QED BY <1>2, <2>1, <2>2 DEF Counts
<1>5. order' \in [Orders -> Row]
  BY <1>1, <1>2, RowType
<1>6. strayed' \in Counts
  <2>1. \A i \in Items : strayed[i] + Straying(entries, i) \in Nat
    BY StrayingType DEF TypeOK, Counts
  <2>. QED BY <1>2, <2>1 DEF Counts
<1>. QED BY <1>2, <1>3, <1>4, <1>5, <1>6, DoneType DEF TypeOK, workflow, money

LEMMA OtherOp ==
    ASSUME NEW h, NEW op, h = [op |-> h.op, doc |-> h.doc, seen |-> h.seen,
                               counts |-> h.counts, amount |-> h.amount]
    PROVE  [h EXCEPT !.op = op] = [op |-> op, doc |-> h.doc, seen |-> h.seen,
                                   counts |-> h.counts, amount |-> h.amount]
OBVIOUS

\* A request moves on to the next commit of a payment.
LEMMA MovesOn ==
    ASSUME TypeOK, NEW r \in Requests, handler[r].op \in {"pay", "credit"},
           NEW op \in {"credit", "post"}
    PROVE  [handler[r] EXCEPT !.op = op] \in Loaded
<1>1. handler[r] = [op |-> handler[r].op, doc |-> handler[r].doc, seen |-> handler[r].seen,
                    counts |-> handler[r].counts, amount |-> handler[r].amount]
  BY LoadedOnOrder
<1>2. [handler[r] EXCEPT !.op = op]
        = [op |-> op, doc |-> handler[r].doc, seen |-> handler[r].seen,
           counts |-> handler[r].counts, amount |-> handler[r].amount]
  BY <1>1, OtherOp
<1>3. op \in OnOrder
  BY DEF OnOrder
<1>4. /\ handler[r].doc \in Orders /\ handler[r].seen \in Row
      /\ handler[r].counts \in Counts /\ handler[r].amount \in Nat
  BY LoadedOnOrder
<1>. QED BY <1>2, <1>3, <1>4 DEF Loaded

LEMMA StepType == TypeOK /\ [Next]_vars => TypeOK'
<1> SUFFICES ASSUME TypeOK, [Next]_vars PROVE TypeOK'
  OBVIOUS
<1> USE DEF workflow, goods, money
<1>1. ASSUME NEW r \in Requests, Submit(r) \/ Approve(r) \/ Reject(r) PROVE TypeOK'
  <2>1. handler[r].doc \in Demands
    BY <1>1, LoadedDemand DEF Submit, Approve, Reject
  <2>2. demand' \in [Demands -> DemandStatus]
    BY <1>1 DEF Submit, Approve, Reject, TypeOK, DemandStatus
  <2>3. approvals' \in [Demands -> Nat] /\ rejections' \in [Demands -> Nat]
    BY <1>1, <2>1 DEF Submit, Approve, Reject, TypeOK
  <2>. QED BY <1>1, <2>2, <2>3, DoneType DEF Submit, Approve, Reject, TypeOK
<1>2. ASSUME NEW r \in Requests, NEW o \in Orders, ConvertToPo(r, o) PROVE TypeOK'
  <2>1. handler[r].doc \in Demands
    BY <1>2, LoadedDemand DEF ConvertToPo
  <2>2. demand' \in [Demands -> DemandStatus] /\ ordersMade' \in [Demands -> Nat]
    BY <1>2, <2>1 DEF ConvertToPo, TypeOK, DemandStatus
  <2>3. order' \in [Orders -> Row]
    BY <1>2, RowType DEF ConvertToPo, OrderStatus
  <2>. QED BY <1>2, <2>2, <2>3, DoneType DEF ConvertToPo, TypeOK
<1>3. ASSUME NEW r \in Requests, Advance(r) PROVE TypeOK'
  <2>1. handler[r].doc \in Orders
    BY <1>3, LoadedOnOrder DEF Advance
  <2>2. order' \in [Orders -> Row]
    BY <1>3, <2>1, RowType DEF Advance, OrderStatus
  <2>. QED BY <1>3, <2>2, DoneType DEF Advance, TypeOK
<1>4. ASSUME NEW r \in Requests, SavePayment(r) PROVE TypeOK'
  <2>1. handler[r].doc \in Orders /\ handler[r].amount \in Nat
    BY <1>4, LoadedOnOrder DEF SavePayment
  <2>2. payments' \in [Orders -> Nat]
    BY <1>4, <2>1 DEF SavePayment, TypeOK
  <2>3. handler' \in [Requests -> Loaded \cup {Idle}]
    <3>1. [handler[r] EXCEPT !.op = "credit"] \in Loaded
      BY <1>4, MovesOn DEF SavePayment
    <3>. QED BY <1>4, <3>1 DEF SavePayment, TypeOK
  <2>. QED BY <1>4, <2>2, <2>3 DEF SavePayment, TypeOK
<1>5. ASSUME NEW r \in Requests, CreditOrder(r) PROVE TypeOK'
  <2>0. handler[r].op = "credit"
    BY <1>5 DEF CreditOrder
  <2>1. handler[r].doc \in Orders /\ Credit(handler[r].seen, handler[r].amount) \in Nat
    <3>1. handler[r].doc \in Orders /\ handler[r].seen \in Row /\ handler[r].amount \in Nat
      BY <2>0, LoadedOnOrder
    <3>. QED BY <3>1 DEF Credit, Row
  <2>2. order' \in [Orders -> Row]
    BY <1>5, <2>1, RowType DEF CreditOrder
  <2>3. handler' \in [Requests -> Loaded \cup {Idle}]
    <3>1. [handler[r] EXCEPT !.op = "post"] \in Loaded
      BY <1>5, MovesOn DEF CreditOrder
    <3>. QED BY <1>5, <3>1 DEF CreditOrder, TypeOK
  <2>. QED BY <1>5, <2>2, <2>3 DEF CreditOrder, TypeOK
<1>6. ASSUME NEW r \in Requests, PostPayment(r) PROVE TypeOK'
  <2>1. handler[r].doc \in Orders /\ handler[r].amount \in Nat
    BY <1>6, LoadedOnOrder DEF PostPayment
  <2>2. posted' \in [Orders -> Nat]
    BY <1>6, <2>1 DEF PostPayment, TypeOK
  <2>. QED BY <1>6, <2>2, DoneType DEF PostPayment, TypeOK
<1>7. ASSUME NEW r \in Requests, Edit(r) PROVE TypeOK'
  <2>1. \/ demand' \in [Demands -> DemandStatus] /\ order' = order
        \/ order' \in [Orders -> Row] /\ demand' = demand
    BY <1>7, LoadedEdit DEF Edit, TypeOK
  <2>. QED BY <1>7, <2>1, DoneType DEF Edit, TypeOK
<1>8. ASSUME NEW r \in Requests, Abort(r) PROVE TypeOK'
  BY <1>8, DoneType DEF Abort, TypeOK
<1>9. ASSUME NEW r \in Requests, Serve(r) PROVE TypeOK'
  <2>1. ASSUME NEW entries \in Entries, Receive(r, entries) PROVE TypeOK'
    BY <2>1, ReceiveType
  <2>. QED BY <1>1, <1>2, <1>3, <1>4, <1>5, <1>6, <1>7, <1>8, <1>9, <2>1, LoadType DEF Serve
<1>10. ASSUME NEW o \in Orders, CreateOrder(o) PROVE TypeOK'
  BY <1>10, RowType DEF CreateOrder, TypeOK, OrderStatus
<1>11. CASE UNCHANGED vars
  BY <1>11 DEF vars, TypeOK
<1>12. ASSUME NEW o \in Orders, DeleteOrder(o) PROVE TypeOK'
  <2>1. order' \in [Orders -> Row] /\ payments' \in [Orders -> Nat]
    BY <1>12 DEF DeleteOrder, TypeOK, NoRow, Row, OrderStatus
  <2>2. received' \in Counts
    BY <1>12 DEF DeleteOrder, TypeOK, Counts
  <2>. QED BY <1>12, <2>1, <2>2 DEF DeleteOrder, TypeOK
<1>13. ASSUME NEW d \in Demands, DeleteDemand(d) PROVE TypeOK'
  BY <1>13 DEF DeleteDemand, TypeOK, DemandStatus
<1>. QED BY <1>9, <1>10, <1>11, <1>12, <1>13 DEF Next

LEMMA InitType == Init => TypeOK
BY ZeroType DEF Init, TypeOK, DemandStatus, Row, NoRow, OrderStatus

\* Every request, order, count and snapshot stays within its type.
THEOREM TypeCorrect == Spec => []TypeOK
BY InitType, StepType, PTL DEF Spec

----------------------------------------------------------------------------
(* The three properties below hold however requests overlap.  What they    *)
(* say of the rows is said of the snapshots in flight as well, because a   *)
(* late request writes back what it has read; and what they count only     *)
(* grows, so that a snapshot once right stays right.                       *)

LEMMA OthersWait ==
    ASSUME TypeOK, NEW r \in Requests, Serve(r)
    PROVE  \A x \in Requests \ {r} : handler'[x] = handler[x]
BY DEF Serve, LoadDemand, Begin, LoadOrder, Submit, Approve, Reject, Advance, ConvertToPo,
       Receive, SavePayment, CreditOrder, PostPayment, Edit, Abort, Done, TypeOK

LEMMA ServingDeletesNothing ==
    ASSUME NEW r \in Requests, Serve(r) PROVE deleted' = deleted
BY DEF Serve, LoadDemand, LoadOrder, Submit, Approve, Reject, Advance, ConvertToPo,
       Receive, SavePayment, CreditOrder, PostPayment, Edit, Abort

LEMMA DoneIsIdle ==
    ASSUME TypeOK, NEW r \in Requests, Done(r)
    PROVE  handler'[r] = Idle /\ handler'[r].op \notin OnDemand \cup OnOrder
BY DEF TypeOK, Done, Idle, None, OnDemand, OnOrder

----------------------------------------------------------------------------
(* Approval.                                                               *)

Signed(status, n) == status \in {"approved", "converted"} => n > 0
SignedSnapshot(h, n) == h.op \in OnDemand /\ h.doc \in Demands => Signed(h.seen, n[h.doc])

SignedInv ==
    /\ TypeOK
    /\ OrderedWasApproved
    /\ \A d \in Demands : Signed(demand[d], approvals[d])
    /\ \A r \in Requests : SignedSnapshot(handler[r], approvals)

LEMMA SignedSnapshotsStay ==
    ASSUME SignedInv, TypeOK', NEW r \in Requests,
           \A x \in Requests \ {r} : handler'[x] = handler[x],
           \A d \in Demands : approvals'[d] >= approvals[d],
           SignedSnapshot(handler'[r], approvals')
    PROVE  \A x \in Requests : SignedSnapshot(handler'[x], approvals')
<1> SUFFICES ASSUME NEW x \in Requests, x # r PROVE SignedSnapshot(handler'[x], approvals')
  OBVIOUS
<1>1. handler'[x] = handler[x] /\ SignedSnapshot(handler[x], approvals)
  BY DEF SignedInv
<1>2. \A d \in Demands : approvals[d] \in Nat /\ approvals'[d] \in Nat
  BY DEF SignedInv, TypeOK
<1>. QED BY <1>1, <1>2 DEF SignedSnapshot, Signed

\* A step that leaves the purchase requests alone.
LEMMA SignedAside ==
    ASSUME SignedInv, TypeOK', NEW r \in Requests,
           \A x \in Requests \ {r} : handler'[x] = handler[x],
           UNCHANGED <<demand, approvals, ordersMade>>,
           SignedSnapshot(handler'[r], approvals')
    PROVE  SignedInv'
<1>1. \A d \in Demands : approvals'[d] >= approvals[d]
  BY DEF SignedInv, TypeOK
<1>2. \A x \in Requests : SignedSnapshot(handler'[x], approvals')
  BY <1>1, SignedSnapshotsStay
<1>3. OrderedWasApproved' /\ \A d \in Demands : Signed(demand'[d], approvals'[d])
  BY DEF SignedInv, OrderedWasApproved
<1>. QED BY <1>2, <1>3 DEF SignedInv

\* A step that writes one of them.
LEMMA SignedMoves ==
    ASSUME SignedInv, TypeOK', NEW r \in Requests, Done(r),
           \A x \in Requests \ {r} : handler'[x] = handler[x],
           NEW d \in Demands,
           \A e \in Demands \ {d} : /\ demand'[e] = demand[e] /\ ordersMade'[e] = ordersMade[e]
                                    /\ approvals'[e] = approvals[e],
           approvals'[d] >= approvals[d],
           Signed(demand'[d], approvals'[d]),
           ordersMade'[d] > 0 => approvals'[d] > 0
    PROVE  SignedInv'
<1>1. \A e \in Demands : approvals'[e] >= approvals[e]
  BY DEF SignedInv, TypeOK
<1>2. SignedSnapshot(handler'[r], approvals')
  BY DoneIsIdle DEF SignedSnapshot, SignedInv
<1>3. \A x \in Requests : SignedSnapshot(handler'[x], approvals')
  BY <1>1, <1>2, SignedSnapshotsStay
<1>4. \A e \in Demands : ordersMade'[e] > 0 => approvals'[e] > 0
  BY DEF SignedInv, OrderedWasApproved
<1>5. \A e \in Demands : Signed(demand'[e], approvals'[e])
  BY DEF SignedInv
<1>. QED BY <1>3, <1>4, <1>5 DEF SignedInv, OrderedWasApproved

LEMMA SignedStep ==
    ASSUME SignedInv, TypeOK', NEW r \in Requests, Serve(r)
    PROVE  SignedInv'
<1> DEFINE h == handler[r]
<1> USE DEF workflow
<1>0. \A x \in Requests \ {r} : handler'[x] = handler[x]
  BY OthersWait DEF SignedInv
<1>T. TypeOK /\ demand \in [Demands -> DemandStatus] /\ approvals \in [Demands -> Nat]
      /\ ordersMade \in [Demands -> Nat] /\ handler \in [Requests -> Loaded \cup {Idle}]
  BY DEF SignedInv, TypeOK
<1>1. ASSUME NEW d \in Demands, NEW op \in OnDemand, LoadDemand(r, op, d) PROVE SignedInv'
  <2>1. UNCHANGED <<demand, approvals, ordersMade>>
    BY <1>1 DEF LoadDemand
  <2>2. handler'[r].seen = demand[d] /\ handler'[r].doc = d
    BY <1>1, <1>T DEF LoadDemand, Begin
  <2>3. SignedSnapshot(handler'[r], approvals')
    BY <2>1, <2>2 DEF SignedSnapshot, SignedInv
  <2>. QED BY <1>0, <2>1, <2>3, SignedAside
<1>2. ASSUME NEW o \in Orders, NEW op \in OnOrder, NEW amount \in Amounts \cup {0},
             LoadOrder(r, op, o, amount)
      PROVE  SignedInv'
  <2>1. UNCHANGED <<demand, approvals, ordersMade>>
    BY <1>2 DEF LoadOrder
  <2>2. handler'[r].doc = o
    BY <1>2, <1>T DEF LoadOrder, Begin
  <2>3. SignedSnapshot(handler'[r], approvals')
    BY <2>2, PurchasingConstants DEF SignedSnapshot
  <2>. QED BY <1>0, <2>1, <2>3, SignedAside
<1>3. ASSUME Submit(r) \/ Reject(r) PROVE SignedInv'
  <2>1. h.doc \in Demands
    BY <1>3, <1>T, LoadedDemand DEF Submit, Reject
  <2>2. demand'[h.doc] \in {"submitted", "rejected"} /\ UNCHANGED <<approvals, ordersMade>>
    BY <1>3, <1>T, <2>1 DEF Submit, Reject
  <2>3. \A e \in Demands \ {h.doc} : demand'[e] = demand[e]
    BY <1>3, <1>T, <2>1 DEF Submit, Reject
  <2>4. Signed(demand'[h.doc], approvals'[h.doc])
    BY <2>2 DEF Signed
  <2>5. approvals'[h.doc] >= approvals[h.doc]
    BY <1>T, <2>1, <2>2
  <2>6. Done(r) /\ (ordersMade'[h.doc] > 0 => approvals'[h.doc] > 0)
    BY <1>3, <2>1, <2>2 DEF Submit, Reject, SignedInv, OrderedWasApproved
  <2>. QED BY <1>0, <2>1, <2>2, <2>3, <2>4, <2>5, <2>6, SignedMoves
<1>4. ASSUME Approve(r) PROVE SignedInv'
  <2>1. h.doc \in Demands
    BY <1>4, <1>T, LoadedDemand DEF Approve
  <2>2. approvals'[h.doc] = approvals[h.doc] + 1
        /\ \A e \in Demands \ {h.doc} : approvals'[e] = approvals[e] /\ demand'[e] = demand[e]
    BY <1>4, <1>T, <2>1 DEF Approve
  <2>3. approvals'[h.doc] > 0 /\ approvals'[h.doc] >= approvals[h.doc]
    BY <1>T, <2>1, <2>2
  <2>4. Done(r) /\ ordersMade' = ordersMade
    BY <1>4 DEF Approve
  <2>. QED BY <1>0, <2>1, <2>2, <2>3, <2>4, SignedMoves DEF Signed
<1>5. ASSUME NEW o \in Orders, ConvertToPo(r, o) PROVE SignedInv'
  <2>1. h.doc \in Demands /\ h.op \in OnDemand /\ h.seen = "approved"
    BY <1>5, <1>T, LoadedDemand DEF ConvertToPo, Convertible, OnDemand
  <2>2. approvals[h.doc] > 0
    BY <2>1 DEF SignedInv, SignedSnapshot, Signed
  <2>3. \A e \in Demands \ {h.doc} : demand'[e] = demand[e] /\ ordersMade'[e] = ordersMade[e]
    BY <1>5, <1>T, <2>1 DEF ConvertToPo
  <2>4. approvals' = approvals /\ Done(r)
    BY <1>5 DEF ConvertToPo
  <2>5. approvals'[h.doc] >= approvals[h.doc] /\ approvals'[h.doc] > 0
    BY <1>T, <2>1, <2>2, <2>4
  <2>. QED BY <1>0, <2>1, <2>3, <2>4, <2>5, SignedMoves DEF Signed
<1>6. ASSUME Edit(r) PROVE SignedInv'
  <2>1. Done(r) /\ UNCHANGED <<approvals, ordersMade>> /\ h.op = "edit"
    BY <1>6 DEF Edit
  <2>2. CASE h.doc \in Demands
    <3>1. demand' = [demand EXCEPT ![h.doc] = h.seen]
      BY <1>6, <2>2 DEF Edit
    <3>2. demand'[h.doc] = h.seen /\ \A e \in Demands \ {h.doc} : demand'[e] = demand[e]
      BY <1>T, <2>2, <3>1
    <3>3. Signed(h.seen, approvals[h.doc])
      BY <2>1, <2>2 DEF SignedInv, SignedSnapshot, OnDemand
    <3>4. approvals'[h.doc] >= approvals[h.doc] /\ (ordersMade'[h.doc] > 0 => approvals'[h.doc] > 0)
      BY <1>T, <2>1, <2>2 DEF SignedInv, OrderedWasApproved
    <3>. QED BY <1>0, <2>1, <2>2, <3>2, <3>3, <3>4, SignedMoves
  <2>3. CASE h.doc \notin Demands
    <3>1. UNCHANGED demand
      BY <1>6, <2>3 DEF Edit
    <3>2. SignedSnapshot(handler'[r], approvals')
      BY <1>T, <2>1, DoneIsIdle DEF SignedSnapshot
    <3>. QED BY <1>0, <2>1, <3>1, <3>2, SignedAside
  <2>. QED BY <2>2, <2>3
<1>7. ASSUME SavePayment(r) \/ CreditOrder(r) PROVE SignedInv'
  <2>1. UNCHANGED <<demand, approvals, ordersMade>>
    BY <1>7 DEF SavePayment, CreditOrder
  <2>2. handler'[r].op \notin OnDemand
    BY <1>7, <1>T DEF SavePayment, CreditOrder, OnDemand, Loaded, Idle, None
  <2>. QED BY <1>0, <2>1, <2>2, SignedAside DEF SignedSnapshot
<1>8. ASSUME Done(r), UNCHANGED workflow PROVE SignedInv'
  <2>1. SignedSnapshot(handler'[r], approvals')
    BY <1>T, <1>8, DoneIsIdle DEF SignedSnapshot
  <2>. QED BY <1>0, <1>8, <2>1, SignedAside
<1>9. ASSUME \/ Advance(r) \/ PostPayment(r) \/ Abort(r)
             \/ \E entries \in Entries : Receive(r, entries)
      PROVE  SignedInv'
  BY <1>8, <1>9 DEF Advance, Receive, PostPayment, Abort
<1>. QED BY <1>1, <1>2, <1>3, <1>4, <1>5, <1>6, <1>7, <1>9 DEF Serve

\* However requests overlap and whatever is edited, no order is made from a purchase
\* request that nobody has approved (PurchaseRequestViewSet.convert_to_po).
THEOREM OrdersAreApproved == Spec => []OrderedWasApproved
<1>1. Init => SignedInv
  <2>1. Init => /\ OrderedWasApproved
                /\ \A d \in Demands : Signed(demand[d], approvals[d])
                /\ \A r \in Requests : SignedSnapshot(handler[r], approvals)
    BY DEF Init, OrderedWasApproved, Signed, SignedSnapshot, Idle, None, OnDemand
  <2>. QED BY <2>1, InitType DEF SignedInv
<1>2. SignedInv /\ [Next]_vars => SignedInv'
  <2> SUFFICES ASSUME SignedInv, [Next]_vars PROVE SignedInv'
    OBVIOUS
  <2>1. TypeOK'
    BY StepType DEF SignedInv
  <2>2. ASSUME \/ UNCHANGED vars
               \/ \E o \in Orders : CreateOrder(o) \/ DeleteOrder(o)
        PROVE  SignedInv'
    BY <2>1, <2>2 DEF vars, CreateOrder, DeleteOrder, workflow, SignedInv, OrderedWasApproved
  <2>3. ASSUME NEW d \in Demands, DeleteDemand(d) PROVE SignedInv'
    <3>1. /\ UNCHANGED <<approvals, ordersMade, handler>>
          /\ \A e \in Demands : demand'[e] = demand[e] \/ demand'[e] = None
      BY <2>3 DEF DeleteDemand, SignedInv, TypeOK
    <3>2. \A e \in Demands : Signed(demand'[e], approvals'[e])
      BY <3>1 DEF SignedInv, Signed, None
    <3>. QED BY <2>1, <3>1, <3>2 DEF SignedInv, OrderedWasApproved
  <2>. QED BY <2>1, <2>2, <2>3, SignedStep DEF Next
<1>3. SignedInv => OrderedWasApproved
  BY DEF SignedInv
<1>. QED BY <1>1, <1>2, <1>3, PTL DEF Spec

----------------------------------------------------------------------------
(* Goods.                                                                  *)

Within(counts, n) == \A i \in Items : counts[i] <= n[i]
Whole(o, n) == \A i \in Items : Owner[i] = o => n[i] >= Quantity[i]
GoodsSnapshot(h, n, gone) ==
    h.op \in OnOrder /\ h.doc \in Orders =>
        /\ Within(h.counts, n)
        /\ h.doc \notin gone /\ h.seen.status = "received" => Whole(h.doc, n)

ReceivedWhole(rows, n, gone) ==
    \A o \in Orders \ gone : rows[o].status = "received" => Whole(o, n)

GoodsInv ==
    /\ TypeOK
    /\ Within(received, stocked)
    /\ ReceivedWhole(order, stocked, deleted)
    /\ \A r \in Requests : GoodsSnapshot(handler[r], stocked, deleted)

\* What is in stock covers more and more.
LEMMA GoodsStay ==
    ASSUME NEW n \in Counts, NEW m \in Counts, Within(n, m)
    PROVE  /\ \A counts \in Counts : Within(counts, n) => Within(counts, m)
           /\ \A o : Whole(o, n) => Whole(o, m)
BY PurchasingConstants DEF Within, Whole, Counts

LEMMA GoodsMove ==
    ASSUME GoodsInv, TypeOK', NEW r \in Requests,
           \A x \in Requests \ {r} : handler'[x] = handler[x],
           deleted' = deleted, Within(stocked, stocked'), Within(received', stocked'),
           ReceivedWhole(order', stocked', deleted),
           GoodsSnapshot(handler'[r], stocked', deleted)
    PROVE  GoodsInv'
<1>1. stocked \in Counts /\ stocked' \in Counts
  BY DEF GoodsInv, TypeOK
<1>3. ASSUME NEW x \in Requests, x # r PROVE GoodsSnapshot(handler'[x], stocked', deleted)
  <2>1. handler'[x] = handler[x] /\ GoodsSnapshot(handler[x], stocked, deleted)
    BY <1>3 DEF GoodsInv
  <2>2. SUFFICES ASSUME handler[x].op \in OnOrder, handler[x].doc \in Orders
                 PROVE  /\ Within(handler[x].counts, stocked')
                        /\ handler[x].doc \notin deleted /\ handler[x].seen.status = "received"
                              => Whole(handler[x].doc, stocked')
    BY <2>1 DEF GoodsSnapshot
  <2>3. handler[x].counts \in Counts
    BY <2>2, PurchasingConstants DEF GoodsInv, TypeOK, Loaded, Idle, None, OnOrder
  <2>. QED BY <1>1, <2>1, <2>2, <2>3, GoodsStay DEF GoodsSnapshot
<1>4. \A x \in Requests : GoodsSnapshot(handler'[x], stocked', deleted)
  BY <1>3
<1>. QED BY <1>4 DEF GoodsInv

LEMMA NothingLeaves == ASSUME TypeOK PROVE Within(stocked, stocked)
BY DEF TypeOK, Counts, Within

LEMMA IdleHoldsNoGoods == ASSUME NEW n, NEW gone PROVE GoodsSnapshot(Idle, n, gone)
BY DEF GoodsSnapshot, Idle, None, OnOrder

\* A step that leaves goods alone, ends its request and receives no order.
LEMMA GoodsAside ==
    ASSUME GoodsInv, TypeOK', NEW r \in Requests, Done(r),
           stocked' = stocked, received' = received, deleted' = deleted,
           ReceivedWhole(order', stocked, deleted)
    PROVE  GoodsInv'
<1>0. \A x \in Requests \ {r} : handler'[x] = handler[x]
  BY DEF Done, GoodsInv, TypeOK
<1>1. TypeOK /\ handler'[r] = Idle
  BY DoneIsIdle DEF GoodsInv
<1>2. Within(stocked, stocked') /\ Within(received', stocked')
  BY <1>1, NothingLeaves DEF GoodsInv
<1>3. GoodsSnapshot(handler'[r], stocked', deleted)
  BY <1>1, IdleHoldsNoGoods
<1>4. ReceivedWhole(order', stocked', deleted)
  OBVIOUS
<1>. QED BY <1>0, <1>2, <1>3, <1>4, GoodsMove

LEMMA ReceiveKeepsGoods ==
    ASSUME GoodsInv, TypeOK', NEW r \in Requests, NEW entries \in Entries, Receive(r, entries)
    PROVE  GoodsInv'
<1> DEFINE h == handler[r]
           touched == {i \in Items : EntriesOf(entries, i) # {}}
<1>0. TypeOK /\ stocked \in Counts /\ received \in Counts /\ order \in [Orders -> Row]
  BY DEF GoodsInv, TypeOK
<1>1. h.op = "receive" /\ h.doc \in Orders /\ h.counts \in Counts
  BY <1>0, LoadedOnOrder DEF Receive
<1>2. Within(h.counts, stocked)
  BY <1>1 DEF GoodsInv, GoodsSnapshot, OnOrder
<1>3. /\ stocked' = [i \in Items |-> IF i \in touched THEN stocked[i] + Arriving(entries, i)
                                                       ELSE stocked[i]]
      /\ received' = [i \in Items |-> IF i \in touched THEN Counted(h.counts, entries, i)
                                                        ELSE received[i]]
      /\ order' = [order EXCEPT ![h.doc].status =
                      IF FullyReceived(received', h.doc) THEN "received" ELSE "partially_received"]
      /\ Done(r) /\ deleted' = deleted
  BY DEF Receive
<1>4. \A i \in Items : /\ stocked[i] \in Nat /\ Arriving(entries, i) \in Nat
                       /\ h.counts[i] \in Nat /\ h.counts[i] <= stocked[i]
                       /\ received[i] \in Nat /\ received[i] <= stocked[i]
  BY <1>0, <1>1, <1>2, ArrivingType DEF Counts, GoodsInv, Within
<1>5. \A i \in touched : /\ Counted(h.counts, entries, i) \in Nat
                         /\ Counted(h.counts, entries, i) <= h.counts[i] + Arriving(entries, i)
  BY <1>4, CountedType
<1> HIDE DEF touched
<1>6. Within(stocked, stocked')
  BY <1>3, <1>4 DEF Within
<1>7. Within(received', stocked')
  <2> SUFFICES ASSUME NEW i \in Items PROVE received'[i] <= stocked'[i]
    BY DEF Within
  <2>1. CASE i \in touched
    <3>1. received'[i] = Counted(h.counts, entries, i) /\ stocked'[i] = stocked[i] + Arriving(entries, i)
      BY <1>3, <2>1
    <3> DEFINE c == Counted(h.counts, entries, i)
               a == Arriving(entries, i)
    <3>2. c \in Nat /\ a \in Nat /\ c <= h.counts[i] + a
      BY <1>4, <1>5, <2>1
    <3> HIDE DEF c, a
    <3>3. c <= stocked[i] + a
      BY <1>4, <3>2
    <3>. QED BY <3>1, <3>3 DEF c, a
  <2>2. CASE i \notin touched
    BY <1>3, <1>4, <2>2
  <2>. QED BY <2>1, <2>2
<1>8. h.doc \notin deleted /\ order'[h.doc].status = "received" => Whole(h.doc, stocked')
  <2>1. order'[h.doc].status = "received" => FullyReceived(received', h.doc)
    BY <1>0, <1>1, <1>3 DEF Row
  <2>2. \A i \in Items : received'[i] \in Nat /\ stocked'[i] \in Nat /\ Quantity[i] \in Nat
    BY PurchasingConstants DEF TypeOK, Counts
  <2>. QED BY <1>7, <2>1, <2>2 DEF FullyReceived, Lines, Within, Whole
<1>9. \A o \in Orders : o # h.doc => order'[o].status = order[o].status
  BY <1>0, <1>1, <1>3
<1>12. ReceivedWhole(order', stocked', deleted)
  <2>1. ReceivedWhole(order, stocked, deleted)
    BY DEF GoodsInv
  <2>2. stocked' \in Counts
    BY DEF TypeOK
  <2>3. \A o \in Orders : Whole(o, stocked) => Whole(o, stocked')
    BY <1>0, <1>6, <2>2, GoodsStay
  <2>. QED BY <1>8, <1>9, <2>1, <2>3 DEF ReceivedWhole
<1>10. GoodsSnapshot(handler'[r], stocked', deleted)
  BY <1>0, <1>3, DoneIsIdle, IdleHoldsNoGoods
<1>11. \A x \in Requests \ {r} : handler'[x] = handler[x]
  BY <1>0, <1>3 DEF Done, TypeOK
<1>. QED BY <1>3, <1>6, <1>7, <1>12, <1>10, <1>11, GoodsMove

LEMMA GoodsStep ==
    ASSUME GoodsInv, TypeOK', NEW r \in Requests, Serve(r)
    PROVE  GoodsInv'
<1> DEFINE h == handler[r]
<1>0. \A x \in Requests \ {r} : handler'[x] = handler[x]
  BY OthersWait DEF GoodsInv
<1>T. TypeOK /\ order \in [Orders -> Row] /\ stocked \in Counts /\ received \in Counts
      /\ handler \in [Requests -> Loaded \cup {Idle}]
  BY DEF GoodsInv, TypeOK
<1>K. deleted' = deleted
  BY ServingDeletesNothing
<1>R. ReceivedWhole(order, stocked, deleted)
  BY DEF GoodsInv
<1>1. ASSUME UNCHANGED <<order, goods>>, GoodsSnapshot(handler'[r], stocked, deleted) PROVE GoodsInv'
  <2>1. stocked' = stocked /\ received' = received /\ order' = order
    BY <1>1 DEF goods
  <2>2. Within(stocked, stocked') /\ Within(received', stocked')
    BY <1>T, <2>1, NothingLeaves DEF GoodsInv
  <2>3. GoodsSnapshot(handler'[r], stocked', deleted)
    BY <1>1, <2>1
  <2>4. ReceivedWhole(order', stocked', deleted)
    BY <1>R, <2>1
  <2>. QED BY <1>0, <2>2, <2>3, <2>4, <1>K, GoodsMove
<1>2. ASSUME NEW d \in Demands, NEW op \in OnDemand, LoadDemand(r, op, d) PROVE GoodsInv'
  <2>1. handler'[r].doc = d
    BY <1>2, <1>T DEF LoadDemand, Begin
  <2>2. GoodsSnapshot(handler'[r], stocked, deleted)
    BY <2>1, PurchasingConstants DEF GoodsSnapshot
  <2>. QED BY <1>1, <1>2, <2>2 DEF LoadDemand
<1>3. ASSUME NEW o \in Orders, NEW op \in OnOrder, NEW amount \in Amounts \cup {0},
             LoadOrder(r, op, o, amount)
      PROVE  GoodsInv'
  <2>1. /\ handler'[r].doc = o /\ handler'[r].seen = order[o]
        /\ handler'[r].counts = IF op = "receive" THEN received ELSE Zero
    BY <1>3, <1>T DEF LoadOrder, Begin
  <2>2. Within(handler'[r].counts, stocked)
    BY <1>T, <2>1 DEF GoodsInv, Within, Zero, Counts
  <2>3. GoodsSnapshot(handler'[r], stocked, deleted)
    BY <1>R, <2>1, <2>2 DEF GoodsSnapshot, ReceivedWhole
  <2>. QED BY <1>1, <1>3, <2>3 DEF LoadOrder
<1>4. ASSUME Submit(r) \/ Approve(r) \/ Reject(r) \/ PostPayment(r) \/ Abort(r) PROVE GoodsInv'
  <2>1. Done(r) /\ order' = order /\ stocked' = stocked /\ received' = received
    BY <1>4 DEF Submit, Approve, Reject, PostPayment, Abort, goods
  <2>2. ReceivedWhole(order', stocked, deleted)
    BY <1>R, <2>1
  <2>. QED BY <2>1, <2>2, <1>K, GoodsAside
<1>5. ASSUME NEW o \in Orders, ConvertToPo(r, o) PROVE GoodsInv'
  <2>1. /\ Done(r) /\ stocked' = stocked /\ received' = received
        /\ order' = [order EXCEPT ![o].status = "draft"]
    BY <1>5 DEF ConvertToPo, goods
  <2>2. \A p \in Orders : order'[p].status = order[p].status \/ order'[p].status = "draft"
    BY <1>T, <2>1 DEF Row
  <2>3. ReceivedWhole(order', stocked, deleted)
    BY <1>R, <2>2 DEF ReceivedWhole
  <2>. QED BY <2>1, <2>3, <1>K, GoodsAside
<1>6. ASSUME Advance(r) PROVE GoodsInv'
  <2>1. /\ Done(r) /\ stocked' = stocked /\ received' = received
        /\ \E s \in {"sent", "approved"} : order' = [order EXCEPT ![h.doc].status = s]
    BY <1>6 DEF Advance, goods
  <2>2. \A p \in Orders : \/ order'[p].status = order[p].status
                          \/ order'[p].status \in {"sent", "approved"}
    BY <1>T, <2>1 DEF Row
  <2>3. ReceivedWhole(order', stocked, deleted)
    BY <1>R, <2>2 DEF ReceivedWhole
  <2>. QED BY <2>1, <2>3, <1>K, GoodsAside
<1>7. ASSUME SavePayment(r) PROVE GoodsInv'
  <2>1. /\ h.op = "pay" /\ UNCHANGED <<order, goods>>
        /\ handler' = [handler EXCEPT ![r].op = "credit"]
    BY <1>7 DEF SavePayment
  <2>2. handler'[r].doc = h.doc /\ handler'[r].seen = h.seen /\ handler'[r].counts = h.counts
    BY <1>T, <2>1, LoadedOnOrder
  <2>3. GoodsSnapshot(handler'[r], stocked, deleted)
    BY <2>1, <2>2 DEF GoodsSnapshot, GoodsInv, OnOrder
  <2>. QED BY <1>1, <2>1, <2>3
<1>8. ASSUME CreditOrder(r) PROVE GoodsInv'
  <2>1. /\ h.op = "credit" /\ UNCHANGED goods
        /\ order' = [order EXCEPT ![h.doc].paid = Credit(h.seen, h.amount)]
        /\ handler' = [handler EXCEPT ![r].op = "post"]
    BY <1>8 DEF CreditOrder
  <2>2. handler'[r].doc = h.doc /\ handler'[r].seen = h.seen /\ handler'[r].counts = h.counts
    BY <1>T, <2>1, LoadedOnOrder
  <2>3. GoodsSnapshot(handler'[r], stocked, deleted)
    BY <2>1, <2>2 DEF GoodsSnapshot, GoodsInv, OnOrder
  <2>4. \A p \in Orders : order'[p].status = order[p].status
    BY <1>T, <2>1 DEF Row
  <2>5. stocked' = stocked /\ Within(stocked, stocked') /\ Within(received', stocked')
    BY <1>T, <2>1, NothingLeaves DEF GoodsInv, goods
  <2>6. ReceivedWhole(order', stocked', deleted) /\ GoodsSnapshot(handler'[r], stocked', deleted)
    BY <1>R, <2>3, <2>4, <2>5 DEF ReceivedWhole
  <2>. QED BY <1>0, <2>5, <2>6, <1>K, GoodsMove
<1>9. ASSUME Edit(r) PROVE GoodsInv'
  <2>1. Done(r) /\ stocked' = stocked /\ received' = received /\ h.op = "edit"
    BY <1>9 DEF Edit, goods
  <2>2. CASE h.doc \in Demands
    <3>1. order' = order
      BY <1>9, <2>2 DEF Edit
    <3>2. ReceivedWhole(order', stocked, deleted)
      BY <1>R, <3>1
    <3>. QED BY <2>1, <3>2, <1>K, GoodsAside
  <2>3. CASE h.doc \notin Demands
    <3>1. h.doc \in Orders /\ order' = [order EXCEPT ![h.doc] = h.seen]
      BY <1>T, <1>9, <2>1, <2>3, LoadedEdit DEF Edit
    <3>2. h.doc \notin deleted /\ h.seen.status = "received" => Whole(h.doc, stocked)
      BY <2>1, <3>1 DEF GoodsInv, GoodsSnapshot, OnOrder
    <3>3. ReceivedWhole(order', stocked, deleted)
      BY <1>T, <1>R, <3>1, <3>2 DEF ReceivedWhole
    <3>. QED BY <2>1, <3>3, <1>K, GoodsAside
  <2>. QED BY <2>2, <2>3
<1>. QED BY <1>2, <1>3, <1>4, <1>5, <1>6, <1>7, <1>8, <1>9, ReceiveKeepsGoods DEF Serve

\* However requests overlap, whatever is listed twice, edited or lost, and whichever
\* other orders are deleted: an order shown as received has had as much taken into stock
\* under each of its items as it orders, and no item counts more than that
\* (GoodsReceiptSerializer.create).  Whether it is the product ordered is up to the
\* receipts: ReceivedIsStocked counts what they call another product, and CalmAddsUp
\* does not.
THEOREM GoodsAreStocked == Spec => []ReceivedIsStocked
<1>1. Init => GoodsInv
  <2>1. Init => /\ Within(received, stocked)
                /\ ReceivedWhole(order, stocked, deleted)
                /\ \A r \in Requests : GoodsSnapshot(handler[r], stocked, deleted)
    BY IdleHoldsNoGoods DEF Init, Within, ReceivedWhole, Zero, NoRow, None
  <2>. QED BY <2>1, InitType DEF GoodsInv
<1>2. GoodsInv /\ [Next]_vars => GoodsInv'
  <2> SUFFICES ASSUME GoodsInv, [Next]_vars PROVE GoodsInv'
    OBVIOUS
  <2>1. TypeOK'
    BY StepType DEF GoodsInv
  <2>2. CASE UNCHANGED vars
    BY <2>1, <2>2 DEF vars, GoodsInv
  <2>3. ASSUME NEW o \in Orders, CreateOrder(o) PROVE GoodsInv'
    <3>1. \A p \in Orders : order'[p].status = order[p].status \/ order'[p].status = "draft"
      BY <2>3 DEF CreateOrder, GoodsInv, TypeOK, Row
    <3>2. ReceivedWhole(order', stocked, deleted)
      BY <3>1 DEF GoodsInv, ReceivedWhole
    <3>. QED BY <2>1, <2>3, <3>2 DEF CreateOrder, goods, GoodsInv
  <2>4. ASSUME NEW o \in Orders, DeleteOrder(o) PROVE GoodsInv'
    <3>1. /\ stocked' = stocked /\ handler' = handler /\ deleted' = deleted \cup {o}
          /\ \A p \in Orders \ {o} : order'[p] = order[p]
          /\ \A i \in Items : received'[i] = received[i] \/ received'[i] = 0
      BY <2>4 DEF DeleteOrder, GoodsInv, TypeOK, Counts
    <3>2. Within(received', stocked')
      BY <3>1 DEF GoodsInv, Within, TypeOK, Counts
    <3>3. ReceivedWhole(order', stocked', deleted')
      BY <3>1 DEF GoodsInv, ReceivedWhole
    <3>4. \A r \in Requests : GoodsSnapshot(handler'[r], stocked', deleted')
      BY <3>1 DEF GoodsInv, GoodsSnapshot
    <3>. QED BY <2>1, <3>2, <3>3, <3>4 DEF GoodsInv
  <2>5. ASSUME NEW d \in Demands, DeleteDemand(d) PROVE GoodsInv'
    <3>1. UNCHANGED <<order, goods, handler>> /\ deleted \subseteq deleted'
      BY <2>5 DEF DeleteDemand
    <3>2. Within(received', stocked') /\ ReceivedWhole(order', stocked', deleted')
      BY <3>1 DEF GoodsInv, ReceivedWhole, goods
    <3>3. \A r \in Requests : GoodsSnapshot(handler'[r], stocked', deleted')
      BY <3>1 DEF GoodsInv, GoodsSnapshot, goods
    <3>. QED BY <2>1, <3>2, <3>3 DEF GoodsInv
  <2>. QED BY <2>1, <2>2, <2>3, <2>4, <2>5, GoodsStep DEF Next
<1>3. GoodsInv => ReceivedIsStocked
  BY DEF GoodsInv, ReceivedWhole, ReceivedIsStocked, Within, Whole, AllStocked, Lines
<1>. QED BY <1>1, <1>2, <1>3, PTL DEF Spec

----------------------------------------------------------------------------
(* Money.  A payment saves its row before it credits the order and posts:  *)
(* what a request has yet to post is covered by payment rows, next to what *)
(* is already posted.                                                      *)

Due(h, o) == IF h.op \in {"credit", "post"} /\ h.doc = o THEN h.amount ELSE 0
DueOf(h, o) == [r \in Requests |-> Due(h[r], o)]
DueFor(h, o) == SumFunctionOnSet(DueOf(h, o), Requests)

ToCredit(h) == h.seen.paid + (IF h.op = "credit" THEN h.amount ELSE 0)
PaidSnapshot(h, n, gone) ==
    h.op \in OnOrder /\ h.doc \in Orders \ gone => ToCredit(h) <= n[h.doc]

PaidInv ==
    /\ TypeOK
    /\ \A o \in Orders \ deleted : order[o].paid <= payments[o]
    /\ \A o \in Orders \ deleted : posted[o] + DueFor(handler, o) <= payments[o]
    /\ \A r \in Requests : PaidSnapshot(handler[r], payments, deleted)

LEMMA DueType ==
    ASSUME NEW h \in Loaded \cup {Idle}, NEW o PROVE Due(h, o) \in Nat
<1>1. CASE h \in Loaded
  BY <1>1 DEF Loaded, Due
<1>2. CASE h = Idle
  BY <1>2 DEF Idle, None, Due
<1>. QED BY <1>1, <1>2

LEMMA DueForType ==
    ASSUME NEW h \in [Requests -> Loaded \cup {Idle}], NEW o PROVE DueFor(h, o) \in Nat
<1>1. \A x \in Requests : DueOf(h, o)[x] \in Nat
  BY DueType DEF DueOf
<1>. QED BY <1>1, SumNat, PurchasingConstants DEF DueFor

LEMMA IdleOwesNothing ==
    ASSUME NEW n, NEW gone, NEW o PROVE PaidSnapshot(Idle, n, gone) /\ Due(Idle, o) = 0
BY DEF PaidSnapshot, Due, Idle, None, OnOrder

\* When one request moves, the sum moves by what it owes.
LEMMA DueMoves ==
    ASSUME TypeOK, TypeOK', NEW r \in Requests, NEW o \in Orders,
           \A x \in Requests \ {r} : handler'[x] = handler[x]
    PROVE  DueFor(handler', o) = DueFor(handler, o) + Due(handler'[r], o) - Due(handler[r], o)
<1> DEFINE f == DueOf(handler, o)
           g == DueOf(handler', o)
<1>1. \A x \in Requests : f[x] = Due(handler[x], o) /\ g[x] = Due(handler'[x], o)
  BY DEF DueOf
<1>2. \A x \in Requests : f[x] \in Nat /\ g[x] \in Nat
  <2>1. \A x \in Requests : /\ handler[x] \in Loaded \cup {Idle}
                            /\ handler'[x] \in Loaded \cup {Idle}
    BY DEF TypeOK
  <2>2. \A x \in Requests : Due(handler[x], o) \in Nat /\ Due(handler'[x], o) \in Nat
    BY <2>1, DueType
  <2>. QED BY <1>1, <2>2
<1>3. \A x \in Requests \ {r} : g[x] = f[x]
  BY <1>1
<1>4. IsFiniteSet(Requests)
  BY PurchasingConstants
<1> HIDE DEF f, g
<1>5. \A x \in Requests : f[x] \in Int /\ g[x] \in Int
  BY <1>2
<1>6. SumFunctionOnSet(g, Requests) = SumFunctionOnSet(f, Requests) + g[r] - f[r]
  BY <1>3, <1>4, <1>5, SumChange
<1>. QED BY <1>1, <1>6 DEF DueFor, f, g

LEMMA PaidMove ==
    ASSUME PaidInv, TypeOK', NEW r \in Requests,
           \A x \in Requests \ {r} : handler'[x] = handler[x],
           deleted' = deleted, \A o \in Orders : payments'[o] >= payments[o],
           \A o \in Orders \ deleted : order'[o].paid <= payments'[o],
           \A o \in Orders : posted'[o] + Due(handler'[r], o) - payments'[o]
                                <= posted[o] + Due(handler[r], o) - payments[o],
           PaidSnapshot(handler'[r], payments', deleted)
    PROVE  PaidInv'
<1>1. TypeOK /\ handler \in [Requests -> Loaded \cup {Idle}]
      /\ handler' \in [Requests -> Loaded \cup {Idle}]
      /\ \A o \in Orders : /\ payments[o] \in Nat /\ payments'[o] \in Nat
                           /\ posted[o] \in Nat /\ posted'[o] \in Nat
  BY DEF PaidInv, TypeOK
<1>2. ASSUME NEW o \in Orders \ deleted PROVE posted'[o] + DueFor(handler', o) <= payments'[o]
  <2>1. DueFor(handler', o) = DueFor(handler, o) + Due(handler'[r], o) - Due(handler[r], o)
    BY <1>1, DueMoves
  <2>2. DueFor(handler, o) \in Nat /\ Due(handler'[r], o) \in Nat /\ Due(handler[r], o) \in Nat
    BY <1>1, DueForType, DueType
  <2>3. posted[o] + DueFor(handler, o) <= payments[o]
    BY DEF PaidInv
  <2>. QED BY <1>1, <2>1, <2>2, <2>3
<1>3. ASSUME NEW x \in Requests, x # r PROVE PaidSnapshot(handler'[x], payments', deleted)
  <2>1. handler'[x] = handler[x] /\ PaidSnapshot(handler[x], payments, deleted)
    BY <1>3 DEF PaidInv
  <2>2. SUFFICES ASSUME handler[x].op \in OnOrder, handler[x].doc \in Orders \ deleted
                 PROVE  ToCredit(handler[x]) <= payments'[handler[x].doc]
    BY <2>1 DEF PaidSnapshot
  <2>3. handler[x].seen \in Row /\ handler[x].amount \in Nat
    BY <1>1, <2>2, PurchasingConstants DEF Loaded, Idle, None, OnOrder
  <2>4. ToCredit(handler[x]) \in Nat
    BY <2>3 DEF ToCredit, Row
  <2>5. ToCredit(handler[x]) <= payments[handler[x].doc]
    BY <2>1, <2>2 DEF PaidSnapshot
  <2>. QED BY <1>1, <2>2, <2>4, <2>5
<1>4. \A x \in Requests : PaidSnapshot(handler'[x], payments', deleted)
  BY <1>3
<1>. QED BY <1>2, <1>4 DEF PaidInv

\* A step that saves and posts no payment and owes no more than before.
LEMMA PaidAside ==
    ASSUME PaidInv, TypeOK', NEW r \in Requests,
           \A x \in Requests \ {r} : handler'[x] = handler[x],
           payments' = payments, posted' = posted, deleted' = deleted,
           \A o \in Orders \ deleted : order'[o].paid <= payments[o],
           \A o \in Orders : Due(handler'[r], o) <= Due(handler[r], o),
           PaidSnapshot(handler'[r], payments, deleted)
    PROVE  PaidInv'
<1>1. /\ \A o \in Orders : payments[o] \in Nat /\ posted[o] \in Nat
      /\ \A o \in Orders : Due(handler'[r], o) \in Nat /\ Due(handler[r], o) \in Nat
  BY DueType DEF PaidInv, TypeOK
<1>2. /\ \A o \in Orders : payments'[o] >= payments[o]
      /\ \A o \in Orders \ deleted : order'[o].paid <= payments'[o]
  BY <1>1
<1>3. \A o \in Orders : posted'[o] + Due(handler'[r], o) - payments'[o]
                           <= posted[o] + Due(handler[r], o) - payments[o]
  BY <1>1
<1>4. PaidSnapshot(handler'[r], payments', deleted)
  OBVIOUS
<1>. QED BY <1>2, <1>3, <1>4, PaidMove

\* In particular one that ends its request.
LEMMA PaidDone ==
    ASSUME PaidInv, TypeOK', NEW r \in Requests, Done(r), payments' = payments, posted' = posted,
           deleted' = deleted, \A o \in Orders \ deleted : order'[o].paid <= payments[o]
    PROVE  PaidInv'
<1>1. handler'[r] = Idle /\ \A x \in Requests \ {r} : handler'[x] = handler[x]
  BY DEF Done, PaidInv, TypeOK
<1>2. \A o \in Orders : Due(handler[r], o) \in Nat
  BY DueType DEF PaidInv, TypeOK
<1>3. \A o \in Orders : Due(handler'[r], o) <= Due(handler[r], o)
  BY <1>1, <1>2, IdleOwesNothing
<1>4. PaidSnapshot(handler'[r], payments, deleted)
  BY <1>1, IdleOwesNothing
<1>. QED BY <1>1, <1>3, <1>4, PaidAside

LEMMA PaidStep ==
    ASSUME PaidInv, TypeOK', NEW r \in Requests, Serve(r)
    PROVE  PaidInv'
<1> DEFINE h == handler[r]
<1>0. \A x \in Requests \ {r} : handler'[x] = handler[x]
  BY OthersWait DEF PaidInv
<1>T. TypeOK /\ order \in [Orders -> Row] /\ handler \in [Requests -> Loaded \cup {Idle}]
      /\ payments \in [Orders -> Nat] /\ posted \in [Orders -> Nat]
  BY DEF PaidInv, TypeOK
<1>K. deleted' = deleted
  BY ServingDeletesNothing
<1>P. /\ \A o \in Orders : order[o].paid \in Nat
      /\ \A o \in Orders \ deleted : order[o].paid <= payments[o]
  BY <1>T DEF PaidInv, Row
<1>D. \A o \in Orders : Due(h, o) \in Nat
  BY <1>T, DueType
<1>1. ASSUME NEW d \in Demands, NEW op \in OnDemand, LoadDemand(r, op, d) PROVE PaidInv'
  <2>1. /\ handler'[r].doc = d /\ handler'[r].op = op
        /\ order' = order /\ payments' = payments /\ posted' = posted
    BY <1>1, <1>T DEF LoadDemand, Begin, money
  <2>2. PaidSnapshot(handler'[r], payments, deleted)
    BY <2>1, PurchasingConstants DEF PaidSnapshot
  <2>3. \A o \in Orders : Due(handler'[r], o) = 0
    BY <2>1 DEF Due, OnDemand
  <2>4. \A o \in Orders : Due(handler'[r], o) <= Due(handler[r], o)
    BY <1>D, <2>3
  <2>. QED BY <1>0, <1>P, <2>1, <2>2, <2>4, <1>K, PaidAside
<1>2. ASSUME NEW o \in Orders, NEW op \in OnOrder, NEW amount \in Amounts \cup {0},
             LoadOrder(r, op, o, amount)
      PROVE  PaidInv'
  <2>1. /\ handler'[r].doc = o /\ handler'[r].op = op /\ handler'[r].seen = order[o]
        /\ op \notin {"credit", "post"}
        /\ order' = order /\ payments' = payments /\ posted' = posted
    BY <1>2, <1>T, PurchasingConstants DEF LoadOrder, Begin, money
  <2>2. ToCredit(handler'[r]) = order[o].paid
    BY <1>P, <2>1 DEF ToCredit
  <2>3. PaidSnapshot(handler'[r], payments, deleted)
    BY <1>P, <2>1, <2>2 DEF PaidSnapshot
  <2>4. \A p \in Orders : Due(handler'[r], p) = 0
    BY <2>1 DEF Due
  <2>5. \A p \in Orders : Due(handler'[r], p) <= Due(handler[r], p)
    BY <1>D, <2>4
  <2>. QED BY <1>0, <1>P, <2>1, <2>3, <2>5, <1>K, PaidAside
<1>3. ASSUME Submit(r) \/ Approve(r) \/ Reject(r) \/ Abort(r) PROVE PaidInv'
  <2>1. Done(r) /\ order' = order /\ payments' = payments /\ posted' = posted
    BY <1>3 DEF Submit, Approve, Reject, Abort, money
  <2>. QED BY <1>P, <2>1, <1>K, PaidDone
<1>4. ASSUME NEW o \in Orders, ConvertToPo(r, o) PROVE PaidInv'
  <2>1. /\ Done(r) /\ payments' = payments /\ posted' = posted
        /\ order' = [order EXCEPT ![o].status = "draft"]
    BY <1>4 DEF ConvertToPo, money
  <2>2. \A p \in Orders : order'[p].paid = order[p].paid
    BY <1>T, <2>1 DEF Row
  <2>. QED BY <1>P, <2>1, <2>2, <1>K, PaidDone
<1>5. ASSUME \/ Advance(r)
             \/ \E entries \in Entries : Receive(r, entries)
      PROVE  PaidInv'
  <2>1. /\ Done(r) /\ payments' = payments /\ posted' = posted
        /\ \E s \in OrderStatus : order' = [order EXCEPT ![h.doc].status = s]
    BY <1>5 DEF Advance, Receive, money, OrderStatus
  <2>2. \A p \in Orders : order'[p].paid = order[p].paid
    BY <1>T, <2>1 DEF Row
  <2>. QED BY <1>P, <2>1, <2>2, <1>K, PaidDone
<1>6. ASSUME SavePayment(r) PROVE PaidInv'
  <2>1. /\ h.op = "pay" /\ order' = order /\ posted' = posted
        /\ payments' = [payments EXCEPT ![h.doc] = @ + h.amount]
        /\ handler' = [handler EXCEPT ![r].op = "credit"]
    BY <1>6 DEF SavePayment
  <2>2. h.doc \in Orders /\ h.seen \in Row /\ h.amount \in Nat
    BY <1>T, <2>1, LoadedOnOrder
  <2>3. /\ handler'[r].doc = h.doc /\ handler'[r].seen = h.seen
        /\ handler'[r].amount = h.amount /\ handler'[r].op = "credit"
    BY <1>T, <2>1, LoadedOnOrder
  <2>4. /\ payments'[h.doc] = payments[h.doc] + h.amount
        /\ \A o \in Orders \ {h.doc} : payments'[o] = payments[o]
    BY <1>T, <2>1, <2>2
  <2>5. /\ Due(handler'[r], h.doc) = h.amount
        /\ \A o \in Orders \ {h.doc} : Due(handler'[r], o) = 0
        /\ \A o \in Orders : Due(h, o) = 0
    BY <2>1, <2>3 DEF Due
  <2>6. /\ \A o \in Orders : payments'[o] >= payments[o]
        /\ \A o \in Orders \ deleted : order'[o].paid <= payments'[o]
    BY <1>T, <1>P, <2>1, <2>2, <2>4
  <2>7. \A o \in Orders : posted'[o] + Due(handler'[r], o) - payments'[o]
                             <= posted[o] + Due(handler[r], o) - payments[o]
    BY <1>T, <2>1, <2>2, <2>4, <2>5
  <2>8. PaidSnapshot(handler'[r], payments', deleted)
    <3>1. /\ h.seen.paid \in Nat /\ payments[h.doc] \in Nat
          /\ h.doc \notin deleted => h.seen.paid <= payments[h.doc]
      <4>1. PaidSnapshot(h, payments, deleted) /\ h.op \in OnOrder
        BY <2>1 DEF PaidInv, OnOrder
      <4>2. ToCredit(h) = h.seen.paid /\ h.seen.paid \in Nat
        BY <2>1, <2>2 DEF ToCredit, Row
      <4>. QED BY <1>T, <2>2, <4>1, <4>2 DEF PaidSnapshot
    <3>2. ToCredit(handler'[r]) = h.seen.paid + h.amount
      BY <2>3 DEF ToCredit
    <3>. QED BY <2>2, <2>3, <2>4, <3>1, <3>2 DEF PaidSnapshot
  <2>. QED BY <1>0, <2>6, <2>7, <2>8, <1>K, PaidMove
<1>7. ASSUME CreditOrder(r) PROVE PaidInv'
  <2>1. /\ h.op = "credit" /\ payments' = payments /\ posted' = posted
        /\ order' = [order EXCEPT ![h.doc].paid = Credit(h.seen, h.amount)]
        /\ handler' = [handler EXCEPT ![r].op = "post"]
    BY <1>7 DEF CreditOrder, money
  <2>2. h.doc \in Orders /\ h.seen \in Row /\ h.amount \in Nat
    BY <1>T, <2>1, LoadedOnOrder
  <2>3. /\ handler'[r].doc = h.doc /\ handler'[r].seen = h.seen
        /\ handler'[r].amount = h.amount /\ handler'[r].op = "post"
    BY <1>T, <2>1, LoadedOnOrder
  <2>4. /\ h.seen.paid \in Nat
        /\ h.doc \notin deleted => h.seen.paid + h.amount <= payments[h.doc]
    <3>1. PaidSnapshot(h, payments, deleted) /\ h.op \in OnOrder
      BY <2>1 DEF PaidInv, OnOrder
    <3>2. ToCredit(h) = h.seen.paid + h.amount /\ h.seen.paid \in Nat
      BY <2>1, <2>2 DEF ToCredit, Row
    <3>. QED BY <2>2, <3>1, <3>2 DEF PaidSnapshot
  <2>5. \A o \in Orders : Due(handler'[r], o) <= Due(handler[r], o)
    <3>1. \A o \in Orders : Due(handler'[r], o) = Due(h, o)
      BY <2>1, <2>3 DEF Due
    <3>. QED BY <1>D, <3>1
  <2>6. \A o \in Orders \ deleted : order'[o].paid <= payments[o]
    <3>1. order'[h.doc].paid = h.seen.paid + h.amount
          /\ \A o \in Orders \ {h.doc} : order'[o] = order[o]
      BY <1>T, <2>1, <2>2 DEF Credit, Row
    <3>. QED BY <1>P, <2>4, <3>1
  <2>7. PaidSnapshot(handler'[r], payments, deleted)
    <3>1. ToCredit(handler'[r]) = h.seen.paid
      BY <2>3, <2>4 DEF ToCredit
    <3>. QED BY <1>T, <2>2, <2>3, <2>4, <3>1 DEF PaidSnapshot
  <2>. QED BY <1>0, <2>1, <2>5, <2>6, <2>7, <1>K, PaidAside
<1>8. ASSUME PostPayment(r) PROVE PaidInv'
  <2>1. /\ h.op = "post" /\ Done(r) /\ order' = order /\ payments' = payments
        /\ posted' = [posted EXCEPT ![h.doc] = @ + h.amount]
    BY <1>8 DEF PostPayment
  <2>2. h.doc \in Orders /\ h.amount \in Nat
    BY <1>T, <2>1, LoadedOnOrder
  <2>3. handler'[r] = Idle
    BY <1>T, <2>1, DoneIsIdle
  <2>4. /\ posted'[h.doc] = posted[h.doc] + h.amount
        /\ \A o \in Orders \ {h.doc} : posted'[o] = posted[o]
    BY <1>T, <2>1, <2>2
  <2>5. /\ Due(h, h.doc) = h.amount /\ \A o \in Orders \ {h.doc} : Due(h, o) = 0
        /\ \A o \in Orders : Due(handler'[r], o) = 0
    BY <2>1, <2>3, IdleOwesNothing DEF Due
  <2>6. /\ \A o \in Orders : payments'[o] >= payments[o]
        /\ \A o \in Orders \ deleted : order'[o].paid <= payments'[o]
    BY <1>T, <1>P, <2>1
  <2>7. \A o \in Orders : posted'[o] + Due(handler'[r], o) - payments'[o]
                             <= posted[o] + Due(handler[r], o) - payments[o]
    BY <1>T, <2>1, <2>2, <2>4, <2>5
  <2>8. PaidSnapshot(handler'[r], payments', deleted)
    BY <2>3, IdleOwesNothing
  <2>. QED BY <1>0, <2>6, <2>7, <2>8, <1>K, PaidMove
<1>9. ASSUME Edit(r) PROVE PaidInv'
  <2>1. Done(r) /\ payments' = payments /\ posted' = posted /\ h.op = "edit"
    BY <1>9 DEF Edit, money
  <2>2. CASE h.doc \in Demands
    <3>1. order' = order
      BY <1>9, <2>2 DEF Edit
    <3>. QED BY <1>P, <2>1, <3>1, <1>K, PaidDone
  <2>3. CASE h.doc \notin Demands
    <3>1. h.doc \in Orders /\ h.seen \in Row /\ order' = [order EXCEPT ![h.doc] = h.seen]
      BY <1>T, <1>9, <2>1, <2>3, LoadedEdit DEF Edit
    <3>2. h.doc \notin deleted => h.seen.paid <= payments[h.doc]
      <4>1. PaidSnapshot(h, payments, deleted) /\ h.op \in OnOrder
        BY <2>1 DEF PaidInv, OnOrder
      <4>2. ToCredit(h) = h.seen.paid
        BY <2>1, <3>1 DEF ToCredit, Row
      <4>. QED BY <3>1, <4>1, <4>2 DEF PaidSnapshot
    <3>3. \A o \in Orders \ deleted : order'[o].paid <= payments[o]
      BY <1>T, <1>P, <3>1, <3>2
    <3>. QED BY <2>1, <3>3, <1>K, PaidDone
  <2>. QED BY <2>2, <2>3
<1>. QED BY <1>1, <1>2, <1>3, <1>4, <1>5, <1>6, <1>7, <1>8, <1>9 DEF Serve

\* However requests overlap, wherever the process dies, whatever is edited and whichever
\* other orders are deleted: neither the order nor the ledger claims a payment that has
\* no row (PurchaseOrderViewSet.record_payment).
THEOREM ClaimsArePaid == Spec => []ClaimedIsPaid
<1>1. Init => PaidInv
  <2> SUFFICES ASSUME Init PROVE PaidInv
    OBVIOUS
  <2>1. TypeOK
    BY InitType
  <2>2. \A r \in Requests : handler[r] = Idle
    BY DEF Init
  <2>3. \A r \in Requests : PaidSnapshot(handler[r], payments, deleted)
    BY <2>2, IdleOwesNothing
  <2>4. \A o \in Orders : payments[o] = 0 /\ posted[o] = 0 /\ order[o].paid = 0
    BY DEF Init, NoRow
  <2>5. ASSUME NEW o \in Orders PROVE DueFor(handler, o) = 0
    <3> DEFINE f == DueOf(handler, o)
               z == [r \in Requests |-> 0]
    <3>1. \A r \in Requests : f[r] = 0 /\ z[r] = 0 - f[r] /\ f[r] = z[r]
      BY <2>2, IdleOwesNothing DEF DueOf
    <3>2. IsFiniteSet(Requests)
      BY PurchasingConstants
    <3> HIDE DEF f, z
    <3>3. SumFunctionOnSet(z, Requests) = 0 - SumFunctionOnSet(f, Requests)
      BY <3>1, <3>2, SumNegate
    <3>4. SumFunctionOnSet(f, Requests) = SumFunctionOnSet(z, Requests)
      BY <3>1, <3>2, SumEqual
    <3>5. SumFunctionOnSet(f, Requests) \in Int
      BY <3>1, <3>2, SumInt
    <3>6. SumFunctionOnSet(f, Requests) = 0
      BY <3>3, <3>4, <3>5
    <3>. QED BY <3>6 DEF f, DueFor
  <2>6. \A o \in Orders : /\ order[o].paid <= payments[o]
                          /\ posted[o] + DueFor(handler, o) <= payments[o]
    BY <2>4, <2>5
  <2>. QED BY <2>1, <2>3, <2>6 DEF PaidInv
<1>2. PaidInv /\ [Next]_vars => PaidInv'
  <2> SUFFICES ASSUME PaidInv, [Next]_vars PROVE PaidInv'
    OBVIOUS
  <2>1. TypeOK'
    BY StepType DEF PaidInv
  <2>2. CASE UNCHANGED vars
    BY <2>1, <2>2 DEF vars, PaidInv
  <2>3. ASSUME NEW o \in Orders, CreateOrder(o) PROVE PaidInv'
    <3>1. \A p \in Orders : order'[p].paid = order[p].paid
      BY <2>3 DEF CreateOrder, PaidInv, TypeOK, Row
    <3>2. payments' = payments /\ posted' = posted /\ handler' = handler /\ deleted' = deleted
      BY <2>3 DEF CreateOrder, money
    <3>. QED BY <2>1, <3>1, <3>2 DEF PaidInv
  <2>4. ASSUME NEW o \in Orders, DeleteOrder(o) PROVE PaidInv'
    <3>1. /\ posted' = posted /\ handler' = handler /\ deleted' = deleted \cup {o}
          /\ \A p \in Orders \ {o} : order'[p] = order[p] /\ payments'[p] = payments[p]
      BY <2>4 DEF DeleteOrder, PaidInv, TypeOK
    <3>2. \A p \in Orders \ deleted' : /\ order'[p].paid <= payments'[p]
                                        /\ posted'[p] + DueFor(handler', p) <= payments'[p]
      BY <3>1 DEF PaidInv
    <3>3. \A r \in Requests : PaidSnapshot(handler'[r], payments', deleted')
      BY <3>1 DEF PaidInv, PaidSnapshot
    <3>. QED BY <2>1, <3>2, <3>3 DEF PaidInv
  <2>5. ASSUME NEW d \in Demands, DeleteDemand(d) PROVE PaidInv'
    <3>1. UNCHANGED <<order, money, handler>> /\ deleted \subseteq deleted'
      BY <2>5 DEF DeleteDemand
    <3>2. \A p \in Orders \ deleted' : /\ order'[p].paid <= payments'[p]
                                        /\ posted'[p] + DueFor(handler', p) <= payments'[p]
      BY <3>1 DEF PaidInv, money
    <3>3. \A r \in Requests : PaidSnapshot(handler'[r], payments', deleted')
      BY <3>1 DEF PaidInv, PaidSnapshot, money
    <3>. QED BY <2>1, <3>2, <3>3 DEF PaidInv
  <2>. QED BY <2>1, <2>2, <2>3, <2>4, <2>5, PaidStep DEF Next
<1>3. PaidInv => ClaimedIsPaid
  <2> SUFFICES ASSUME PaidInv PROVE ClaimedIsPaid
    OBVIOUS
  <2>1. \A o \in Orders \ deleted : posted[o] <= payments[o]
    <3>1. \A o \in Orders : posted[o] \in Nat /\ payments[o] \in Nat /\ DueFor(handler, o) \in Nat
      BY DueForType DEF PaidInv, TypeOK
    <3>. QED BY <3>1 DEF PaidInv
  <2>. QED BY <2>1 DEF PaidInv, ClaimedIsPaid
<1>. QED BY <1>1, <1>2, <1>3, PTL DEF Spec

----------------------------------------------------------------------------
(* Requests served one at a time, none of them dying between the commits   *)
(* of a payment: all that is read is still there when it is written, and   *)
(* the paperwork adds up.                                                  *)

\* A request as the workflow leaves it: its status, how it was decided, its orders.
Decided(status, a, j, m) ==
    /\ a + j <= 1 /\ m <= 1
    /\ status \in {"draft", "submitted"} => a + j = 0
    /\ status \notin {"converted", None} => m = 0

\* An order's status against the goods n in stock.
Tells(status, o, n) ==
    (\E i \in Items : Owner[i] = o /\ n[i] > 0) =>
        status = IF Whole(o, n) THEN "received" ELSE "partially_received"

\* What a request has read is still there, and a payment under way is at the
\* commit its request remembers.
Fresh(h, rows, orders, counts, paid, booked) ==
    /\ h.op \in OnDemand /\ h.doc \in Demands => h.seen = rows[h.doc]
    /\ h.op \in OnOrder /\ h.doc \in Orders => orders[h.doc].status # None
    /\ h.op \in OnOrder \ {"post"} /\ h.doc \in Orders => h.seen = orders[h.doc]
    /\ h.op = "receive" => h.counts = counts
    /\ h.op \in {"credit", "post"} =>
          /\ paid[h.doc] = h.seen.paid + h.amount /\ paid[h.doc] <= Total
          /\ booked[h.doc] = h.seen.paid
    /\ h.op = "post" => orders[h.doc].paid = paid[h.doc]

\* The payments of an order none of whose payments is under way.
Owing(h, o) == h.op \in {"credit", "post"} /\ h.doc = o
Squared(row, paid, booked) == row.paid = paid /\ booked = paid /\ paid <= Total

AllDecided ==
    \A d \in Demands : Decided(demand[d], approvals[d], rejections[d], ordersMade[d])
Shelved ==
    \A i \in Items :
        /\ strayed[i] = 0
        /\ Owner[i] \notin deleted => stocked[i] <= Quantity[i] /\ received[i] = stocked[i]
AllTell == \A o \in Orders \ deleted : Tells(order[o].status, o, stocked)
AllGone == \A o \in Orders \cap deleted : order[o] = NoRow
AllSquared ==
    \A o \in Orders \ deleted : (\A r \in Requests : ~ Owing(handler[r], o)) =>
                          Squared(order[o], payments[o], posted[o])
AllFresh == \A r \in Requests : Fresh(handler[r], demand, order, received, payments, posted)

CalmFacts == ~ Overlap /\ AllDecided /\ Shelved /\ AllTell /\ AllGone /\ AllSquared /\ AllFresh
CalmInv == TypeOK /\ (calm => CalmFacts)

LEMMA IdleIsFresh ==
    ASSUME NEW rows, NEW orders, NEW counts, NEW paid, NEW booked
    PROVE  Fresh(Idle, rows, orders, counts, paid, booked) /\ \A o : ~ Owing(Idle, o)
BY DEF Fresh, Owing, Idle, None, OnDemand, OnOrder

\* The order a request has read is still there.
LEMMA LiveOrder ==
    ASSUME TypeOK, CalmFacts, NEW r \in Requests,
           handler[r].op \in {"send", "acknowledge", "receive", "pay", "credit", "post"}
    PROVE  handler[r].doc \in Orders \ deleted
<1>1. handler[r].doc \in Orders /\ handler[r].op \in OnOrder
  BY LoadedOnOrder DEF OnOrder
<1>2. order[handler[r].doc].status # None
  BY <1>1 DEF CalmFacts, AllFresh, Fresh
<1>. QED BY <1>1, <1>2 DEF CalmFacts, AllGone, NoRow

\* The request under way is alone.
LEMMA OnlyOne ==
    ASSUME ~ Overlap, NEW r \in Requests, handler[r] # Idle
    PROVE  \A x \in Requests \ {r} : handler[x] = Idle
BY DEF Overlap

LEMMA LastOneDone ==
    ASSUME TypeOK, ~ Overlap, NEW r \in Requests, handler[r] # Idle, Done(r)
    PROVE  /\ \A x \in Requests : handler'[x] = Idle
           /\ ~ Overlap' /\ AllFresh' /\ \A x \in Requests : \A o : ~ Owing(handler'[x], o)
<1>1. \A x \in Requests : handler'[x] = Idle
  BY OnlyOne DEF TypeOK, Done
<1>2. ~ Overlap'
  BY <1>1 DEF Overlap
<1>3. AllFresh'
  BY <1>1, IdleIsFresh DEF AllFresh
<1>4. \A x \in Requests : \A o : ~ Owing(handler'[x], o)
  BY <1>1, IdleIsFresh
<1>. QED BY <1>1, <1>2, <1>3, <1>4

\* No payment is under way when another kind of request, or none, is.
LEMMA NobodyOwes ==
    ASSUME CalmFacts, NEW r \in Requests, handler[r].op \notin {"credit", "post"},
           \A x \in Requests \ {r} : handler[x] = Idle
    PROVE  /\ \A x \in Requests : \A o : ~ Owing(handler[x], o)
           /\ \A o \in Orders \ deleted : Squared(order[o], payments[o], posted[o])
<1>1. ASSUME NEW x \in Requests, NEW o PROVE ~ Owing(handler[x], o)
  BY IdleIsFresh DEF Owing
<1>. QED BY <1>1 DEF CalmFacts, AllSquared

\* Reading a row.
LEMMA CalmLoad ==
    ASSUME TypeOK, CalmFacts, ~ Overlap', NEW r \in Requests
    PROVE  /\ \A d \in Demands, op \in OnDemand : LoadDemand(r, op, d) => CalmFacts'
           /\ \A o \in Orders, op \in OnOrder, amount \in Amounts \cup {0} :
                 LoadOrder(r, op, o, amount) => CalmFacts'
<1>1. ASSUME NEW h, Begin(r, h), UNCHANGED <<workflow, order, goods, money, deleted>>,
             h.op \notin {"credit", "post"},
             Fresh(h, demand, order, received, payments, posted)
      PROVE  CalmFacts'
  <2>1. /\ handler[r] = Idle /\ handler'[r] = h
        /\ \A x \in Requests \ {r} : handler'[x] = handler[x]
    BY <1>1 DEF Begin, TypeOK
  <2>2. h # Idle => \A x \in Requests \ {r} : handler[x] = Idle
    BY <2>1 DEF Overlap
  <2>3. \A x \in Requests : Fresh(handler'[x], demand, order, received, payments, posted)
    BY <1>1, <2>1 DEF CalmFacts, AllFresh
  <2>4. \A x \in Requests, o \in Orders : Owing(handler'[x], o) <=> Owing(handler[x], o)
    BY <1>1, <2>1, IdleIsFresh DEF Owing
  <2>5. AllSquared'
    BY <1>1, <2>4 DEF CalmFacts, AllSquared, money
  <2>. QED BY <1>1, <2>3, <2>5
        DEF CalmFacts, AllDecided, Shelved, AllTell, AllGone, AllFresh, workflow, goods, money
<1>2. ASSUME NEW d \in Demands, NEW op \in OnDemand, LoadDemand(r, op, d) PROVE CalmFacts'
  <2> DEFINE h == [op |-> op, doc |-> d, seen |-> demand[d], counts |-> Zero, amount |-> 0]
  <2>1. Begin(r, h) /\ UNCHANGED <<workflow, order, goods, money, deleted>>
    BY <1>2 DEF LoadDemand
  <2>2. h.op \notin {"credit", "post"}
    BY DEF OnDemand
  <2>3. Fresh(h, demand, order, received, payments, posted)
    BY PurchasingConstants DEF Fresh, OnDemand, OnOrder
  <2> HIDE DEF h
  <2>. QED BY <1>1, <2>1, <2>2, <2>3
<1>3. ASSUME NEW o \in Orders, NEW op \in OnOrder, NEW amount \in Amounts \cup {0},
             LoadOrder(r, op, o, amount)
      PROVE  CalmFacts'
  <2> DEFINE counts == IF op = "receive" THEN received ELSE Zero
             h == [op |-> op, doc |-> o, seen |-> order[o], amount |-> amount, counts |-> counts]
  <2>1. /\ Begin(r, h) /\ UNCHANGED <<workflow, order, goods, money, deleted>>
        /\ order[o].status # None
        /\ op \notin {"credit", "post"}
    BY <1>3, PurchasingConstants DEF LoadOrder, Exists
  <2>2. h.op \notin {"credit", "post"}
    BY <2>1
  <2>3. Fresh(h, demand, order, received, payments, posted)
    BY <2>1, PurchasingConstants DEF Fresh, OnDemand, OnOrder
  <2> HIDE DEF h
  <2>. QED BY <1>1, <2>1, <2>2, <2>3
<1>. QED BY <1>2, <1>3

\* A request ends and has left goods and money alone.
LEMMA CalmAside ==
    ASSUME TypeOK, CalmFacts, NEW r \in Requests, handler[r] # Idle, Done(r),
           handler[r].op \notin {"credit", "post"}, UNCHANGED <<goods, money, deleted>>,
           \A o \in Orders : order'[o].paid = order[o].paid,
           AllDecided', AllTell', AllGone'
    PROVE  CalmFacts'
<1>1. ~ Overlap' /\ AllFresh'
  BY LastOneDone DEF CalmFacts
<1>2. \A o \in Orders \ deleted : Squared(order[o], payments[o], posted[o])
  BY OnlyOne, NobodyOwes DEF CalmFacts
<1>3. AllSquared'
  BY <1>2 DEF AllSquared, Squared, money
<1>. QED BY <1>1, <1>3 DEF CalmFacts, Shelved, goods

\* An order that shows no receipt has no goods, and any status will do.
LEMMA StatusMoves ==
    ASSUME TypeOK, AllTell, AllGone, UNCHANGED <<stocked, deleted>>, NEW o \in Orders \ deleted,
           order[o].status \in {None, "draft", "sent"},
           NEW s, order' = [order EXCEPT ![o].status = s]
    PROVE  (\A p \in Orders : order'[p].paid = order[p].paid) /\ AllTell' /\ AllGone'
<1>1. /\ \A p \in Orders : order'[p].paid = order[p].paid
      /\ \A p \in Orders \ {o} : order'[p] = order[p]
  BY DEF TypeOK, Row
<1>2. ~ \E i \in Items : Owner[i] = o /\ stocked[i] > 0
  BY DEF AllTell, Tells, None
<1>3. ASSUME NEW p \in Orders \ deleted PROVE Tells(order'[p].status, p, stocked')
  <2>1. CASE p = o
    BY <1>2, <2>1 DEF Tells
  <2>2. CASE p # o
    BY <1>1, <2>2 DEF AllTell
  <2>. QED BY <2>1, <2>2
<1>4. AllGone'
  BY <1>1 DEF AllGone
<1>. QED BY <1>1, <1>3, <1>4 DEF AllTell

LEMMA CalmWorkflow ==
    ASSUME TypeOK, CalmFacts, NEW r \in Requests,
           Submit(r) \/ Approve(r) \/ Reject(r) \/ \E o \in Orders : ConvertToPo(r, o)
    PROVE  CalmFacts'
<1> DEFINE h == handler[r]
           d == handler[r].doc
<1>1. h.op \in {"submit", "approve", "reject", "convert"} /\ Done(r) /\ h # Idle
  BY DEF Submit, Approve, Reject, ConvertToPo, Idle, None
<1>2. d \in Demands /\ UNCHANGED <<goods, money, deleted>>
  BY <1>1, LoadedDemand DEF Submit, Approve, Reject, ConvertToPo
<1>3. h.seen = demand[d] /\ Decided(demand[d], approvals[d], rejections[d], ordersMade[d])
  BY <1>1, <1>2 DEF CalmFacts, AllFresh, Fresh, OnDemand, AllDecided
<1>N. approvals[d] \in Nat /\ rejections[d] \in Nat /\ ordersMade[d] \in Nat
  BY <1>2 DEF TypeOK
<1>4. /\ \A e \in Demands \ {d} : /\ demand'[e] = demand[e] /\ approvals'[e] = approvals[e]
                                  /\ rejections'[e] = rejections[e]
                                  /\ ordersMade'[e] = ordersMade[e]
      /\ Decided(demand'[d], approvals'[d], rejections'[d], ordersMade'[d])
  <2>1. CASE Submit(r)
    BY <1>2, <1>3, <2>1 DEF Submit, Decided, TypeOK, None
  <2>2. CASE Approve(r)
    <3>1. /\ demand' = [demand EXCEPT ![d] = "approved"]
          /\ approvals' = [approvals EXCEPT ![d] = approvals[d] + 1]
          /\ rejections' = rejections /\ ordersMade' = ordersMade /\ h.seen = "submitted"
      BY <2>2 DEF Approve, Decidable
    <3>2. approvals'[d] = approvals[d] + 1 /\ demand'[d] = "approved"
          /\ \A e \in Demands \ {d} : demand'[e] = demand[e] /\ approvals'[e] = approvals[e]
      BY <1>2, <3>1 DEF TypeOK
    <3> HIDE DEF d, h
    <3>. QED BY <1>3, <1>N, <3>1, <3>2 DEF Decided, None
  <2>3. CASE Reject(r)
    <3>1. /\ demand' = [demand EXCEPT ![d] = "rejected"]
          /\ rejections' = [rejections EXCEPT ![d] = rejections[d] + 1]
          /\ approvals' = approvals /\ ordersMade' = ordersMade /\ h.seen = "submitted"
      BY <2>3 DEF Reject, Decidable
    <3>2. rejections'[d] = rejections[d] + 1 /\ demand'[d] = "rejected"
          /\ \A e \in Demands \ {d} : demand'[e] = demand[e] /\ rejections'[e] = rejections[e]
      BY <1>2, <3>1 DEF TypeOK
    <3> HIDE DEF d, h
    <3>. QED BY <1>3, <1>N, <3>1, <3>2 DEF Decided, None
  <2>4. CASE \E o \in Orders : ConvertToPo(r, o)
    <3>1. /\ demand' = [demand EXCEPT ![d] = "converted"]
          /\ ordersMade' = [ordersMade EXCEPT ![d] = ordersMade[d] + 1]
          /\ approvals' = approvals /\ rejections' = rejections /\ h.seen = "approved"
      BY <2>4 DEF ConvertToPo, Convertible
    <3>2. ordersMade'[d] = ordersMade[d] + 1 /\ demand'[d] = "converted"
          /\ \A e \in Demands \ {d} : demand'[e] = demand[e] /\ ordersMade'[e] = ordersMade[e]
      BY <1>2, <3>1 DEF TypeOK
    <3> HIDE DEF d, h
    <3>. QED BY <1>3, <1>N, <3>1, <3>2 DEF Decided, None
  <2>. QED BY <2>1, <2>2, <2>3, <2>4
<1>5. AllDecided'
  <2> HIDE DEF d
  <2>. QED BY <1>4 DEF CalmFacts, AllDecided
<1>6. (\A o \in Orders : order'[o].paid = order[o].paid) /\ AllTell' /\ AllGone'
  <2>1. CASE order' = order
    BY <1>2, <2>1 DEF CalmFacts, AllTell, AllGone, goods
  <2>2. CASE \E o \in Orders : ConvertToPo(r, o)
    <3>1. PICK o \in Orders \ deleted : order[o] = NoRow /\ order' = [order EXCEPT ![o].status = "draft"]
      BY <2>2 DEF ConvertToPo
    <3>2. order[o].status \in {None, "draft", "sent"} /\ UNCHANGED <<stocked, deleted>>
      BY <1>2, <3>1 DEF NoRow, goods
    <3>. QED BY <3>1, <3>2, StatusMoves DEF CalmFacts
  <2>. QED BY <2>1, <2>2 DEF Submit, Approve, Reject
<1>. QED BY <1>1, <1>2, <1>5, <1>6, CalmAside

LEMMA CalmAdvance ==
    ASSUME TypeOK, CalmFacts, NEW r \in Requests, Advance(r)
    PROVE  CalmFacts'
<1> DEFINE h == handler[r]
           s == IF h.op = "send" THEN "sent" ELSE "approved"
<1>1. /\ h.op \in {"send", "acknowledge"} /\ h # Idle /\ Done(r)
      /\ h.seen.status \in {"draft", "sent"}
      /\ order' = [order EXCEPT ![h.doc].status = s]
      /\ UNCHANGED <<workflow, goods, money, deleted>>
  BY DEF Advance, Idle, None
<1>2. h.doc \in Orders \ deleted /\ h.seen = order[h.doc]
  BY <1>1, LoadedOnOrder, LiveOrder DEF CalmFacts, AllFresh, Fresh, OnOrder
<1>3. AllDecided' /\ UNCHANGED <<stocked, deleted>>
  BY <1>1 DEF CalmFacts, AllDecided, workflow, goods
<1> HIDE DEF s, h
<1>4. (\A p \in Orders : order'[p].paid = order[p].paid) /\ AllTell' /\ AllGone'
  BY <1>1, <1>2, <1>3, StatusMoves DEF CalmFacts
<1>. QED BY <1>1, <1>3, <1>4, CalmAside DEF h

\* An edit writes back what its request has read.
LEMMA CalmEdit ==
    ASSUME TypeOK, CalmFacts, NEW r \in Requests, Edit(r)
    PROVE  CalmFacts'
<1> DEFINE h == handler[r]
<1>1. /\ h.op = "edit" /\ h # Idle /\ Done(r) /\ UNCHANGED <<goods, money, deleted>>
      /\ UNCHANGED <<approvals, rejections, ordersMade>>
  BY DEF Edit, Idle, None
<1>2. demand' = demand /\ order' = order
  <2>1. CASE h.doc \in Demands
    <3>1. h.seen = demand[h.doc]
      BY <1>1, <2>1 DEF CalmFacts, AllFresh, Fresh, OnDemand
    <3>. QED BY <2>1, <3>1 DEF Edit, TypeOK
  <2>2. CASE h.doc \notin Demands
    <3>1. h.doc \in Orders /\ h.seen = order[h.doc]
      BY <1>1, <2>2, LoadedEdit DEF CalmFacts, AllFresh, Fresh, OnOrder
    <3>. QED BY <2>2, <3>1 DEF Edit, TypeOK
  <2>. QED BY <2>1, <2>2
<1>3. AllDecided' /\ AllTell' /\ AllGone' /\ \A o \in Orders : order'[o].paid = order[o].paid
  BY <1>1, <1>2 DEF CalmFacts, AllDecided, AllTell, AllGone, goods
<1>. QED BY <1>1, <1>3, CalmAside

\* A request that only ends.
LEMMA CalmAbort ==
    ASSUME TypeOK, CalmFacts, ~ Crash, NEW r \in Requests, Abort(r)
    PROVE  CalmFacts'
<1>1. /\ handler[r] # Idle /\ Done(r) /\ handler[r].op \notin {"credit", "post"}
      /\ UNCHANGED <<workflow, order, goods, money, deleted>>
  BY DEF Abort, Crash
<1>2. AllDecided' /\ AllTell' /\ AllGone' /\ \A o \in Orders : order'[o].paid = order[o].paid
  BY <1>1 DEF CalmFacts, AllDecided, AllTell, AllGone, workflow, goods
<1>. QED BY <1>1, <1>2, CalmAside

\* A new order has neither goods nor payments, and no request has read it.
LEMMA CalmCreate ==
    ASSUME TypeOK, CalmFacts, NEW o \in Orders, CreateOrder(o)
    PROVE  CalmFacts'
<1>1. /\ order[o] = NoRow /\ order' = [order EXCEPT ![o].status = "draft"] /\ o \notin deleted
      /\ UNCHANGED <<workflow, goods, money, deleted, handler>>
  BY DEF CreateOrder
<1>2. order[o].status \in {None, "draft", "sent"} /\ UNCHANGED <<stocked, deleted>>
  BY <1>1 DEF NoRow, goods
<1>3. (\A p \in Orders : order'[p].paid = order[p].paid) /\ AllTell' /\ AllGone'
  BY <1>1, <1>2, StatusMoves DEF CalmFacts
<1>4. \A p \in Orders \ {o} : order'[p] = order[p]
  BY <1>1 DEF TypeOK
<1>5. ASSUME NEW x \in Requests
      PROVE  Fresh(handler[x], demand, order', received, payments, posted)
  <2>1. Fresh(handler[x], demand, order, received, payments, posted)
    BY DEF CalmFacts, AllFresh
  <2>2. order[o].status = None
    BY <1>1 DEF NoRow
  <2>3. handler[x].op \in OnOrder /\ handler[x].doc \in Orders => handler[x].doc # o
    BY <2>1, <2>2 DEF Fresh
  <2>4. handler[x].op = "post" => handler[x].doc \in Orders
    BY LoadedOnOrder
  <2>. QED BY <1>3, <1>4, <2>1, <2>3, <2>4 DEF Fresh, OnOrder
<1>6. AllSquared'
  BY <1>1, <1>3 DEF CalmFacts, AllSquared, Squared, money
<1>. QED BY <1>1, <1>3, <1>5, <1>6
      DEF CalmFacts, Overlap, AllDecided, Shelved, AllFresh, workflow, goods, money

\* The three commits of a payment: the row, the order, the ledger.
LEMMA CalmPayment ==
    ASSUME TypeOK, TypeOK', CalmFacts, NEW r \in Requests,
           SavePayment(r) \/ CreditOrder(r) \/ PostPayment(r)
    PROVE  CalmFacts'
<1> DEFINE h == handler[r]
           o == handler[r].doc
<1>1. /\ h.op \in {"pay", "credit", "post"} /\ h # Idle
      /\ UNCHANGED <<workflow, goods, deleted>>
  BY DEF SavePayment, CreditOrder, PostPayment, Idle, None, money
<1>0. o \in Orders \ deleted
  BY <1>1, LiveOrder
<1>2. /\ o \in Orders /\ h.seen \in Row /\ h.amount \in Nat /\ h.seen.paid \in Nat
      /\ order[o].paid \in Nat /\ payments[o] \in Nat /\ posted[o] \in Nat /\ Total \in Nat
  BY <1>1, LoadedOnOrder, PurchasingConstants DEF TypeOK, Row
<1>3. \A x \in Requests \ {r} : handler[x] = Idle
  BY <1>1, OnlyOne DEF CalmFacts
<1>4. /\ Fresh(h, demand, order, received, payments, posted)
      /\ \A p \in Orders \ (deleted \cup {o}) : Squared(order[p], payments[p], posted[p])
  <2>1. ASSUME NEW p \in Orders \ (deleted \cup {o}), NEW x \in Requests PROVE ~ Owing(handler[x], p)
    BY <1>3, IdleIsFresh DEF Owing
  <2>. QED BY <2>1 DEF CalmFacts, AllFresh, AllSquared
<1>5. AllDecided' /\ Shelved'
  BY <1>1 DEF CalmFacts, AllDecided, Shelved, workflow, goods
\* What is left to show of each commit.
<1>6. ASSUME handler'[r].op \in OnOrder => handler'[r].doc = o,
             \A x \in Requests \ {r} : handler'[x] = handler[x],
             \A p \in Orders \ {o} : /\ order'[p] = order[p] /\ payments'[p] = payments[p]
                                      /\ posted'[p] = posted[p],
             order'[o].status = order[o].status,
             Fresh(handler'[r], demand', order', received', payments', posted'),
             ~ Owing(handler'[r], o) => Squared(order'[o], payments'[o], posted'[o])
      PROVE  CalmFacts'
  <2>1. ~ Overlap'
    BY <1>3, <1>6 DEF Overlap
  <2>2. AllFresh'
    BY <1>3, <1>6, IdleIsFresh DEF AllFresh
  <2>3. AllTell' /\ AllGone'
    BY <1>0, <1>1, <1>6 DEF CalmFacts, AllTell, AllGone, goods
  <2>4. AllSquared'
    BY <1>1, <1>4, <1>6 DEF AllSquared
  <2>. QED BY <1>5, <2>1, <2>2, <2>3, <2>4 DEF CalmFacts
<1>7. ASSUME SavePayment(r) PROVE CalmFacts'
  <2>1. /\ h.op = "pay" /\ order' = order /\ posted' = posted /\ received' = received
        /\ demand' = demand /\ h.seen.paid + h.amount <= Total
        /\ payments' = [payments EXCEPT ![o] = payments[o] + h.amount]
        /\ handler' = [handler EXCEPT ![r].op = "credit"]
    BY <1>7 DEF SavePayment, Payable, workflow, goods
  <2>2. /\ handler'[r].doc = o /\ handler'[r].seen = h.seen
        /\ handler'[r].amount = h.amount /\ handler'[r].op = "credit"
        /\ \A x \in Requests \ {r} : handler'[x] = handler[x]
    BY <2>1, LoadedOnOrder DEF TypeOK
  <2>3. /\ payments'[o] = payments[o] + h.amount
        /\ \A p \in Orders \ {o} : payments'[p] = payments[p]
    BY <1>2, <2>1 DEF TypeOK
  <2>4. Squared(order[o], payments[o], posted[o]) /\ h.seen = order[o] /\ order[o].status # None
    BY <1>0, <1>2, <1>3, <1>4, <2>1, NobodyOwes DEF Fresh, OnOrder
  <2> HIDE DEF h, o
  <2>5. Fresh(handler'[r], demand', order', received', payments', posted')
    BY <1>2, <2>1, <2>2, <2>3, <2>4 DEF Fresh, Squared, OnDemand, OnOrder
  <2>6. Owing(handler'[r], o)
    BY <2>2 DEF Owing
  <2>. QED BY <1>6, <2>1, <2>2, <2>3, <2>5, <2>6
<1>8. ASSUME CreditOrder(r) PROVE CalmFacts'
  <2>1. /\ h.op = "credit" /\ payments' = payments /\ posted' = posted /\ received' = received
        /\ demand' = demand
        /\ order' = [order EXCEPT ![o].paid = h.seen.paid + h.amount]
        /\ handler' = [handler EXCEPT ![r].op = "post"]
    BY <1>8 DEF CreditOrder, Credit, workflow, goods, money
  <2>2. /\ handler'[r].doc = o /\ handler'[r].seen = h.seen
        /\ handler'[r].amount = h.amount /\ handler'[r].op = "post"
        /\ \A x \in Requests \ {r} : handler'[x] = handler[x]
    BY <2>1, LoadedOnOrder DEF TypeOK
  <2>3. /\ order'[o].paid = h.seen.paid + h.amount /\ order'[o].status = order[o].status
        /\ \A p \in Orders \ {o} : order'[p] = order[p]
    BY <1>2, <2>1 DEF TypeOK, Row
  <2> HIDE DEF h, o
  <2>F. order[o].status # None /\ payments[o] = h.seen.paid + h.amount /\ payments[o] <= Total
        /\ posted[o] = h.seen.paid
    BY <1>2, <1>4, <2>1 DEF Fresh, OnOrder, h, o
  <2>4. Fresh(handler'[r], demand', order', received', payments', posted')
    BY <1>2, <2>F, <2>1, <2>2, <2>3 DEF Fresh, OnDemand, OnOrder
  <2>5. Owing(handler'[r], o)
    BY <2>2 DEF Owing
  <2>. QED BY <1>6, <2>1, <2>2, <2>3, <2>4, <2>5
<1>9. ASSUME PostPayment(r) PROVE CalmFacts'
  <2>1. /\ h.op = "post" /\ order' = order /\ payments' = payments /\ Done(r)
        /\ posted' = [posted EXCEPT ![o] = posted[o] + h.amount]
    BY <1>9 DEF PostPayment
  <2>2. handler'[r] = Idle /\ \A x \in Requests \ {r} : handler'[x] = handler[x]
    BY <2>1 DEF Done, TypeOK
  <2>3. /\ posted'[o] = posted[o] + h.amount
        /\ \A p \in Orders \ {o} : posted'[p] = posted[p]
    BY <1>2, <2>1 DEF TypeOK
  <2> HIDE DEF h, o
  <2>4. Squared(order'[o], payments'[o], posted'[o])
    BY <1>2, <1>4, <2>1, <2>3 DEF Fresh, Squared, OnOrder, h, o
  <2>5. /\ Fresh(handler'[r], demand', order', received', payments', posted')
        /\ handler'[r].op \notin OnOrder
    BY <2>2, IdleIsFresh DEF Idle, None, OnOrder
  <2>. QED BY <1>6, <2>1, <2>2, <2>3, <2>4, <2>5
<1>. QED BY <1>7, <1>8, <1>9

----------------------------------------------------------------------------
(* A receipt that lists no item twice and each as the product ordered.     *)

ListsOnce(entries) ==
    /\ \A e, f \in DOMAIN entries : entries[e].item = entries[f].item => e = f
    /\ \A e \in DOMAIN entries : entries[e].asOrdered

\* Then what arrives of an item is what its entry says, and is counted in full.
LEMMA OneEntryCounts ==
    ASSUME NEW entries \in Entries, ListsOnce(entries), NEW i, NEW e \in EntriesOf(entries, i),
           NEW seen
    PROVE  /\ Arriving(entries, i) = entries[e].qty
           /\ Counted(seen, entries, i) = seen[i] + entries[e].qty
<1> DEFINE S == EntriesOf(entries, i)
           f == Quantities(entries)
<1>1. S = {e}
  BY DEF ListsOnce, EntriesOf
<1>2. e \in DOMAIN entries /\ entries[e].qty \in Nat /\ e \in Nat
  BY EntriesOfType, EntriesType
<1>3. Counted(seen, entries, i) = seen[i] + entries[e].qty
  <2> DEFINE last == CHOOSE x \in S : \A y \in S : y <= x
  <2>1. \E x \in S : \A y \in S : y <= x
    BY <1>1, <1>2
  <2>2. last \in S
    BY <2>1
  <2>3. last = e
    BY <1>1, <2>2
  <2>4. Counted(seen, entries, i) = seen[i] + entries[last].qty
    BY DEF Counted
  <2> HIDE DEF last
  <2>. QED BY <2>3, <2>4
<1>4. f[e] = entries[e].qty /\ f[e] \in Int
  BY <1>2 DEF Quantities
<1>5. Arriving(entries, i) = SumFunctionOnSet(f, {e})
  BY <1>1 DEF Arriving
<1> HIDE DEF f
<1>. QED BY <1>3, <1>4, <1>5, SumSingle

LEMMA NothingStrays ==
    ASSUME NEW entries \in Entries, ListsOnce(entries), NEW i PROVE Straying(entries, i) = 0
<1>1. {e \in EntriesOf(entries, i) : ~ entries[e].asOrdered} = {}
  BY EntriesOfType DEF ListsOnce
<1>. QED BY <1>1, SumEmpty DEF Straying

\* The receipts explored list items of their own order only.
OwnItemsOnly == "foreign" \notin Irregular

LEMMA CalmReceive ==
    ASSUME OwnItemsOnly, TypeOK, TypeOK', CalmFacts, NEW r \in Requests,
           NEW entries \in Entries, ListsOnce(entries), Receive(r, entries)
    PROVE  CalmFacts'
<1> DEFINE h == handler[r]
           o == handler[r].doc
           touched == {i \in Items : EntriesOf(entries, i) # {}}
           s == IF FullyReceived(received', o) THEN "received" ELSE "partially_received"
<1>1. /\ h.op = "receive" /\ h # Idle /\ Done(r) /\ UNCHANGED <<workflow, money, deleted>>
      /\ strayed' = [i \in Items |-> strayed[i] + Straying(entries, i)]
      /\ order' = [order EXCEPT ![o].status = s]
      /\ \A e \in DOMAIN entries : /\ Receivable(h.counts, entries[e])
                                    /\ Owner[entries[e].item] = o
      /\ stocked' = [i \in Items |-> IF i \in touched THEN stocked[i] + Arriving(entries, i)
                                                       ELSE stocked[i]]
      /\ received' = [i \in Items |-> IF i \in touched THEN Counted(h.counts, entries, i)
                                                        ELSE received[i]]
  BY DEF Receive, Idle, None, OwnItemsOnly
<1>2. o \in Orders \ deleted /\ h.counts = received
  BY <1>1, LiveOrder DEF CalmFacts, AllFresh, Fresh
<1>3. \A i \in Items :
        /\ stocked[i] \in Nat /\ Quantity[i] \in Nat /\ strayed[i] = 0
        /\ Owner[i] \notin deleted => stocked[i] <= Quantity[i] /\ received[i] = stocked[i]
  BY PurchasingConstants DEF CalmFacts, Shelved, TypeOK, Counts
<1> HIDE DEF h, o, s
<1>4. ASSUME NEW i \in Items
      PROVE  /\ strayed'[i] = 0
             /\ Owner[i] \notin deleted => stocked'[i] <= Quantity[i] /\ received'[i] = stocked'[i]
             /\ Owner[i] # o => stocked'[i] = stocked[i]
             /\ stocked'[i] >= stocked[i]
  <2>0. strayed'[i] = 0
    BY <1>1, <1>3, NothingStrays
  <2>1. CASE i \in touched
    <3>1. PICK e \in EntriesOf(entries, i) : TRUE
      BY <2>1
    <3>2. e \in DOMAIN entries /\ entries[e].item = i /\ entries[e].qty \in Nat
      BY <3>1, EntriesType DEF EntriesOf
    <3>3. Arriving(entries, i) = entries[e].qty
          /\ Counted(received, entries, i) = received[i] + entries[e].qty
      BY <3>1, OneEntryCounts
    <3>4. entries[e].qty <= Quantity[i] - received[i] /\ Owner[i] = o
      BY <1>1, <1>2, <3>2 DEF Receivable
    <3>5. stocked'[i] = stocked[i] + entries[e].qty /\ received'[i] = received[i] + entries[e].qty
      BY <1>1, <1>2, <2>1, <3>3
    <3>. QED BY <1>2, <1>3, <2>0, <3>2, <3>4, <3>5
  <2>2. CASE i \notin touched
    BY <1>1, <1>3, <2>0, <2>2
  <2>. QED BY <2>1, <2>2
<1>6. FullyReceived(received', o) <=> Whole(o, stocked')
  <2>1. \A k \in Items : Owner[k] = o => received'[k] = stocked'[k]
    BY <1>2, <1>4
  <2>2. Lines(o) = {k \in Items : Owner[k] = o}
    BY <1>2 DEF Lines
  <2>. QED BY <1>1, <2>1, <2>2 DEF FullyReceived, Lines, Whole
<1>7. /\ \A p \in Orders \ {o} : order'[p] = order[p]
      /\ order'[o].status = s /\ \A p \in Orders : order'[p].paid = order[p].paid
  BY <1>1, <1>2 DEF TypeOK, Row
<1> HIDE DEF touched
<1>8. AllTell'
  <2>1. Tells(order'[o].status, o, stocked')
    BY <1>6, <1>7 DEF Tells, s
  <2>2. ASSUME NEW p \in Orders \ (deleted \cup {o}) PROVE Tells(order'[p].status, p, stocked')
    <3>1. \A k \in Items : Owner[k] = p => stocked'[k] = stocked[k]
      BY <1>4
    <3>2. Whole(p, stocked') <=> Whole(p, stocked)
      BY <3>1 DEF Whole
    <3>. QED BY <1>7, <3>1, <3>2 DEF CalmFacts, AllTell, Tells
  <2>. QED BY <1>1, <2>1, <2>2 DEF AllTell
<1>9. Shelved' /\ AllGone'
  BY <1>1, <1>2, <1>4, <1>7 DEF Shelved, CalmFacts, AllGone
<1>10. AllDecided'
  BY <1>1 DEF CalmFacts, AllDecided, workflow
<1>11. ~ Overlap' /\ AllFresh'
  BY <1>1, LastOneDone DEF CalmFacts, h
<1>12. AllSquared'
  <2>1. h.op \notin {"credit", "post"}
    BY <1>1
  <2>2. \A p \in Orders \ deleted : Squared(order[p], payments[p], posted[p])
    BY <1>1, <2>1, OnlyOne, NobodyOwes DEF CalmFacts, h
  <2>. QED BY <1>1, <1>7, <2>2 DEF AllSquared, Squared, money
<1>. QED BY <1>8, <1>9, <1>10, <1>11, <1>12 DEF CalmFacts

LEMMA CalmServe ==
    ASSUME OwnItemsOnly, TypeOK, TypeOK', CalmFacts, ~ Overlap', ~ Crash, ~ Twice, ~ Strays,
           NEW r \in Requests, Serve(r)
    PROVE  CalmFacts'
<1>1. ASSUME NEW entries \in Entries, Receive(r, entries) PROVE CalmFacts'
  <2>1. ListsOnce(entries)
    BY <1>1 DEF Twice, Strays, ListsOnce
  <2>. QED BY <1>1, <2>1, CalmReceive
<1>2. CASE \/ \E d \in Demands, op \in OnDemand : LoadDemand(r, op, d)
           \/ \E o \in Orders, op \in OnOrder, amount \in Amounts \cup {0} :
                 LoadOrder(r, op, o, amount)
  BY <1>2, CalmLoad
<1>3. CASE Submit(r) \/ Approve(r) \/ Reject(r) \/ \E o \in Orders : ConvertToPo(r, o)
  BY <1>3, CalmWorkflow
<1>4. CASE SavePayment(r) \/ CreditOrder(r) \/ PostPayment(r)
  BY <1>4, CalmPayment
<1>5. CASE Advance(r)
  BY <1>5, CalmAdvance
<1>6. CASE Edit(r)
  BY <1>6, CalmEdit
<1>7. CASE Abort(r)
  BY <1>7, CalmAbort
<1>. QED BY <1>1, <1>2, <1>3, <1>4, <1>5, <1>6, <1>7 DEF Serve

\* Deletions between requests: what goes takes nothing of the others with it.
LEMMA CalmDelete ==
    ASSUME TypeOK, TypeOK', CalmFacts, ~ Underfoot
    PROVE  /\ \A o \in Orders : DeleteOrder(o) => CalmFacts'
           /\ \A d \in Demands : DeleteDemand(d) => CalmFacts'
<1>1. ASSUME \/ \E o \in Orders : DeleteOrder(o)
             \/ \E d \in Demands : DeleteDemand(d)
      PROVE  /\ \A x \in Requests : handler[x] = Idle
             /\ ~ Overlap' /\ AllFresh'
             /\ \A o \in Orders \ deleted : Squared(order[o], payments[o], posted[o])
  <2>1. (\A x \in Requests : handler[x] = Idle) /\ handler' = handler
    BY <1>1 DEF Underfoot, DeleteOrder, DeleteDemand
  <2>2. ~ Overlap' /\ AllFresh'
    BY <2>1, IdleIsFresh DEF Overlap, AllFresh
  <2>3. \A x \in Requests : \A o : ~ Owing(handler[x], o)
    BY <2>1, IdleIsFresh
  <2>. QED BY <2>1, <2>2, <2>3 DEF CalmFacts, AllSquared
<1>2. ASSUME NEW o \in Orders, DeleteOrder(o) PROVE CalmFacts'
  <2>1. /\ deleted' = deleted \cup {o} /\ UNCHANGED <<workflow, stocked, strayed, posted, handler>>
        /\ order[o].status # None /\ order'[o] = NoRow
        /\ \A p \in Orders \ {o} : order'[p] = order[p] /\ payments'[p] = payments[p]
        /\ \A i \in Items : Owner[i] # o => received'[i] = received[i]
    BY <1>2 DEF DeleteOrder, Exists, TypeOK, Counts
  <2>3. ~ Overlap' /\ AllFresh' /\ \A p \in Orders \ deleted : Squared(order[p], payments[p], posted[p])
    BY <1>1, <1>2
  <2>4. AllDecided'
    BY <2>1 DEF CalmFacts, AllDecided, workflow
  <2>5. Shelved'
    BY <2>1 DEF CalmFacts, Shelved
  <2>6. AllTell' /\ AllGone'
    BY <2>1 DEF CalmFacts, AllTell, AllGone
  <2>7. AllSquared'
    BY <2>1, <2>3 DEF AllSquared
  <2>. QED BY <2>3, <2>4, <2>5, <2>6, <2>7 DEF CalmFacts
<1>3. ASSUME NEW d \in Demands, DeleteDemand(d) PROVE CalmFacts'
  <2>1. /\ deleted' = deleted \cup {d} /\ d \notin Orders
        /\ UNCHANGED <<approvals, rejections, ordersMade, order, goods, money, handler>>
        /\ demand'[d] = None /\ \A e \in Demands \ {d} : demand'[e] = demand[e]
    BY <1>3, PurchasingConstants DEF DeleteDemand, TypeOK
  <2>2. AllDecided'
    BY <2>1 DEF CalmFacts, AllDecided, Decided, None
  <2>3. Shelved' /\ AllTell' /\ AllGone'
    BY <2>1 DEF CalmFacts, Shelved, AllTell, AllGone, goods
  <2>4. AllSquared'
    BY <1>1, <1>3, <2>1 DEF AllSquared, money
  <2>. QED BY <1>1, <1>3, <2>2, <2>3, <2>4 DEF CalmFacts
<1>. QED BY <1>2, <1>3

\* Of requests served one at a time, none of them dying between the commits of a
\* payment, and of receipts that list their own order's items, once and as the product
\* ordered: of the orders that were not deleted, over-receiving is blocked and an
\* order's status tells what has arrived, overpayment is blocked and payment rows,
\* order and ledger agree, and a purchase request is decided once
\* (GoodsReceiptSerializer, PurchaseOrderViewSet.record_payment,
\* PurchaseRequestViewSet).
THEOREM CalmAddsUp ==
    ASSUME OwnItemsOnly
    PROVE  MCSpec => []CalmPaperworkAddsUp
<1>1. MCInit => CalmInv
  <2> SUFFICES ASSUME MCInit PROVE CalmInv
    OBVIOUS
  <2>1. TypeOK /\ Init
    BY InitType DEF MCInit
  <2>2. \A x \in Requests : handler[x] = Idle
    BY <2>1 DEF Init
  <2>3. ~ Overlap /\ AllFresh
    BY <2>2, IdleIsFresh DEF Overlap, AllFresh
  <2>4. AllDecided
    BY <2>1 DEF Init, AllDecided, Decided, None
  <2>5. Shelved /\ AllTell /\ AllGone
    BY <2>1, PurchasingConstants DEF Init, Zero, Shelved, AllTell, AllGone, Tells
  <2>6. AllSquared
    BY <2>1, PurchasingConstants DEF Init, NoRow, AllSquared, Squared
  <2>. QED BY <2>1, <2>3, <2>4, <2>5, <2>6 DEF CalmInv, CalmFacts
<1>2. CalmInv /\ [MCNext]_<<vars, calm>> => CalmInv'
  <2> SUFFICES ASSUME CalmInv, [MCNext]_<<vars, calm>> PROVE CalmInv'
    OBVIOUS
  <2>1. TypeOK'
    BY StepType DEF CalmInv, MCNext
  <2>2. CASE UNCHANGED <<vars, calm>>
    BY <2>1, <2>2 DEF CalmInv, CalmFacts, Overlap, AllDecided, Shelved, AllTell, AllGone,
          AllSquared, AllFresh, vars
  <2>3. CASE MCNext
    <3> SUFFICES ASSUME calm' PROVE CalmFacts'
      BY <2>1 DEF CalmInv
    <3>1. CalmFacts /\ TypeOK /\ ~ Overlap' /\ ~ Crash /\ ~ Twice /\ ~ Strays
          /\ ~ Underfoot /\ Next
      BY <2>3 DEF MCNext, CalmInv
    <3>. QED BY <2>1, <3>1, CalmServe, CalmCreate, CalmDelete DEF Next
  <2>. QED BY <2>2, <2>3
<1>3. CalmInv => CalmPaperworkAddsUp
  <2> SUFFICES ASSUME TypeOK, CalmFacts
               PROVE  NeverOverreceived /\ StatusTellsReceipts /\ SupplierNotOverpaid
                      /\ DecidedOnce
    BY DEF CalmInv, CalmPaperworkAddsUp
  <2>0. \A i \in Items : AsOrdered(i) = stocked[i]
    BY DEF CalmFacts, Shelved, AsOrdered, TypeOK, Counts
  <2>1. NeverOverreceived
    BY <2>0 DEF CalmFacts, Shelved, Lines, NeverOverreceived
  <2>2. StatusTellsReceipts
    <3> SUFFICES ASSUME NEW o \in Orders, \E i \in Lines(o) : stocked[i] > 0
                 PROVE  order[o].status = IF \A i \in Lines(o) : AsOrdered(i) >= Quantity[i]
                                          THEN "received" ELSE "partially_received"
      BY DEF StatusTellsReceipts
    <3>1. o \notin deleted /\ Lines(o) = {i \in Items : Owner[i] = o}
      BY DEF Lines
    <3>2. Tells(order[o].status, o, stocked)
      BY <3>1 DEF CalmFacts, AllTell
    <3>3. (\A i \in Lines(o) : AsOrdered(i) >= Quantity[i]) <=> Whole(o, stocked)
      BY <2>0, <3>1 DEF Whole
    <3>. QED BY <3>1, <3>2, <3>3 DEF Tells
  <2>3. DecidedOnce
    BY DEF CalmFacts, AllDecided, Decided, DecidedOnce, TypeOK, None
  <2>4. SupplierNotOverpaid
    <3> SUFFICES ASSUME NEW o \in Orders \ deleted
                 PROVE  /\ payments[o] <= Total
                        /\ (\A r \in Requests : handler[r].op \in {"credit", "post"}
                                                   => handler[r].doc # o) =>
                              order[o].paid = payments[o] /\ posted[o] = payments[o]
      BY DEF SupplierNotOverpaid
    <3>1. CASE \E r \in Requests : Owing(handler[r], o)
      BY <3>1 DEF CalmFacts, AllFresh, Fresh, Owing
    <3>2. CASE ~ \E r \in Requests : Owing(handler[r], o)
      BY <3>2 DEF CalmFacts, AllSquared, Squared, Owing
    <3>. QED BY <3>1, <3>2
  <2>. QED BY <2>1, <2>2, <2>3, <2>4
<1>. QED BY <1>1, <1>2, <1>3, PTL DEF MCSpec
=============================================================================
