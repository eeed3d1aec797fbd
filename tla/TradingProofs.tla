--------------------------- MODULE TradingProofs ---------------------------
(***************************************************************************)
(* Theorems of InvoicePayments, for any number of requests in flight, and  *)
(* of TradingDays, for any number of days, products, orders and users: the *)
(* reports against the journal, and the notices.                           *)
(***************************************************************************)
EXTENDS MCInvoicePayments, MCTradingDays, SumTheorems, SequenceTheorems

----------------------------------------------------------------------------
(* Type correctness.  TypeOK alone is not inductive: a handler that settles *)
(* an intent needs the intent to name an invoice.                          *)

Linked ==
    /\ \A n \in Intents : intent[n].status \in Settling => intent[n].invoice \in Invoices
    /\ \A r \in Requests : handler[r].op \in {"checkout", "settle", "fail"}
                               => handler[r].intent \in Intents

\* Every transaction belongs to a handler that has loaded its rows.
LEMMA LoadedHandler ==
    ASSUME TypeOK, NEW r \in Requests, handler[r].op # None
    PROVE  handler[r] \in Loaded /\ handler[r].invoice \in Invoices /\ handler[r].seen \in Row
BY DEF TypeOK, Idle, Loaded

LEMMA DoneType ==
    ASSUME TypeOK, Linked, NEW r \in Requests, Done(r)
    PROVE  /\ handler' \in [Requests -> Loaded \cup {Idle}]
           /\ \A x \in Requests : handler'[x].op \in {"checkout", "settle", "fail"}
                               => handler'[x].intent \in Intents
BY DEF TypeOK, Linked, Done, Idle, None

LEMMA LoadType ==
    ASSUME TypeOK, Linked, NEW r \in Requests, NEW i \in Invoices, NEW op \in Operations,
           NEW amount \in Amounts \cup {0}, Load(r, op, i, amount)
    PROVE  TypeOK' /\ Linked'
<1> DEFINE h == [op |-> op, invoice |-> i, seen |-> invoice[i],
                 intent |-> None, was |-> None, amount |-> amount]
<1>1. h \in Loaded
  BY PaymentConstants DEF TypeOK, Loaded, IntentStatus
<1>2. h.op \notin {"checkout", "settle", "fail"}
  BY PaymentConstants DEF Load
<1>3. handler' = [handler EXCEPT ![r] = h]
  BY DEF Load
<1> HIDE DEF h
<1>4. TypeOK'
  BY <1>1, <1>3 DEF Load, TypeOK, books
<1>5. Linked'
  BY <1>2, <1>3 DEF Load, Linked, TypeOK
<1>. QED BY <1>4, <1>5

LEMMA LoadIntentType ==
    ASSUME TypeOK, Linked, NEW r \in Requests, NEW op \in Operations, NEW n \in Intents,
           LoadIntent(r, op, n)
    PROVE  TypeOK' /\ Linked'
<1> DEFINE h == [op |-> op, invoice |-> intent[n].invoice, seen |-> invoice[intent[n].invoice],
                 intent |-> n, was |-> intent[n].status, amount |-> intent[n].amount]
<1>1. intent[n] \in IntentRow /\ intent[n].invoice \in Invoices
  BY DEF LoadIntent, Linked, TypeOK
<1>2. h \in Loaded /\ h.intent \in Intents
  BY <1>1 DEF TypeOK, Loaded, IntentRow
<1>3. handler' = [handler EXCEPT ![r] = h]
  BY DEF LoadIntent
<1> HIDE DEF h
<1>4. TypeOK'
  BY <1>2, <1>3 DEF LoadIntent, TypeOK, books
<1>5. Linked'
  BY <1>2, <1>3 DEF LoadIntent, Linked, TypeOK
<1>. QED BY <1>4, <1>5

LEMMA RecordPaymentType ==
    ASSUME TypeOK, NEW i \in Invoices, NEW seen \in Row, NEW amount \in Nat,
           RecordPayment(i, seen, amount)
    PROVE  /\ invoice' \in [Invoices -> Row] /\ collected' \in [Invoices -> Nat]
           /\ receivable' \in [Invoices -> Int] /\ confirmations' \in [Invoices -> Nat]
<1>1. Credit(seen, amount) \in Nat
  BY DEF Credit, Row
<1>2. StatusWhenPaid(i, Credit(seen, amount)) \in InvoiceStatus
  BY DEF StatusWhenPaid, InvoiceStatus, Open
<1>3. invoice' \in [Invoices -> Row]
  BY <1>1, <1>2 DEF RecordPayment, TypeOK, Row
<1>. QED BY <1>3 DEF RecordPayment, TypeOK

\* Moving an existing intent to another status keeps its invoice.
LEMMA IntentStatusType ==
    ASSUME TypeOK, Linked, NEW n \in Intents, intent[n].status \in Settling,
           NEW st \in Settling, intent' = [intent EXCEPT ![n].status = st]
    PROVE  /\ intent' \in [Intents -> IntentRow]
           /\ \A m \in Intents : intent'[m].status \in Settling => intent'[m].invoice \in Invoices
<1>1. st \in IntentStatus
  BY DEF IntentStatus
<1>2. intent' \in [Intents -> IntentRow]
  BY <1>1 DEF TypeOK, IntentRow
<1>3. \A m \in Intents : intent'[m].invoice = intent[m].invoice
                        /\ (m # n => intent'[m] = intent[m])
  BY DEF TypeOK, IntentRow
<1>. QED BY <1>2, <1>3 DEF Linked

LEMMA CommitType ==
    ASSUME TypeOK, Linked, NEW r \in Requests, Commit(r)
    PROVE  TypeOK' /\ Linked'
<1> DEFINE h == handler[r]
<1>1. CASE Confirm(r)
  <2>1. h.invoice \in Invoices
    BY <1>1, LoadedHandler DEF Confirm, None
  <2>2. Total[h.invoice] \in Nat
    BY <2>1, PaymentConstants
  <2>3. /\ invoice' \in [Invoices -> Row] /\ confirmations' \in [Invoices -> Nat]
        /\ receivable' \in [Invoices -> Int]
    BY <1>1, <2>1, <2>2 DEF Confirm, TypeOK, Row, InvoiceStatus, Open
  <2>. QED BY <1>1, <2>3, DoneType DEF Confirm, TypeOK, Linked
<1>2. CASE Pay(r)
  <2>1. h.invoice \in Invoices /\ h.seen \in Row /\ h.amount \in Nat
    BY <1>2, LoadedHandler DEF Pay, None, Loaded
  <2>2. RecordPayment(h.invoice, h.seen, h.amount) /\ Done(r)
        /\ UNCHANGED <<intent, settled, charged>>
    BY <1>2 DEF Pay
  <2> HIDE DEF h
  <2>. QED BY <2>1, <2>2, DoneType, RecordPaymentType DEF TypeOK, Linked
<1>3. CASE Settle(r)
  <2>1. h.invoice \in Invoices /\ h.seen \in Row /\ h.amount \in Nat /\ h.intent \in Intents
    BY <1>3, LoadedHandler DEF Settle, None, Loaded, Linked
  <2>2. /\ RecordPayment(h.invoice, h.seen, h.amount) /\ Done(r) /\ UNCHANGED charged
        /\ settled' = [settled EXCEPT ![h.intent] = settled[h.intent] + 1]
        /\ intent' = [intent EXCEPT ![h.intent].status = "succeeded"]
        /\ intent[h.intent].status \in Settling
    BY <1>3 DEF Settle
  <2> HIDE DEF h
  <2>3. settled' \in [Intents -> Nat]
    BY <2>1, <2>2 DEF TypeOK
  <2>4. /\ intent' \in [Intents -> IntentRow]
        /\ \A n \in Intents : intent'[n].status \in Settling => intent'[n].invoice \in Invoices
    BY <2>1, <2>2, IntentStatusType DEF Settling
  <2>. QED BY <2>1, <2>2, <2>3, <2>4, DoneType, RecordPaymentType DEF TypeOK, Linked
<1>4. CASE FailIntent(r) \/ Checkout(r)
  <2>1. h.intent \in Intents
    BY <1>4 DEF FailIntent, Checkout, Linked
  <2>2. /\ intent' \in [Intents -> IntentRow]
        /\ \A n \in Intents : intent'[n].status \in Settling => intent'[n].invoice \in Invoices
    <3>1. CASE FailIntent(r)
      BY <2>1, <3>1, IntentStatusType DEF FailIntent, Settling
    <3>2. CASE Checkout(r)
      BY <2>1, <3>2 DEF Checkout, TypeOK, IntentRow, Linked
    <3>. QED BY <1>4, <3>1, <3>2
  <2>. QED BY <1>4, <2>2, DoneType DEF FailIntent, Checkout, TypeOK, Linked, books
<1>5. CASE Edit(r)
  <2>1. h.invoice \in Invoices /\ h.seen \in Row
    BY <1>5, LoadedHandler DEF Edit, None
  <2>. QED BY <1>5, <2>1, DoneType DEF Edit, TypeOK, Linked, books
<1>6. CASE Delete(r)
  <2>1. h.invoice \in Invoices
    BY <1>6, LoadedHandler DEF Delete, None
  <2>2. invoice' \in [Invoices -> Row] /\ collected' \in [Invoices -> Nat]
    BY <1>6, <2>1 DEF Delete, TypeOK, Row
  <2>3. /\ intent' \in [Intents -> IntentRow]
        /\ \A n \in Intents : intent'[n].status \in Settling => intent'[n].invoice \in Invoices
    BY <1>6 DEF Delete, TypeOK, IntentRow, IntentStatus, Settling, Linked, None
  <2>. QED BY <1>6, <2>2, <2>3, DoneType DEF Delete, TypeOK, Linked
<1>7. ASSUME NEW n \in Intents, CreateIntent(r, n) PROVE TypeOK' /\ Linked'
  <2>1. h \in Loaded /\ h.invoice \in Invoices /\ h.amount \in Nat
    BY <1>7, LoadedHandler DEF CreateIntent, None, Loaded
  <2>2. /\ intent' = [intent EXCEPT ![n] = [status |-> "pending", invoice |-> h.invoice,
                                            amount |-> h.amount, url |-> FALSE]]
        /\ handler' = [handler EXCEPT ![r].op = "checkout", ![r].intent = n]
        /\ UNCHANGED <<invoice, books, settled, charged>>
    BY <1>7 DEF CreateIntent
  <2>3. /\ intent' \in [Intents -> IntentRow]
        /\ \A m \in Intents : intent'[m].status \in Settling => intent'[m].invoice \in Invoices
    BY <2>1, <2>2 DEF TypeOK, IntentRow, IntentStatus, Settling, Linked
  <2>4. handler' = [handler EXCEPT ![r] = [h EXCEPT !.op = "checkout", !.intent = n]]
    BY <2>2 DEF TypeOK
  <2>5. [h EXCEPT !.op = "checkout", !.intent = n] \in Loaded
    BY <2>1 DEF Loaded, Operations
  <2>6. handler' \in [Requests -> Loaded \cup {Idle}]
    BY <2>4, <2>5 DEF TypeOK
  <2>7. \A x \in Requests : handler'[x].op \in {"checkout", "settle", "fail"}
                               => handler'[x].intent \in Intents
    BY <2>1, <2>4 DEF TypeOK, Linked, Loaded
  <2>. QED BY <2>2, <2>3, <2>6, <2>7 DEF TypeOK, Linked, books
<1>. QED BY <1>1, <1>2, <1>3, <1>4, <1>5, <1>6, <1>7 DEF Commit

LEMMA StepType == TypeOK /\ Linked /\ [Next]_vars => TypeOK' /\ Linked'
<1> SUFFICES ASSUME TypeOK, Linked, [Next]_vars PROVE TypeOK' /\ Linked'
  OBVIOUS
<1>1. ASSUME NEW r \in Requests, Begin(r) PROVE TypeOK' /\ Linked'
  BY <1>1, LoadType, LoadIntentType DEF Begin
<1>2. ASSUME NEW r \in Requests, Abort(r) PROVE TypeOK' /\ Linked'
  BY <1>2, DoneType DEF Abort, TypeOK, Linked, books
<1>3. ASSUME NEW n \in Intents, PayerPays(n) PROVE TypeOK' /\ Linked'
  BY <1>3 DEF PayerPays, TypeOK, Linked, books
<1>4. CASE UNCHANGED vars
  BY <1>4 DEF vars, TypeOK, Linked
<1>. QED BY <1>1, <1>2, <1>3, <1>4, CommitType DEF Next

LEMMA InitType == Init => TypeOK /\ Linked
BY PaymentConstants DEF Init, TypeOK, Linked, Row, InvoiceStatus, IntentRow, IntentStatus,
   NoIntent, Settling, None, Idle

\* Every row, snapshot and intent stays within its type.
THEOREM TypeCorrect == Spec => [](TypeOK /\ Linked)
BY InitType, StepType, PTL DEF Spec

----------------------------------------------------------------------------
(* What survives every interleaving of any number of requests, as long as  *)
(* no invoice is deleted.  The invariant speaks of the snapshots in flight *)
(* as well as of the rows, because a handler writes its snapshot back.     *)

\* A version of an invoice row, stored or seen, never claims more than the
\* payment rows carry, and calls itself paid only with the total covered.
Sound(row, i, money) == /\ row.paid <= money
                        /\ row.status = "paid" => row.paid >= Total[i]

SoundRows == \A i \in Invoices : Sound(invoice[i], i, collected[i])
SoundSnapshots ==
    \A r \in Requests : handler[r].op # None =>
        /\ handler[r].op # "delete"
        /\ Sound(handler[r].seen, handler[r].invoice, collected[handler[r].invoice])

RaceInv == TypeOK /\ Linked /\ SoundRows /\ SoundSnapshots

\* Payment rows are only ever added, so a sound version stays sound.
LEMMA SoundStays ==
    ASSUME TypeOK, TypeOK', NEW i \in Invoices, NEW row \in Row, Sound(row, i, collected[i]),
           \A j \in Invoices : collected'[j] >= collected[j]
    PROVE  Sound(row, i, collected'[i])
BY PaymentConstants DEF Sound, Row, TypeOK

LEMMA SnapshotsStay ==
    ASSUME RaceInv, TypeOK', NEW r \in Requests, Done(r),
           \A j \in Invoices : collected'[j] >= collected[j]
    PROVE  SoundSnapshots'
<1> SUFFICES ASSUME NEW x \in Requests, handler'[x].op # None
             PROVE  /\ handler'[x].op # "delete"
                    /\ Sound(handler'[x].seen, handler'[x].invoice,
                             collected'[handler'[x].invoice])
  BY DEF SoundSnapshots
<1>1. handler'[x] = handler[x]
  BY DEF Done, TypeOK, RaceInv, Idle
<1>2. handler[x].seen \in Row /\ handler[x].invoice \in Invoices
  BY <1>1, LoadedHandler DEF RaceInv
<1>3. /\ handler[x].op # "delete"
      /\ Sound(handler[x].seen, handler[x].invoice, collected[handler[x].invoice])
  BY <1>1 DEF RaceInv, SoundSnapshots
<1>. QED BY <1>1, <1>2, <1>3, SoundStays DEF RaceInv, Sound

LEMMA RecordPaymentSound ==
    ASSUME RaceInv, TypeOK', NEW i \in Invoices, NEW seen \in Row, NEW amount \in Nat,
           Sound(seen, i, collected[i]), RecordPayment(i, seen, amount)
    PROVE  /\ \A j \in Invoices : collected'[j] >= collected[j]
           /\ SoundRows'
<1>1. /\ collected' = [collected EXCEPT ![i] = collected[i] + amount]
      /\ invoice' = [invoice EXCEPT ![i].paid = Credit(seen, amount),
                                    ![i].status = StatusWhenPaid(i, Credit(seen, amount))]
  BY DEF RecordPayment
<1>2. \A j \in Invoices : collected[j] \in Nat /\ invoice[j] \in Row /\ Total[j] \in Nat
  BY PaymentConstants DEF RaceInv, TypeOK
<1>3. \A j \in Invoices : collected'[j] >= collected[j]
  BY <1>1, <1>2 DEF RaceInv, TypeOK
<1>4. /\ invoice'[i].paid = Credit(seen, amount)
      /\ invoice'[i].status = StatusWhenPaid(i, Credit(seen, amount))
      /\ collected'[i] = collected[i] + amount
  BY <1>1 DEF RaceInv, TypeOK, Row
<1>5. Sound(invoice'[i], i, collected'[i])
  BY <1>2, <1>4 DEF Sound, Credit, StatusWhenPaid, Row
<1>6. ASSUME NEW j \in Invoices, j # i PROVE Sound(invoice'[j], j, collected'[j])
  <2>1. invoice'[j] = invoice[j] /\ collected'[j] = collected[j]
    BY <1>1, <1>6 DEF RaceInv, TypeOK
  <2>. QED BY <2>1 DEF RaceInv, SoundRows, Sound
<1>. QED BY <1>3, <1>5, <1>6 DEF SoundRows

\* Steps that leave rows and payments alone and load at most one snapshot.
LEMMA QuietSound ==
    ASSUME RaceInv, TypeOK', UNCHANGED <<invoice, collected>>, NEW r \in Requests,
           \A x \in Requests : x # r => handler'[x] = handler[x],
           handler'[r].op # None => /\ handler'[r].op # "delete"
                                    /\ Sound(handler'[r].seen, handler'[r].invoice,
                                             collected'[handler'[r].invoice])
    PROVE  SoundRows' /\ SoundSnapshots'
BY DEF RaceInv, SoundRows, SoundSnapshots, Sound

LEMMA CommitSound ==
    ASSUME RaceInv, TypeOK', NEW r \in Requests, Commit(r), "delete" \notin Mutations
    PROVE  SoundRows' /\ SoundSnapshots'
<1> DEFINE h == handler[r]
<1>0. ASSUME h.op # None
      PROVE  /\ h.invoice \in Invoices /\ h.seen \in Row /\ h.amount \in Nat
             /\ h.op # "delete" /\ Sound(h.seen, h.invoice, collected[h.invoice])
  BY <1>0, LoadedHandler DEF RaceInv, SoundSnapshots, Loaded
<1>1. CASE Confirm(r)
  <2>1. h.op # None /\ collected' = collected /\ Done(r) /\ Confirmable(h.seen)
        /\ invoice' = [invoice EXCEPT ![h.invoice].status = "confirmed"]
    BY <1>1 DEF Confirm, None
  <2>2. \A j \in Invoices : collected'[j] >= collected[j]
    BY <2>1 DEF RaceInv, TypeOK
  <2>3. \A j \in Invoices : /\ invoice'[j].paid = invoice[j].paid
                            /\ invoice'[j].status \in {invoice[j].status, "confirmed"}
    BY <2>1 DEF RaceInv, TypeOK, Row
  <2>4. SoundRows'
    BY <2>1, <2>3 DEF RaceInv, SoundRows, Sound
  <2>. QED BY <2>1, <2>2, <2>4, SnapshotsStay
<1>2. CASE Pay(r) \/ Settle(r)
  <2>1. h.op # None /\ RecordPayment(h.invoice, h.seen, h.amount) /\ Done(r)
    BY <1>2 DEF Pay, Settle, None
  <2>2. /\ h.invoice \in Invoices /\ h.seen \in Row /\ h.amount \in Nat
        /\ Sound(h.seen, h.invoice, collected[h.invoice])
    BY <1>0, <2>1
  <2> HIDE DEF h
  <2>3. SoundRows' /\ \A j \in Invoices : collected'[j] >= collected[j]
    BY <2>1, <2>2, RecordPaymentSound
  <2>. QED BY <2>1, <2>3, SnapshotsStay
<1>3. CASE FailIntent(r) \/ Checkout(r)
  <2>1. UNCHANGED <<invoice, collected>> /\ Done(r)
    BY <1>3 DEF FailIntent, Checkout, books
  <2>2. handler'[r] = Idle /\ \A x \in Requests : x # r => handler'[x] = handler[x]
    BY <2>1 DEF Done, RaceInv, TypeOK
  <2>. QED BY <2>1, <2>2, QuietSound DEF Idle
<1>4. CASE Edit(r)
  <2>1. h.op # None /\ collected' = collected /\ Done(r)
        /\ invoice' = [invoice EXCEPT ![h.invoice] = h.seen]
    BY <1>4 DEF Edit, books, None
  <2>2. SoundRows'
    BY <1>0, <2>1 DEF RaceInv, TypeOK, SoundRows, Sound
  <2>3. \A j \in Invoices : collected'[j] >= collected[j]
    BY <2>1 DEF RaceInv, TypeOK
  <2>. QED BY <2>1, <2>2, <2>3, SnapshotsStay
<1>5. CASE Delete(r)
  BY <1>0, <1>5 DEF Delete, None
<1>6. ASSUME NEW n \in Intents, CreateIntent(r, n) PROVE SoundRows' /\ SoundSnapshots'
  <2>1. /\ UNCHANGED <<invoice, collected>> /\ h.op # None
        /\ handler' = [handler EXCEPT ![r].op = "checkout", ![r].intent = n]
    BY <1>6 DEF CreateIntent, books, None
  <2>2. h \in Loaded
    BY <2>1, LoadedHandler DEF RaceInv
  <2>3. /\ handler'[r].op = "checkout" /\ handler'[r].seen = h.seen
        /\ handler'[r].invoice = h.invoice
        /\ \A x \in Requests : x # r => handler'[x] = handler[x]
    BY <2>1, <2>2 DEF RaceInv, TypeOK, Loaded
  <2>. QED BY <1>0, <2>1, <2>3, QuietSound
<1>. QED BY <1>1, <1>2, <1>3, <1>4, <1>5, <1>6 DEF Commit

LEMMA BeginSound ==
    ASSUME RaceInv, TypeOK', NEW r \in Requests, Begin(r), "delete" \notin Mutations
    PROVE  SoundRows' /\ SoundSnapshots'
<1>1. ASSUME NEW i \in Invoices, NEW op \in Operations, NEW amount \in Amounts \cup {0},
             Load(r, op, i, amount)
      PROVE  SoundRows' /\ SoundSnapshots'
  <2>1. /\ UNCHANGED <<invoice, collected>> /\ op # "delete"
        /\ handler'[r].op = op /\ handler'[r].seen = invoice[i] /\ handler'[r].invoice = i
        /\ \A x \in Requests : x # r => handler'[x] = handler[x]
    BY <1>1 DEF Load, books, RaceInv, TypeOK
  <2>. QED BY <2>1, QuietSound DEF RaceInv, SoundRows
<1>2. ASSUME NEW n \in Intents, NEW op \in Operations, LoadIntent(r, op, n)
      PROVE  SoundRows' /\ SoundSnapshots'
  <2>1. /\ UNCHANGED <<invoice, collected>> /\ op # "delete"
        /\ handler'[r].op = op /\ handler'[r].seen = invoice[intent[n].invoice]
        /\ handler'[r].invoice = intent[n].invoice
        /\ intent[n].invoice \in Invoices
        /\ \A x \in Requests : x # r => handler'[x] = handler[x]
    BY <1>2 DEF LoadIntent, books, RaceInv, TypeOK, Linked
  <2>. QED BY <2>1, QuietSound DEF RaceInv, SoundRows
<1>. QED BY <1>1, <1>2 DEF Begin

LEMMA StepSound ==
    "delete" \notin Mutations /\ RaceInv /\ [Next]_vars => RaceInv'
<1> SUFFICES ASSUME "delete" \notin Mutations, RaceInv, [Next]_vars PROVE RaceInv'
  OBVIOUS
<1>0. TypeOK' /\ Linked'
  BY StepType DEF RaceInv
<1>1. ASSUME NEW r \in Requests, Abort(r) PROVE SoundRows' /\ SoundSnapshots'
  <2>1. UNCHANGED <<invoice, collected>> /\ Done(r)
    BY <1>1 DEF Abort, books
  <2>2. handler'[r] = Idle /\ \A x \in Requests : x # r => handler'[x] = handler[x]
    BY <2>1 DEF Done, RaceInv, TypeOK
  <2>. QED BY <1>0, <2>1, <2>2, QuietSound DEF Idle
<1>2. ASSUME NEW n \in Intents, PayerPays(n) PROVE SoundRows' /\ SoundSnapshots'
  BY <1>2 DEF PayerPays, books, RaceInv, SoundRows, SoundSnapshots, Sound
<1>3. CASE UNCHANGED vars
  BY <1>0, <1>3 DEF vars, RaceInv, SoundRows, SoundSnapshots, Sound
<1>4. ASSUME NEW r \in Requests, Begin(r) \/ Commit(r) PROVE SoundRows' /\ SoundSnapshots'
  BY <1>0, <1>4, BeginSound, CommitSound
<1>. QED BY <1>0, <1>1, <1>2, <1>3, <1>4 DEF Next, RaceInv

\* Any number of concurrent confirmations, payments, settlements and edits may
\* lose updates of amount_paid, but never credit money that no payment row
\* carries, and never show an invoice as paid that is not.
THEOREM RacesNeverOvercredit ==
    ASSUME "delete" \notin Mutations
    PROVE  Spec => []CreditedIsCollected
<1>1. Init => RaceInv
  BY PaymentConstants DEF Init, RaceInv, TypeOK, Linked, Row, InvoiceStatus, IntentRow,
     IntentStatus, NoIntent, Settling, None, Idle, SoundRows, SoundSnapshots, Sound
<1>2. RaceInv /\ [Next]_vars => RaceInv'
  BY StepSound
<1>3. RaceInv => CreditedIsCollected
  BY PaymentConstants DEF RaceInv, SoundRows, Sound, CreditedIsCollected, TypeOK, Row
<1>. QED BY <1>1, <1>2, <1>3, PTL DEF Spec

----------------------------------------------------------------------------
(* What holds as long as requests do not overlap, deletions included: the  *)
(* only request in flight has seen the rows as they are.                   *)

\* An invoice agrees with its payment rows and the books; a draft owes nothing yet.
Booked(row, money, times, owed, total) ==
    /\ money <= total /\ times <= 1
    /\ row.exists =>
          /\ row.paid = money
          /\ owed = IF row.status = "draft" THEN 0 ELSE total - row.paid
          /\ row.status = "draft" => times = 0 /\ row.paid = 0

\* An intent has its one payment once it has succeeded, and none before.
Paired(status, times) ==
    /\ times <= 1
    /\ status \in {None, "pending", "failed"} => times = 0
    /\ status = "succeeded" => times = 1

Current(h, row, status) == /\ h.seen = row
                           /\ h.op \in {"settle", "fail"} => h.was = status

AllBooked == \A i \in Invoices :
    Booked(invoice[i], collected[i], confirmations[i], receivable[i], Total[i])
AllPaired == \A n \in Intents : Paired(intent[n].status, settled[n])
AllCurrent == \A r \in Requests : handler[r] # Idle =>
    Current(handler[r], invoice[handler[r].invoice], intent[handler[r].intent].status)

AloneInv == /\ TypeOK /\ Linked
            /\ "overlap" \notin past => ~ Overlap /\ AllBooked /\ AllPaired /\ AllCurrent

\* Once the request in flight has ended there is none.
LEMMA LastOneDone ==
    ASSUME TypeOK, ~ Overlap, NEW r \in Requests, handler[r] # Idle, Done(r)
    PROVE  AllCurrent'
BY DEF TypeOK, Overlap, Done, AllCurrent

LEMMA PaymentBooked ==
    ASSUME TypeOK, AllBooked, NEW i \in Invoices, NEW amount \in Nat,
           RecordPayment(i, invoice[i], amount)
    PROVE  AllBooked'
<1> DEFINE paid == Credit(invoice[i], amount)
           st == StatusWhenPaid(i, paid)
<1>1. /\ collected' = [collected EXCEPT ![i] = collected[i] + amount]
      /\ invoice' = [invoice EXCEPT ![i].paid = paid, ![i].status = st]
      /\ receivable' = [receivable EXCEPT ![i] = receivable[i] - amount]
      /\ confirmations' = confirmations
      /\ invoice[i].status \in Open /\ invoice[i].exists
      /\ invoice[i].paid + amount <= Total[i]
  BY DEF RecordPayment, Payable
<1>2. st # "draft" /\ paid = invoice[i].paid + amount
  BY DEF StatusWhenPaid, Credit
<1> HIDE DEF paid, st
<1>3. /\ invoice[i] \in Row /\ collected[i] \in Nat /\ receivable[i] \in Int /\ Total[i] \in Nat
      /\ Booked(invoice[i], collected[i], confirmations[i], receivable[i], Total[i])
  BY PaymentConstants DEF TypeOK, AllBooked
<1>4. /\ invoice'[i].exists = invoice[i].exists /\ invoice'[i].paid = paid /\ invoice'[i].status = st
      /\ collected'[i] = collected[i] + amount /\ receivable'[i] = receivable[i] - amount
      /\ confirmations'[i] = confirmations[i]
  BY <1>1 DEF TypeOK, Row
<1>5. invoice[i].status # "draft" /\ invoice[i].paid \in Nat
  BY <1>1, <1>3 DEF Open, Row
<1>6. Booked(invoice'[i], collected'[i], confirmations'[i], receivable'[i], Total[i])
  BY <1>1, <1>2, <1>3, <1>4, <1>5 DEF Booked
<1>7. \A j \in Invoices \ {i} : /\ invoice'[j] = invoice[j] /\ collected'[j] = collected[j]
                               /\ receivable'[j] = receivable[j]
                               /\ confirmations'[j] = confirmations[j]
  BY <1>1 DEF TypeOK
<1>. QED BY <1>6, <1>7 DEF AllBooked

LEMMA AloneCommit ==
    ASSUME TypeOK, Linked, TypeOK', ~ Overlap, AllBooked, AllPaired, AllCurrent,
           NEW r \in Requests, Commit(r)
    PROVE  AllBooked' /\ AllPaired' /\ AllCurrent'
<1> DEFINE h == handler[r]
<1>0. ASSUME h.op # None
      PROVE  /\ h # Idle /\ h \in Loaded /\ h.invoice \in Invoices /\ h.amount \in Nat
             /\ h.seen = invoice[h.invoice]
             /\ h.op \in {"settle", "fail"} => h.was = intent[h.intent].status
  BY <1>0, LoadedHandler DEF AllCurrent, Current, Loaded, Idle
<1>1. CASE Confirm(r)
  <2>1. /\ h.op # None /\ Done(r) /\ h.seen.status = "draft" /\ invoice[h.invoice].exists
        /\ invoice' = [invoice EXCEPT ![h.invoice].status = "confirmed"]
        /\ confirmations' = [confirmations EXCEPT ![h.invoice] = confirmations[h.invoice] + 1]
        /\ receivable' = [receivable EXCEPT ![h.invoice] = receivable[h.invoice] + Total[h.invoice]]
        /\ UNCHANGED <<collected, intent, settled>>
    BY <1>1 DEF Confirm, Confirmable, None
  <2>2. h.invoice \in Invoices /\ invoice[h.invoice].status = "draft"
    BY <1>0, <2>1
  <2>3. Booked(invoice'[h.invoice], collected'[h.invoice], confirmations'[h.invoice],
               receivable'[h.invoice], Total[h.invoice])
    <3>1. /\ invoice'[h.invoice].exists /\ invoice'[h.invoice].paid = invoice[h.invoice].paid
          /\ invoice'[h.invoice].status = "confirmed"
          /\ confirmations'[h.invoice] = confirmations[h.invoice] + 1
          /\ receivable'[h.invoice] = receivable[h.invoice] + Total[h.invoice]
          /\ collected'[h.invoice] = collected[h.invoice]
      BY <2>1, <2>2 DEF TypeOK, Row
    <3>2. Booked(invoice[h.invoice], collected[h.invoice], confirmations[h.invoice],
                 receivable[h.invoice], Total[h.invoice])
      BY <2>2 DEF AllBooked
    <3>3. Total[h.invoice] \in Nat /\ collected[h.invoice] \in Nat
      BY <2>2, PaymentConstants DEF TypeOK
    <3> HIDE DEF h
    <3>. QED BY <2>1, <2>2, <3>1, <3>2, <3>3 DEF Booked
  <2>4. \A j \in Invoices \ {h.invoice} :
           /\ invoice'[j] = invoice[j] /\ collected'[j] = collected[j]
           /\ receivable'[j] = receivable[j] /\ confirmations'[j] = confirmations[j]
    BY <2>1 DEF TypeOK
  <2>5. AllBooked'
    BY <2>3, <2>4 DEF AllBooked
  <2>6. AllPaired'
    BY <2>1 DEF AllPaired
  <2>. QED BY <1>0, <2>1, <2>5, <2>6, LastOneDone
<1>2. CASE Pay(r)
  <2>1. /\ h.op # None /\ RecordPayment(h.invoice, h.seen, h.amount) /\ Done(r)
        /\ UNCHANGED <<intent, settled>>
    BY <1>2 DEF Pay, None
  <2>2. RecordPayment(h.invoice, invoice[h.invoice], h.amount)
    BY <1>0, <2>1
  <2>3. h # Idle /\ h.invoice \in Invoices /\ h.amount \in Nat
    BY <1>0, <2>1
  <2>4. AllCurrent'
    BY <2>1, <2>3, LastOneDone
  <2> HIDE DEF h
  <2>5. AllBooked'
    BY <2>2, <2>3, PaymentBooked
  <2>. QED BY <2>1, <2>4, <2>5 DEF AllPaired
<1>3. CASE Settle(r)
  <2>1. /\ h.op = "settle" /\ h.op # None /\ RecordPayment(h.invoice, h.seen, h.amount) /\ Done(r)
        /\ h.was = "pending"
        /\ settled' = [settled EXCEPT ![h.intent] = settled[h.intent] + 1]
        /\ intent' = [intent EXCEPT ![h.intent].status = "succeeded"]
    BY <1>3 DEF Settle, Settleable, None
  <2>2. /\ RecordPayment(h.invoice, invoice[h.invoice], h.amount)
        /\ intent[h.intent].status = "pending"
    BY <1>0, <2>1
  <2>3. h # Idle /\ h.invoice \in Invoices /\ h.amount \in Nat /\ h.intent \in Intents
    BY <1>0, <2>1 DEF Linked
  <2>4. AllCurrent'
    BY <2>1, <2>3, LastOneDone
  <2> HIDE DEF h
  <2>5. AllBooked'
    BY <2>2, <2>3, PaymentBooked
  <2>6. settled[h.intent] = 0
    BY <2>2, <2>3 DEF AllPaired, Paired
  <2>7. settled'[h.intent] = 1 /\ intent'[h.intent].status = "succeeded"
    BY <2>1, <2>3, <2>6 DEF TypeOK, IntentRow
  <2>8. \A n \in Intents \ {h.intent} : settled'[n] = settled[n] /\ intent'[n] = intent[n]
    BY <2>1, <2>3 DEF TypeOK
  <2>9. AllPaired'
    BY <2>7, <2>8 DEF AllPaired, Paired, None
  <2>. QED BY <2>4, <2>5, <2>9
<1>4. CASE FailIntent(r)
  <2>1. /\ h.op = "fail" /\ h.op # None /\ h.was = "pending" /\ Done(r)
        /\ intent' = [intent EXCEPT ![h.intent].status = "failed"]
        /\ UNCHANGED <<invoice, collected, confirmations, receivable, settled>>
    BY <1>4 DEF FailIntent, None, books
  <2>2. h # Idle /\ h.intent \in Intents /\ intent[h.intent].status = "pending"
    BY <1>0, <2>1 DEF Linked
  <2>3. AllCurrent'
    BY <2>1, <2>2, LastOneDone
  <2>4. AllBooked'
    BY <2>1 DEF AllBooked
  <2>5. intent'[h.intent].status = "failed" /\ settled'[h.intent] = settled[h.intent]
        /\ \A n \in Intents \ {h.intent} : intent'[n] = intent[n] /\ settled'[n] = settled[n]
    BY <2>1, <2>2 DEF TypeOK, IntentRow
  <2>6. AllPaired'
    BY <2>2, <2>5 DEF AllPaired, Paired, None
  <2>. QED BY <2>3, <2>4, <2>6
<1>5. CASE Checkout(r)
  <2>1. /\ h.op = "checkout" /\ h.op # None /\ Done(r)
        /\ intent' = [intent EXCEPT ![h.intent].url = TRUE]
        /\ UNCHANGED <<invoice, collected, confirmations, receivable, settled>>
    BY <1>5 DEF Checkout, None, books
  <2>2. h # Idle /\ \A n \in Intents : intent'[n].status = intent[n].status
    BY <1>0, <2>1 DEF TypeOK, IntentRow
  <2>. QED BY <2>1, <2>2, LastOneDone DEF AllBooked, AllPaired
<1>6. CASE Edit(r)
  <2>1. /\ h.op # None /\ Done(r) /\ invoice' = [invoice EXCEPT ![h.invoice] = h.seen]
        /\ UNCHANGED <<collected, confirmations, receivable, intent, settled>>
    BY <1>6 DEF Edit, None, books
  <2>2. h # Idle /\ invoice' = invoice
    BY <1>0, <2>1 DEF TypeOK
  <2>. QED BY <2>1, <2>2, LastOneDone DEF AllBooked, AllPaired
<1>7. CASE Delete(r)
  <2>1. /\ h.op # None /\ Done(r)
        /\ invoice' = [invoice EXCEPT ![h.invoice].exists = FALSE]
        /\ collected' = [collected EXCEPT ![h.invoice] = 0]
        /\ UNCHANGED <<confirmations, receivable, settled>>
        /\ intent' = [n \in Intents |-> IF intent[n].invoice # h.invoice THEN intent[n]
                                        ELSE [intent[n] EXCEPT !.status = "deleted"]]
    BY <1>7 DEF Delete, None
  <2>2. h # Idle /\ h.invoice \in Invoices
    BY <1>0, <2>1
  <2>3. AllCurrent'
    BY <2>1, <2>2, LastOneDone
  <2> HIDE DEF h
  <2>4. AllBooked'
    <3>1. ~ invoice'[h.invoice].exists /\ collected'[h.invoice] = 0
      BY <2>1, <2>2 DEF TypeOK, Row
    <3>2. confirmations'[h.invoice] <= 1 /\ Total[h.invoice] >= 0
      BY <2>1, <2>2, PaymentConstants DEF AllBooked, Booked
    <3>3. \A j \in Invoices \ {h.invoice} :
             /\ invoice'[j] = invoice[j] /\ collected'[j] = collected[j]
             /\ receivable'[j] = receivable[j] /\ confirmations'[j] = confirmations[j]
      BY <2>1 DEF TypeOK
    <3>4. Booked(invoice'[h.invoice], collected'[h.invoice], confirmations'[h.invoice],
                 receivable'[h.invoice], Total[h.invoice])
      BY <3>1, <3>2 DEF Booked
    <3>. QED BY <3>3, <3>4 DEF AllBooked
  <2>5. AllPaired'
    <3> SUFFICES ASSUME NEW n \in Intents PROVE Paired(intent'[n].status, settled'[n])
      BY DEF AllPaired
    <3>1. intent'[n].status \in {intent[n].status, "deleted"} /\ settled'[n] = settled[n]
      BY <2>1 DEF TypeOK, IntentRow
    <3>. QED BY <3>1 DEF AllPaired, Paired, None
  <2>. QED BY <2>3, <2>4, <2>5
<1>8. ASSUME NEW n \in Intents, CreateIntent(r, n) PROVE AllBooked' /\ AllPaired' /\ AllCurrent'
  <2>1. /\ h.op # None /\ intent[n].status = None
        /\ intent' = [intent EXCEPT ![n] = [status |-> "pending", invoice |-> h.invoice,
                                            amount |-> h.amount, url |-> FALSE]]
        /\ handler' = [handler EXCEPT ![r].op = "checkout", ![r].intent = n]
        /\ UNCHANGED <<invoice, collected, confirmations, receivable, settled>>
    BY <1>8 DEF CreateIntent, None, books
  <2>2. /\ handler'[r].op = "checkout" /\ handler'[r].seen = h.seen
        /\ handler'[r].invoice = h.invoice
        /\ \A x \in Requests : x # r => handler'[x] = handler[x]
    BY <1>0, <2>1 DEF TypeOK, Loaded
  <2>3. \A x \in Requests : x # r => handler[x] = Idle
    BY <1>0, <2>1 DEF Overlap
  <2>4. AllCurrent'
    BY <1>0, <2>1, <2>2, <2>3 DEF AllCurrent, Current
  <2>5. AllPaired'
    BY <2>1 DEF AllPaired, Paired, TypeOK, None
  <2>. QED BY <2>1, <2>4, <2>5 DEF AllBooked
<1>. QED BY <1>1, <1>2, <1>3, <1>4, <1>5, <1>6, <1>7, <1>8 DEF Commit

LEMMA AloneBegin ==
    ASSUME TypeOK, Linked, TypeOK', ~ Overlap', AllBooked, AllPaired, AllCurrent,
           NEW r \in Requests, Begin(r)
    PROVE  AllBooked' /\ AllPaired' /\ AllCurrent'
<1>1. UNCHANGED <<invoice, collected, confirmations, receivable, intent, settled>>
  BY DEF Begin, Load, LoadIntent, books
<1>0. ASSUME NEW h \in Loaded, handler' = [handler EXCEPT ![r] = h]
      PROVE  handler'[r] = h /\ handler'[r] # Idle
  <2>1. handler'[r] = h
    BY <1>0 DEF TypeOK
  <2>2. h.op # None
    BY DEF Loaded, Operations, None
  <2>. QED BY <2>1, <2>2 DEF Idle
<1>3. /\ handler'[r] # Idle
      /\ Current(handler'[r], invoice[handler'[r].invoice], intent[handler'[r].intent].status)
  <2>1. ASSUME NEW i \in Invoices, NEW op \in Operations, NEW amount \in Amounts \cup {0},
               Load(r, op, i, amount)
        PROVE  /\ handler'[r] # Idle
               /\ Current(handler'[r], invoice[handler'[r].invoice], intent[handler'[r].intent].status)
    <3> DEFINE h == [op |-> op, invoice |-> i, seen |-> invoice[i],
                     intent |-> None, was |-> None, amount |-> amount]
    <3>1. h \in Loaded
      BY PaymentConstants DEF Loaded, TypeOK, IntentStatus
    <3>2. handler' = [handler EXCEPT ![r] = h] /\ op \notin {"settle", "fail"}
      BY <2>1, PaymentConstants DEF Load
    <3>3. h.invoice = i /\ h.seen = invoice[i] /\ h.op = op
      OBVIOUS
    <3> HIDE DEF h
    <3>4. handler'[r] = h /\ handler'[r] # Idle
      BY <3>1, <3>2, <1>0
    <3>. QED BY <3>2, <3>3, <3>4 DEF Current
  <2>2. ASSUME NEW n \in Intents, NEW op \in Operations, LoadIntent(r, op, n)
        PROVE  /\ handler'[r] # Idle
               /\ Current(handler'[r], invoice[handler'[r].invoice], intent[handler'[r].intent].status)
    <3> DEFINE h == [op |-> op, invoice |-> intent[n].invoice,
                     seen |-> invoice[intent[n].invoice], intent |-> n,
                     was |-> intent[n].status, amount |-> intent[n].amount]
    <3>1. intent[n] \in IntentRow /\ intent[n].invoice \in Invoices
      BY <2>2 DEF LoadIntent, Linked, TypeOK
    <3>2. h \in Loaded
      BY <3>1 DEF Loaded, TypeOK, IntentRow
    <3>3. handler' = [handler EXCEPT ![r] = h]
      BY <2>2 DEF LoadIntent
    <3>4. /\ h.invoice = intent[n].invoice /\ h.seen = invoice[h.invoice]
          /\ h.intent = n /\ h.was = intent[n].status
      OBVIOUS
    <3> HIDE DEF h
    <3>5. handler'[r] = h /\ handler'[r] # Idle
      BY <3>2, <3>3, <1>0
    <3>. QED BY <3>4, <3>5 DEF Current
  <2>. QED BY <2>1, <2>2 DEF Begin
<1>2. \A x \in Requests : x # r => handler'[x] = Idle
  BY <1>3 DEF Overlap
<1>4. AllCurrent'
  BY <1>1, <1>2, <1>3 DEF AllCurrent
<1>. QED BY <1>1, <1>4 DEF AllBooked, AllPaired

LEMMA AloneStep == AloneInv /\ [MCNext]_<<vars, past>> => AloneInv'
<1> SUFFICES ASSUME AloneInv, [MCNext]_<<vars, past>> PROVE AloneInv'
  OBVIOUS
<1>1. CASE UNCHANGED <<vars, past>>
  BY <1>1 DEF AloneInv, vars, TypeOK, Linked, Overlap, AllBooked, AllPaired, AllCurrent
<1>2. CASE MCNext
  <2>1. TypeOK' /\ Linked' /\ TypeOK /\ Linked
    BY <1>2, StepType DEF MCNext, AloneInv
  <2>2. SUFFICES ASSUME "overlap" \notin past'
                 PROVE  ~ Overlap' /\ AllBooked' /\ AllPaired' /\ AllCurrent'
    BY <2>1 DEF AloneInv
  <2>3. "overlap" \notin past /\ ~ Overlap'
    BY <1>2, <2>2 DEF MCNext, Happened
  <2>4. ~ Overlap /\ AllBooked /\ AllPaired /\ AllCurrent
    BY <2>3 DEF AloneInv
  <2>5. ASSUME NEW r \in Requests, Begin(r) \/ Commit(r) PROVE AllBooked' /\ AllPaired' /\ AllCurrent'
    BY <2>1, <2>3, <2>4, <2>5, AloneBegin, AloneCommit
  <2>6. ASSUME NEW r \in Requests, Abort(r) PROVE AllBooked' /\ AllPaired' /\ AllCurrent'
    BY <2>1, <2>4, <2>6, LastOneDone DEF Abort, books, AllBooked, AllPaired
  <2>7. ASSUME NEW n \in Intents, PayerPays(n) PROVE AllBooked' /\ AllPaired' /\ AllCurrent'
    BY <2>4, <2>7 DEF PayerPays, books, AllBooked, AllPaired, AllCurrent
  <2>. QED BY <1>2, <2>3, <2>5, <2>6, <2>7 DEF MCNext, Next
<1>. QED BY <1>1, <1>2

LEMMA AloneInit == MCInit => AloneInv
<1> SUFFICES ASSUME MCInit PROVE AloneInv
  OBVIOUS
<1>1. TypeOK /\ Linked
  BY InitType DEF MCInit
<1>2. ~ Overlap /\ AllCurrent
  BY DEF MCInit, Init, Overlap, AllCurrent
<1>3. AllBooked
  <2> SUFFICES ASSUME NEW i \in Invoices
               PROVE  Booked(invoice[i], collected[i], confirmations[i], receivable[i], Total[i])
    BY DEF AllBooked
  <2>1. /\ invoice[i].status = "draft" /\ invoice[i].paid = 0 /\ invoice[i].exists
        /\ collected[i] = 0 /\ confirmations[i] = 0 /\ receivable[i] = 0
    BY DEF MCInit, Init
  <2>2. Total[i] \in Nat
    BY PaymentConstants
  <2>. QED BY <2>1, <2>2 DEF Booked
<1>4. AllPaired
  BY DEF MCInit, Init, AllPaired, Paired, NoIntent, None
<1>. QED BY <1>1, <1>2, <1>3, <1>4 DEF AloneInv

\* Served one at a time, with edits, deletions, failed and repeated webhooks: payments
\* never exceed the total, an invoice is confirmed once, and its payment rows and the
\* books agree with it (InvoiceViewSet.confirm, record_invoice_payment).
THEOREM AloneTheBooksMatch == MCSpec => []AloneBooksMatchInvoice
<1>1. AloneInv => AloneBooksMatchInvoice
  BY DEF AloneInv, AloneBooksMatchInvoice, AllBooked, Booked, NeverOverpaid, BooksMatchInvoice
<1>. QED BY <1>1, AloneInit, AloneStep, PTL DEF MCSpec

\* Served one at a time, a webhook delivered twice is settled once
\* (confirm_payment_intent).
THEOREM AloneSettlesOnce == MCSpec => []AloneOnePaymentPerIntent
<1>1. AloneInv => AloneOnePaymentPerIntent
  BY DEF AloneInv, AloneOnePaymentPerIntent, AllPaired, Paired, OnePaymentPerIntent
<1>. QED BY <1>1, AloneInit, AloneStep, PTL DEF MCSpec

----------------------------------------------------------------------------
(* Several days of trading (TradingDays).                                  *)

----------------------------------------------------------------------------
(* What the tables hold.                                                   *)

LineSets == UNION {[S -> Nat \ {0}] : S \in SUBSET Products}
CostSets == UNION {[S -> Nat] : S \in SUBSET Products}
DocumentRows ==
    [kind : {"invoice", "pos"},
     status : {"draft", "confirmed", "partially_paid", "paid", "completed", "refunded", "deleted"},
     day : Nat, lines : LineSets, percent : 0..100, due : Nat, by : Users, cost : CostSets]
OutRows == [product : Products, qty : Nat, day : Nat, utc : Nat]
NoticeRows == [type : {"low_stock", "overdue", "system"}, ref : Products \cup Nat,
               to : Users \cup {Everyone}, read : BOOLEAN]
Debts == Nat \X Users
ScanRows == [todo : SUBSET Debts, adding : SUBSET Debts]

DocumentsOK ==
    /\ documents \in Seq(DocumentRows)
    /\ \A d \in DOMAIN documents : DOMAIN documents[d].cost = DOMAIN documents[d].lines
ItemsOK == items \in [Products -> [onHand : Nat, cost : Nat]]
OutsOK ==
    /\ outs \in Seq(OutRows)
    /\ \A i \in DOMAIN outs : outs[i].day <= today /\ outs[i].utc \in {outs[i].day - 1, outs[i].day}
CalendarOK == today \in Nat \ {0} /\ early \in BOOLEAN
ReceiptsOK == receipts \in Seq(Nat) /\ Len(receipts) = today

----------------------------------------------------------------------------
(* Sequences of sets.                                                      *)

LEMMA SetToSeqType ==
    ASSUME NEW S, IsFiniteSet(S)
    PROVE  /\ SetToSeq(S) \in Seq(S) /\ Len(SetToSeq(S)) = Cardinality(S)
           /\ \A i, j \in DOMAIN SetToSeq(S) : SetToSeq(S)[i] = SetToSeq(S)[j] => i = j
<1> DEFINE n == Cardinality(S)
           s == SetToSeq(S)
<1>1. n \in Nat /\ ExistsBijection(1..n, S)
  BY FS_CardinalityType
<1>2. PICK f : f \in Bijection(1..n, S)
  BY <1>1 DEF ExistsBijection
<1>3. f \in [1..n -> S] /\ IsInjective(f)
  BY <1>2 DEF Bijection, Injection
<1>4. s \in [1..n -> S] /\ IsInjective(s)
  BY <1>3 DEF SetToSeq
<1> HIDE DEF s
<1>5. s \in Seq(S) /\ Len(s) = n /\ DOMAIN s = 1..n
  BY <1>1, <1>4
<1>. QED BY <1>4, <1>5 DEF s, IsInjective

\* The values of a function on a finite set.
LEMMA FiniteImage ==
    ASSUME NEW S, IsFiniteSet(S), NEW f, NEW T, T = {f[x] : x \in S}
    PROVE  IsFiniteSet(T)
<1> DEFINE g == [x \in S |-> f[x]]
<1>1. g \in [S -> T] /\ \A t \in T : \E x \in S : g[x] = t
  OBVIOUS
<1> HIDE DEF g
<1>2. g \in Surjection(S, T)
  BY <1>1 DEF Surjection
<1>. QED BY <1>2, FS_Surjection

LEMMA LinesType ==
    ASSUME NEW lines \in LineSets
    PROVE  /\ DOMAIN lines \subseteq Products /\ IsFiniteSet(DOMAIN lines)
           /\ lines \in [DOMAIN lines -> Nat \ {0}]
<1>1. DOMAIN lines \subseteq Products /\ lines \in [DOMAIN lines -> Nat \ {0}]
  BY DEF LineSets
<1>. QED BY <1>1, DaysConstants, FS_Subset

LEMMA OrderLines ==
    ASSUME NEW o \in Orders PROVE o.lines \in LineSets
BY DaysConstants DEF LineSets

LEMMA OneLineType ==
    ASSUME NEW p \in Products, NEW q \in Nat \ {0}
    PROVE  [x \in {p} |-> q] \in LineSets /\ DOMAIN [x \in {p} |-> q] = {p}
<1>1. {p} \in SUBSET Products /\ [x \in {p} |-> q] \in [{p} -> Nat \ {0}]
  OBVIOUS
<1>2. DOMAIN [x \in {p} |-> q] = {p}
  OBVIOUS
<1>. QED BY <1>1, <1>2, Zenon DEF LineSets

LEMMA OrderFacts ==
    ASSUME NEW o \in Orders
    PROVE  /\ o.lines \in LineSets /\ DOMAIN o.lines \subseteq Products
           /\ o.percent \in 0..100 /\ o.by \in Users /\ o.term \in Nat
BY DaysConstants DEF LineSets

----------------------------------------------------------------------------
(* Each table stays within its type.                                       *)

LEMMA CalendarStep ==
    ASSUME CalendarOK, [DaysNext]_dayVars PROVE CalendarOK'
<1>1. CASE UNCHANGED dayVars
  BY <1>1 DEF CalendarOK, dayVars
<1>2. CASE Tick
  BY <1>2 DEF CalendarOK, Tick
<1>3. CASE Notify
  BY <1>3 DEF CalendarOK, Notify
<1>4. CASE Trade
  <2>1. UNCHANGED <<today, early>>
    BY <1>4 DEF Trade, DraftInvoice, RingUp, ConfirmInvoice, Refund, PayInvoice, Refused, Receive,
                    PutIn, TakeOut, Adjust, DeleteDocument, DeleteReceipt, ClosePeriod
  <2>. QED BY <2>1 DEF CalendarOK
<1>. QED BY <1>1, <1>2, <1>3, <1>4 DEF DaysNext

LEMMA StockOutItems ==
    ASSUME NEW lines \in LineSets, ItemsOK, StockOut(lines)
    PROVE  ItemsOK'
<1>1. lines \in [DOMAIN lines -> Nat \ {0}] /\ DOMAIN lines \subseteq Products
  BY LinesType
<1>2. \A p \in DOMAIN lines : items[p].onHand >= lines[p]
  BY DEF StockOut, Enough
<1>3. items' = [p \in Products |-> IF p \in DOMAIN lines
                   THEN [items[p] EXCEPT !.onHand = @ - lines[p]] ELSE items[p]]
  BY DEF StockOut
<1>4. ASSUME NEW p \in Products PROVE items'[p] \in [onHand : Nat, cost : Nat]
  <2>1. items[p] \in [onHand : Nat, cost : Nat]
    BY DEF ItemsOK
  <2>2. CASE p \in DOMAIN lines
    BY <1>1, <1>2, <1>3, <2>1, <2>2
  <2>3. CASE p \notin DOMAIN lines
    BY <1>3, <2>1, <2>3
  <2>. QED BY <2>2, <2>3
<1>. QED BY <1>3, <1>4 DEF ItemsOK

LEMMA AverageType ==
    ASSUME NEW a \in Nat, NEW b \in Nat, NEW c \in Nat \ {0}, NEW d \in Nat
    PROVE  (a * b + c * d) \div (a + c) \in Nat
<1>1. a * b \in Nat /\ c * d \in Nat
  OBVIOUS
<1>2. ASSUME NEW x \in Nat, NEW y \in Nat \ {0} PROVE x \div y \in Nat
  OBVIOUS
<1>. QED BY <1>1, <1>2

LEMMA StockInItems ==
    ASSUME NEW lines \in LineSets, NEW cost, cost \in [DOMAIN lines -> Nat], ItemsOK, StockIn(lines, cost)
    PROVE  ItemsOK'
<1>1. lines \in [DOMAIN lines -> Nat \ {0}] /\ DOMAIN lines \subseteq Products
  BY LinesType
<1>2. ASSUME NEW p \in Products PROVE items'[p] \in [onHand : Nat, cost : Nat]
  <2>1. items[p] \in [onHand : Nat, cost : Nat] /\ items[p].onHand \in Nat /\ items[p].cost \in Nat
    BY DEF ItemsOK
  <2>2. CASE p \in DOMAIN lines
    <3>1. lines[p] \in Nat \ {0} /\ cost[p] \in Nat
      BY <1>1, <2>2
    <3>2. Average(items[p], lines[p], cost[p]) \in Nat
      BY <2>1, <3>1, AverageType DEF Average
    <3>3. items'[p] = [onHand |-> items[p].onHand + lines[p], cost |-> Average(items[p], lines[p], cost[p])]
      BY <2>2 DEF StockIn
    <3>. QED BY <2>1, <3>1, <3>2, <3>3
  <2>3. CASE p \notin DOMAIN lines
    BY <2>1, <2>3 DEF StockIn
  <2>. QED BY <2>2, <2>3
<1>3. items' = [p \in Products |-> items'[p]]
  BY DEF StockIn
<1>. QED BY <1>2, <1>3 DEF ItemsOK

LEMMA DocumentType ==
    ASSUME CalendarOK, ItemsOK, NEW o \in Orders, NEW kind \in {"invoice", "pos"},
           NEW status \in {"draft", "completed"}
    PROVE  /\ Document(kind, status, o) \in DocumentRows
           /\ DOMAIN Document(kind, status, o).cost = DOMAIN Document(kind, status, o).lines
<1> DEFINE doc == Document(kind, status, o)
           S == DOMAIN o.lines
<1>1. o.lines \in LineSets /\ S \in SUBSET Products /\ o.percent \in 0..100 /\ o.by \in Users /\ o.term \in Nat
  BY OrderFacts
<1>2. doc.cost \in [S -> Nat]
  <2>1. CASE kind = "pos"
    <3>1. doc.cost = [p \in S |-> items[p].cost]
      BY <2>1, Zenon DEF Document, CostsNow
    <3>2. \A p \in S : items[p].cost \in Nat
      BY <1>1 DEF ItemsOK
    <3>. QED BY <3>1, <3>2
  <2>2. CASE kind # "pos"
    <3>1. doc.cost = [p \in S |-> 0]
      BY <2>2, Zenon DEF Document
    <3>. QED BY <3>1
  <2>. QED BY <2>1, <2>2
<1>3. doc.cost \in CostSets /\ DOMAIN doc.cost = S
  BY <1>1, <1>2 DEF CostSets
<1>4. doc = [kind |-> kind, status |-> status, day |-> today, lines |-> o.lines,
             percent |-> o.percent, due |-> today + o.term, by |-> o.by, cost |-> doc.cost]
  BY DEF Document
<1>5. today \in Nat /\ today + o.term \in Nat
  BY <1>1 DEF CalendarOK
<1> HIDE DEF doc
<1>6. doc \in DocumentRows /\ doc.lines = o.lines
  BY <1>1, <1>3, <1>4, <1>5 DEF DocumentRows
<1>. QED BY <1>3, <1>6 DEF doc

LEMMA StatusType ==
    ASSUME DocumentsOK, NEW d \in DOMAIN documents,
           NEW status \in {"confirmed", "partially_paid", "paid", "refunded", "deleted"},
           documents' = [documents EXCEPT ![d].status = status]
    PROVE  DocumentsOK'
<1>1. Len(documents) \in Nat /\ DOMAIN documents = 1..Len(documents)
      /\ \A i \in DOMAIN documents : documents[i] \in DocumentRows
  BY DEF DocumentsOK
<1> DEFINE row == [documents[d] EXCEPT !.status = status]
<1>2. row \in DocumentRows /\ row.cost = documents[d].cost /\ row.lines = documents[d].lines
  BY <1>1 DEF DocumentRows
<1>3. documents' = [documents EXCEPT ![d] = row]
  OBVIOUS
<1> HIDE DEF row
<1>4. documents' \in Seq(DocumentRows) /\ DOMAIN documents' = DOMAIN documents
  BY <1>1, <1>2, <1>3, ExceptSeq DEF DocumentsOK
<1>5. ASSUME NEW i \in DOMAIN documents' PROVE DOMAIN documents'[i].cost = DOMAIN documents'[i].lines
  <2>1. CASE i = d
    BY <1>1, <1>2, <1>3, <2>1 DEF DocumentsOK
  <2>2. CASE i # d
    BY <1>3, <1>4, <2>2 DEF DocumentsOK
  <2>. QED BY <2>1, <2>2
<1>. QED BY <1>4, <1>5 DEF DocumentsOK

LEMMA AppendedType ==
    ASSUME DocumentsOK, CalendarOK, ItemsOK, NEW o \in Orders, NEW kind \in {"invoice", "pos"},
           NEW status \in {"draft", "completed"},
           documents' = Append(documents, Document(kind, status, o))
    PROVE  DocumentsOK'
<1> DEFINE doc == Document(kind, status, o)
<1>1. doc \in DocumentRows /\ DOMAIN doc.cost = DOMAIN doc.lines
  BY DocumentType
<1>2. documents \in Seq(DocumentRows) /\ documents' = Append(documents, doc)
      /\ \A i \in DOMAIN documents : DOMAIN documents[i].cost = DOMAIN documents[i].lines
  BY DEF DocumentsOK
<1> HIDE DEF doc
<1>3. documents' \in Seq(DocumentRows) /\ DOMAIN documents' = 1..Len(documents) + 1
  BY <1>1, <1>2
<1>4. ASSUME NEW i \in DOMAIN documents' PROVE DOMAIN documents'[i].cost = DOMAIN documents'[i].lines
  <2>1. CASE i = Len(documents) + 1
    BY <1>1, <1>2, <2>1
  <2>2. CASE i # Len(documents) + 1
    <3>1. i \in DOMAIN documents
      BY <1>2, <1>3, <2>2
    <3>. QED BY <1>2, <3>1
  <2>. QED BY <2>1, <2>2
<1>. QED BY <1>3, <1>4 DEF DocumentsOK

LEMMA RowLines ==
    ASSUME DocumentsOK, NEW d \in DOMAIN documents
    PROVE  /\ documents[d].lines \in LineSets /\ documents[d].by \in Users
           /\ documents[d].cost \in [DOMAIN documents[d].lines -> Nat]
           /\ documents[d] \in DocumentRows
<1>1. documents[d] \in DocumentRows /\ DOMAIN documents[d].cost = DOMAIN documents[d].lines
  BY DEF DocumentsOK
<1>2. documents[d].cost \in CostSets /\ documents[d].lines \in LineSets /\ documents[d].by \in Users
  BY <1>1 DEF DocumentRows
<1>3. documents[d].cost \in [DOMAIN documents[d].cost -> Nat]
  BY <1>2 DEF CostSets
<1>. QED BY <1>1, <1>2, <1>3

LEMMA DocumentsStep ==
    ASSUME DocumentsOK, CalendarOK, ItemsOK, [DaysNext]_dayVars PROVE DocumentsOK'
<1>1. CASE UNCHANGED documents
  BY <1>1 DEF DocumentsOK
<1>2. ASSUME NEW o \in Orders, DraftInvoice(o) PROVE DocumentsOK'
  BY <1>2, AppendedType DEF DraftInvoice
<1>3. ASSUME NEW o \in Orders, RingUp(o) PROVE DocumentsOK'
  BY <1>3, AppendedType DEF RingUp
<1>4. ASSUME NEW d \in DOMAIN documents, ConfirmInvoice(d) PROVE DocumentsOK'
  BY <1>4, StatusType DEF ConfirmInvoice
<1>5. ASSUME NEW d \in DOMAIN documents, Refund(d) PROVE DocumentsOK'
  BY <1>5, StatusType DEF Refund
<1>6. ASSUME NEW d \in DOMAIN documents, NEW rest \in BOOLEAN, PayInvoice(d, rest) PROVE DocumentsOK'
  <2>1. documents' = [documents EXCEPT ![d].status = IF rest THEN "paid" ELSE "partially_paid"]
    BY <1>6 DEF PayInvoice
  <2>2. CASE rest
    BY <2>1, <2>2, StatusType
  <2>3. CASE ~rest
    BY <2>1, <2>3, StatusType
  <2>. QED BY <2>2, <2>3
<1>7. CASE Notify \/ Tick \/ UNCHANGED dayVars
  BY <1>1, <1>7 DEF Notify, Tick, dayVars, trade
<1>8. ASSUME NEW d \in DOMAIN documents, DeleteDocument(d) PROVE DocumentsOK'
  BY <1>8, StatusType DEF DeleteDocument
<1>9. CASE Trade
  BY <1>1, <1>2, <1>3, <1>4, <1>5, <1>6, <1>8, <1>9
     DEF Trade, Refused, Receive, PutIn, TakeOut, Adjust, DeleteReceipt, ClosePeriod, trade
<1>. QED BY <1>7, <1>9 DEF DaysNext

\* One product comes in, received or put in by hand.
LEMMA DeliveryItems ==
    ASSUME ItemsOK, NEW r \in Deliveries, StockIn([x \in {r.product} |-> r.qty], [x \in {r.product} |-> r.cost])
    PROVE  ItemsOK'
<1>1. r.product \in Products /\ r.qty \in Nat \ {0} /\ r.cost \in Nat
  BY DaysConstants
<1> DEFINE lines == [x \in {r.product} |-> r.qty]
           cost == [x \in {r.product} |-> r.cost]
<1>2. lines \in LineSets /\ DOMAIN lines = {r.product}
  BY <1>1, OneLineType
<1>3. cost \in [{r.product} -> Nat]
  BY <1>1
<1>4. StockIn(lines, cost)
  OBVIOUS
<1> HIDE DEF lines, cost
<1>. QED BY <1>2, <1>3, <1>4, StockInItems

LEMMA AdjustedItems ==
    ASSUME ItemsOK, NEW r \in Corrections, NEW by \in {r.qty, 0 - r.qty}, Adjust(r.product, by)
    PROVE  ItemsOK'
<1>1. r.product \in Products /\ by \in Int
  BY DaysConstants
<1>2. items[r.product].onHand \in Nat /\ items[r.product].cost \in Nat
  BY <1>1 DEF ItemsOK
<1> DEFINE row == [items[r.product] EXCEPT !.onHand = @ + by]
<1>3. items' = [items EXCEPT ![r.product] = row] /\ items[r.product].onHand + by >= 0
  BY DEF Adjust
<1>4. row \in [onHand : Nat, cost : Nat]
  <2>1. items[r.product] \in [onHand : Nat, cost : Nat] /\ items[r.product].onHand + by \in Nat
    BY <1>1, <1>2, <1>3 DEF ItemsOK
  <2>. QED BY <2>1
<1> HIDE DEF row
<1>. QED BY <1>3, <1>4 DEF ItemsOK

LEMMA ItemsStep ==
    ASSUME DocumentsOK, ItemsOK, [DaysNext]_dayVars PROVE ItemsOK'
<1>1. CASE UNCHANGED items
  BY <1>1 DEF ItemsOK
<1>2. ASSUME NEW o \in Orders, RingUp(o) PROVE ItemsOK'
  BY <1>2, OrderLines, StockOutItems DEF RingUp
<1>3. ASSUME NEW d \in DOMAIN documents, ConfirmInvoice(d) PROVE ItemsOK'
  BY <1>3, RowLines, StockOutItems DEF ConfirmInvoice
<1>4. ASSUME NEW d \in DOMAIN documents, Refund(d) PROVE ItemsOK'
  BY <1>4, RowLines, StockInItems DEF Refund
<1>5. ASSUME NEW r \in Deliveries, Receive(r.product, r.qty, r.cost) \/ PutIn(r.product, r.qty, r.cost)
      PROVE  ItemsOK'
  BY <1>5, DeliveryItems DEF Receive, PutIn
<1>6. ASSUME NEW r \in Corrections, TakeOut(r.product, r.qty) PROVE ItemsOK'
  <2>1. r.product \in Products /\ r.qty \in Nat \ {0}
    BY DaysConstants
  <2>. QED BY <1>6, <2>1, OneLineType, StockOutItems DEF TakeOut
<1>7. CASE Notify \/ Tick \/ UNCHANGED dayVars
  BY <1>1, <1>7 DEF Notify, Tick, dayVars, trade
<1>8. CASE Trade
  BY <1>1, <1>2, <1>3, <1>4, <1>5, <1>6, <1>8, AdjustedItems
     DEF Trade, DraftInvoice, PayInvoice, Refused, DeleteDocument, DeleteReceipt, ClosePeriod, trade
<1>. QED BY <1>7, <1>8 DEF DaysNext

----------------------------------------------------------------------------
(* Dead stock.                                                             *)

OutRow(lines, p) == [product |-> p, qty |-> lines[p], day |-> today,
                     utc |-> IF early THEN today - 1 ELSE today]

LEMMA StockOutOuts ==
    ASSUME NEW lines \in LineSets, OutsOK, CalendarOK, today' = today, StockOut(lines)
    PROVE  OutsOK'
<1> DEFINE T == {OutRow(lines, p) : p \in DOMAIN lines}
<1>1. lines \in [DOMAIN lines -> Nat \ {0}] /\ DOMAIN lines \subseteq Products /\ IsFiniteSet(DOMAIN lines)
  BY LinesType
<1>2. IsFiniteSet(T)
  <2> DEFINE f == [p \in DOMAIN lines |-> OutRow(lines, p)]
  <2>1. T = {f[p] : p \in DOMAIN lines}
    OBVIOUS
  <2> HIDE DEF f, T
  <2>. QED BY <1>1, <2>1, FiniteImage
<1>3. \A x \in T : x \in OutRows /\ x.day <= today /\ x.utc \in {x.day - 1, x.day}
  <2>1. ASSUME NEW p \in DOMAIN lines
        PROVE  LET x == OutRow(lines, p) IN x \in OutRows /\ x.day <= today /\ x.utc \in {x.day - 1, x.day}
    <3>1. p \in Products /\ lines[p] \in Nat /\ today \in Nat \ {0} /\ early \in BOOLEAN
      BY <1>1 DEF CalendarOK
    <3>. QED BY <3>1 DEF OutRow, OutRows
  <2>. QED BY <2>1
<1>4. outs' = outs \o SetToSeq(T)
  BY DEF StockOut, OutRow
<1>5. SetToSeq(T) \in Seq(T)
  BY <1>2, SetToSeqType
<1> DEFINE new == SetToSeq(T)
<1> HIDE DEF T, new
<1>6. new \in Seq(OutRows) /\ \A i \in DOMAIN new : new[i].day <= today /\ new[i].utc \in {new[i].day - 1, new[i].day}
  BY <1>3, <1>5 DEF new
<1>7. outs \in Seq(OutRows)
      /\ \A i \in DOMAIN outs : outs[i].day <= today /\ outs[i].utc \in {outs[i].day - 1, outs[i].day}
  BY DEF OutsOK
<1>8. outs' = outs \o new
  BY <1>4 DEF new
<1>9. outs' \in Seq(OutRows)
  BY <1>6, <1>7, <1>8
<1>10. ASSUME NEW i \in DOMAIN outs' PROVE outs'[i].day <= today /\ outs'[i].utc \in {outs'[i].day - 1, outs'[i].day}
  <2>1. CASE i \in DOMAIN outs
    <3>1. outs'[i] = outs[i]
      BY <1>6, <1>7, <1>8, <2>1
    <3>. QED BY <1>7, <2>1, <3>1
  <2>2. CASE i \notin DOMAIN outs
    <3>1. i - Len(outs) \in DOMAIN new /\ outs'[i] = new[i - Len(outs)]
      BY <1>6, <1>7, <1>8, <2>2
    <3>. QED BY <1>6, <3>1
  <2>. QED BY <2>1, <2>2
<1>. QED BY <1>9, <1>10 DEF OutsOK

LEMMA OutsStep ==
    ASSUME DocumentsOK, OutsOK, CalendarOK, [DaysNext]_dayVars PROVE OutsOK'
<1>1. CASE UNCHANGED <<outs, today>>
  BY <1>1 DEF OutsOK
<1>2. ASSUME NEW o \in Orders, RingUp(o) PROVE OutsOK'
  BY <1>2, OrderLines, StockOutOuts DEF RingUp
<1>3. ASSUME NEW d \in DOMAIN documents, ConfirmInvoice(d) PROVE OutsOK'
  BY <1>3, RowLines, StockOutOuts DEF ConfirmInvoice
<1>4. ASSUME NEW r \in Corrections, TakeOut(r.product, r.qty) PROVE OutsOK'
  <2>1. r.product \in Products /\ r.qty \in Nat \ {0}
    BY DaysConstants
  <2>. QED BY <1>4, <2>1, OneLineType, StockOutOuts DEF TakeOut
<1>5. CASE Tick
  <2>1. outs' = outs /\ today' \in Nat /\ today' >= today /\ today \in Nat
    BY <1>5 DEF Tick, CalendarOK
  <2>2. \A i \in DOMAIN outs : outs[i].day \in Nat /\ outs[i].day <= today
    <3>1. \A i \in DOMAIN outs : outs[i] \in OutRows
      BY DEF OutsOK
    <3>. QED BY <3>1 DEF OutsOK, OutRows
  <2>. QED BY <2>1, <2>2 DEF OutsOK
<1>6. CASE Notify \/ UNCHANGED dayVars
  BY <1>1, <1>6 DEF Notify, dayVars, trade
<1>7. CASE Trade
  BY <1>1, <1>2, <1>3, <1>4, <1>7 DEF Trade, DraftInvoice, Refund, Receive, PayInvoice, Refused,
     PutIn, Adjust, DeleteDocument, DeleteReceipt, ClosePeriod, trade
<1>. QED BY <1>5, <1>6, <1>7 DEF DaysNext

\* A finite set of integers that is not empty has a largest member.
LEMMA LargestExists ==
    ASSUME NEW S, IsFiniteSet(S), S \subseteq Int, S # {}
    PROVE  Max(S) \in S /\ \A y \in S : Max(S) >= y
<1> DEFINE Tops(w, x) == x \in w /\ \A y \in w : x >= y
           T == {w \in SUBSET S : w # {} /\ ~ \E x \in w : Tops(w, x)}
<1>1. ASSUME T # {} PROVE FALSE
  <2>1. PICK u \in T : \A z \in u : u \ {z} \notin T
    <3>1. T \subseteq SUBSET S
      OBVIOUS
    <3>. QED BY <1>1, <3>1, SmallestSubset
  <2>2. u \subseteq Int /\ u \in SUBSET S /\ ~ \E x \in u : Tops(u, x)
    OBVIOUS
  <2>3. PICK z \in u : TRUE
    OBVIOUS
  <2>4. CASE u \ {z} = {}
    <3>1. Tops(u, z)
      BY <2>2, <2>3, <2>4
    <3>. QED BY <2>2, <2>3, <3>1
  <2>5. CASE u \ {z} # {}
    <3>1. PICK m \in u \ {z} : Tops(u \ {z}, m)
      BY <2>1, <2>2, <2>3, <2>5
    <3>2. m \in Int /\ z \in Int
      BY <2>2, <2>3
    <3>3. CASE m >= z
      <4>1. Tops(u, m)
        BY <3>1, <3>3
      <4>. QED BY <2>2, <3>1, <4>1
    <3>4. CASE z > m
      <4>1. Tops(u, z)
        BY <2>2, <2>3, <3>1, <3>2, <3>4
      <4>. QED BY <2>2, <2>3, <4>1
    <3>. QED BY <3>2, <3>3, <3>4
  <2>. QED BY <2>4, <2>5
<1>2. \E x \in S : \A y \in S : x >= y
  BY <1>1
<1>. QED BY <1>2 DEF Max

LEMMA DeadStockHolds ==
    ASSUME OutsOK, CalendarOK PROVE DeadStockIsIdle
<1> SUFFICES ASSUME NEW n \in 0..today, NEW p \in Products
    PROVE  LET moved(first) == \E i \in DOMAIN outs : outs[i].product = p /\ outs[i].day >= first
           IN  /\ p \in DeadStock(items, outs, today, n) => ~moved(today - n + 1)
               /\ items[p].onHand > 0 /\ ~moved(today - n) => p \in DeadStock(items, outs, today, n)
  BY DEF DeadStockIsIdle
<1> DEFINE J == {j \in DOMAIN outs : outs[j].product = p}
           D == {outs[i].utc : i \in J}
<1>1. today \in Nat \ {0} /\ n \in Nat /\ outs \in Seq(OutRows)
  BY DEF OutsOK, CalendarOK
<1>2. \A i \in DOMAIN outs : outs[i].day \in Nat /\ outs[i].utc \in Nat /\ outs[i].utc \in {outs[i].day - 1, outs[i].day}
  <2>1. \A i \in DOMAIN outs : outs[i] \in OutRows
    BY DEF OutsOK
  <2>. QED BY <2>1 DEF OutsOK, OutRows
<1>3. IsFiniteSet(J)
  <2>1. IsFiniteSet(1..Len(outs)) /\ DOMAIN outs = 1..Len(outs)
    BY <1>1, FS_Interval
  <2>. QED BY <2>1, FS_Subset
<1>4. IsFiniteSet(D) /\ D \subseteq Int
  <2> DEFINE f == [i \in J |-> outs[i].utc]
  <2>1. D = {f[i] : i \in J}
    <3>1. \A i \in J : f[i] = outs[i].utc
      OBVIOUS
    <3> HIDE DEF f, J
    <3>. QED BY <3>1
  <2>2. D \subseteq Int
    <3>1. \A i \in J : outs[i].utc \in Int
      BY <1>2
    <3> HIDE DEF J
    <3>. QED BY <3>1
  <2> HIDE DEF f, D, J
  <2>. QED BY <1>3, <2>1, <2>2, FiniteImage
<1>5. LastOut(outs, p) = Max(D)
  BY DEF LastOut
<1>6. D # {} => Max(D) \in D /\ \A y \in D : Max(D) >= y
  BY <1>4, LargestExists
<1>7. ASSUME p \in DeadStock(items, outs, today, n), NEW i \in DOMAIN outs,
             outs[i].product = p, outs[i].day >= today - n + 1
      PROVE  FALSE
  <2>1. Max(D) < today - n
    BY <1>5, <1>7 DEF DeadStock
  <2>2. outs[i].utc \in D
    BY <1>7
  <2>3. Max(D) >= outs[i].utc /\ Max(D) \in Int
    BY <1>4, <1>6, <2>2
  <2> DEFINE m == Max(D)
             u == outs[i].utc
             d == outs[i].day
  <2>4. today \in Int /\ n \in Int /\ m \in Int /\ m < today - n /\ m >= u
    BY <1>1, <2>1, <2>3
  <2>5. d \in Int /\ u \in {d - 1, d} /\ d >= today - n + 1
    BY <1>2, <1>7
  <2> HIDE DEF m, u, d
  <2>. QED BY ONLY <2>4, <2>5
<1>8. ASSUME items[p].onHand > 0, ~ \E i \in DOMAIN outs : outs[i].product = p /\ outs[i].day >= today - n
      PROVE  p \in DeadStock(items, outs, today, n)
  <2>1. ASSUME \E i \in DOMAIN outs : outs[i].product = p PROVE Max(D) < today - n
    <3>1. D # {}
      BY <2>1
    <3>2. PICK i \in DOMAIN outs : outs[i].product = p /\ Max(D) = outs[i].utc
      BY <1>6, <3>1
    <3> HIDE DEF D
    <3>. QED BY <1>1, <1>2, <1>8, <3>2
  <2>. QED BY <1>5, <1>8, <2>1 DEF DeadStock
<1>. QED BY <1>7, <1>8

----------------------------------------------------------------------------
(* Notices.                                                                *)

NoticesTyped ==
    /\ notices \in Seq(NoticeRows) /\ online \subseteq Users
    /\ scans \in [Scanners -> ScanRows]

LEMMA NewNoticeType ==
    ASSUME NEW type \in {"low_stock", "overdue", "system"}, NEW ref \in Products \cup Nat,
           NEW to \in Users \cup {Everyone}
    PROVE  NewNotice(type, ref, to) \in NoticeRows
BY DEF NewNotice, NoticeRows

\* The alerts of a stock movement: one per product that gets low and has no
\* unread alert.
LEMMA LowAlertsFacts ==
    ASSUME NEW lines \in LineSets, NEW S \in SUBSET DOMAIN lines
    PROVE  LET new == LowAlerts(lines, S)
           IN  /\ new \in Seq(NoticeRows)
               /\ \A k \in DOMAIN new : new[k].type = "low_stock" /\ ~new[k].read
                                        /\ ~Pending("low_stock", new[k].ref)
               /\ \A j, k \in DOMAIN new : new[j].ref = new[k].ref => j = k
<1> DEFINE Q == {q \in S : items[q].onHand - lines[q] <= ReorderLevel /\ ~Pending("low_stock", q)}
           T == {NewNotice("low_stock", p, Everyone) : p \in Q}
           new == SetToSeq(T)
<1>1. LowAlerts(lines, S) = new
  BY DEF LowAlerts
<1>2. Q \subseteq Products /\ IsFiniteSet(Q)
  BY LinesType, FS_Subset
<1>3. \A p \in Q : ~Pending("low_stock", p)
  OBVIOUS
<1> HIDE DEF Q
<1>4. IsFiniteSet(T)
  <2> DEFINE f == [p \in Q |-> NewNotice("low_stock", p, Everyone)]
  <2>1. T = {f[p] : p \in Q}
    OBVIOUS
  <2> HIDE DEF f, T
  <2>. QED BY <1>2, <2>1, FiniteImage
<1>5. \A x \in T : x \in NoticeRows /\ x.type = "low_stock" /\ ~x.read /\ ~Pending("low_stock", x.ref)
  <2>1. ASSUME NEW p \in Q
        PROVE  LET x == NewNotice("low_stock", p, Everyone)
               IN  x \in NoticeRows /\ x.type = "low_stock" /\ ~x.read /\ x.ref = p
    BY <1>2 DEF NewNotice, NoticeRows
  <2>. QED BY <1>3, <2>1
<1>6. \A x, y \in T : x.ref = y.ref => x = y
  <2>1. \A p \in Q : NewNotice("low_stock", p, Everyone).ref = p
    BY DEF NewNotice
  <2>2. ASSUME NEW x \in T PROVE x = NewNotice("low_stock", x.ref, Everyone)
    BY <2>1, Zenon
  <2>. QED BY <2>2, Zenon
<1> HIDE DEF T
<1>7. new \in Seq(T) /\ \A j, k \in DOMAIN new : new[j] = new[k] => j = k
  BY <1>4, SetToSeqType
<1> HIDE DEF new
<1>8. new \in Seq(NoticeRows)
  BY <1>5, <1>7
<1>9. \A k \in DOMAIN new : new[k] \in T
  BY <1>7
<1>. QED BY <1>1, <1>5, <1>6, <1>7, <1>8, <1>9

\* How a step may treat the rows and what is heard of them.
Unheard == UNCHANGED <<notices, heard>>
Marked == \E S : Read(S) /\ UNCHANGED heard
Told == \E new \in Seq(NoticeRows) : Create(new, TRUE)

LEMMA NoticeSteps ==
    ASSUME DocumentsOK, NoticesTyped, [DaysNext]_dayVars
    PROVE  Unheard \/ Marked \/ Told
<1>1. ASSUME NEW lines \in LineSets, StockOut(lines) PROVE Told
  <2>1. LowAlerts(lines, DOMAIN lines) \in Seq(NoticeRows)
    BY LowAlertsFacts
  <2>. QED BY <1>1, <2>1, Zenon DEF StockOut, Told
<1>2. ASSUME NEW o \in Orders, RingUp(o) PROVE Told
  BY <1>1, <1>2, OrderLines DEF RingUp
<1>3. ASSUME NEW d \in DOMAIN documents, ConfirmInvoice(d) PROVE Told
  BY <1>1, <1>3, RowLines DEF ConfirmInvoice
<1>4. ASSUME NEW r \in Corrections, TakeOut(r.product, r.qty) PROVE Told
  <2>1. r.product \in Products /\ r.qty \in Nat \ {0}
    BY DaysConstants
  <2>. QED BY <1>1, <1>4, <2>1, OneLineType DEF TakeOut
<1>5. ASSUME NEW lines, NEW done, Refused(lines, done) PROVE Unheard
  BY <1>5 DEF Refused, Create, RunHooks, Unheard
<1>6. ASSUME NEW note \in NoticeRows, Create(<<note>>, TRUE) PROVE Told
  <2>1. <<note>> \in Seq(NoticeRows)
    OBVIOUS
  <2>. QED BY <1>6, <2>1, Zenon DEF Told
<1>7. ASSUME NEW d \in DOMAIN documents, PortalActs(d, documents[d].by) PROVE Told
  <2>1. documents[d].by \in Users /\ d \in Nat
    BY RowLines DEF DocumentsOK
  <2>2. NewNotice("system", d, documents[d].by) \in NoticeRows
    BY <2>1, NewNoticeType
  <2>. QED BY <1>6, <1>7, <2>2 DEF PortalActs
<1>8. ASSUME NEW s \in Scanners, NEW o \in scans[s].adding, AddReminder(s, o) PROVE Told
  <2>1. scans[s] \in ScanRows
    BY DEF NoticesTyped
  <2>2. o[1] \in Nat /\ o[2] \in Users
    BY <2>1 DEF ScanRows, Debts
  <2>3. NewNotice("overdue", o[1], o[2]) \in NoticeRows
    BY <2>2, NewNoticeType
  <2>. QED BY <1>6, <1>8, <2>3 DEF AddReminder
<1>9. CASE UNCHANGED noticeVars
  BY <1>9 DEF noticeVars, Unheard
<1>10. CASE Tick \/ UNCHANGED dayVars
  BY <1>9, <1>10 DEF Tick, dayVars
<1>11. CASE Trade
  BY <1>2, <1>3, <1>4, <1>5, <1>9, <1>11 DEF Trade, DraftInvoice, PayInvoice, Refund, Receive,
     PutIn, Adjust, DeleteDocument, DeleteReceipt, ClosePeriod
<1>12. CASE Notify
  <2>1. ASSUME NEW u \in Users, Connect(u) \/ Disconnect(u) PROVE Unheard
    BY <2>1 DEF Connect, Disconnect, Unheard
  <2>2. ASSUME NEW u \in Users, MarkAllRead(u) PROVE Marked
    BY <2>2 DEF MarkAllRead, Marked
  <2>3. ASSUME NEW u \in Users, NEW i \in DOMAIN notices, MarkRead(u, i) PROVE Marked
    BY <2>3 DEF MarkRead, Marked
  <2>4. ASSUME NEW s \in Scanners, StartScan(s, Overdue) \/ ScanDies(s) PROVE Unheard
    BY <2>4 DEF StartScan, ScanDies, Unheard
  <2>5. ASSUME NEW s \in Scanners, NEW o \in scans[s].todo, Look(s, o) PROVE Unheard
    BY <2>5 DEF Look, Unheard
  <2>. QED BY <1>7, <1>8, <1>12, <2>1, <2>2, <2>3, <2>4, <2>5 DEF Notify
<1>. QED BY <1>10, <1>11, <1>12 DEF DaysNext

LEMMA MarkedRows ==
    ASSUME notices \in Seq(NoticeRows), NEW S, Read(S)
    PROVE  /\ notices' \in Seq(NoticeRows) /\ DOMAIN notices' = DOMAIN notices
           /\ \A i \in DOMAIN notices : /\ notices'[i].type = notices[i].type
                                        /\ notices'[i].ref = notices[i].ref
                                        /\ notices'[i].to = notices[i].to
                                        /\ ~notices'[i].read => ~notices[i].read
<1>1. notices' = [i \in DOMAIN notices |-> [notices[i] EXCEPT !.read = @ \/ i \in S]]
  BY DEF Read
<1>2. Len(notices) \in Nat /\ DOMAIN notices = 1..Len(notices) /\ \A i \in DOMAIN notices : notices[i] \in NoticeRows
  OBVIOUS
<1>3. ASSUME NEW i \in DOMAIN notices
      PROVE  /\ notices'[i] \in NoticeRows
             /\ notices'[i].type = notices[i].type /\ notices'[i].ref = notices[i].ref
             /\ notices'[i].to = notices[i].to /\ (~notices'[i].read => ~notices[i].read)
  BY <1>1, <1>2 DEF NoticeRows
<1>4. notices' = [i \in 1..Len(notices) |-> notices'[i]]
  BY <1>1, <1>2
<1>5. notices' \in Seq(NoticeRows) /\ DOMAIN notices' = DOMAIN notices
  BY <1>2, <1>3, <1>4
<1>. QED BY <1>3, <1>5

LEMMA ToldRows ==
    ASSUME notices \in Seq(NoticeRows), NEW new \in Seq(NoticeRows), Create(new, TRUE)
    PROVE  /\ notices' \in Seq(NoticeRows) /\ Len(notices') = Len(notices) + Len(new)
           /\ \A i \in DOMAIN notices : i \in DOMAIN notices' /\ notices'[i] = notices[i]
           /\ \A k \in DOMAIN new : Len(notices) + k \in DOMAIN notices' /\ notices'[Len(notices) + k] = new[k]
           /\ \A i \in DOMAIN notices' : i \in DOMAIN notices \/ i - Len(notices) \in DOMAIN new
           /\ heard' = heard \cup UNION {Announced(Len(notices) + k, new[k]) : k \in DOMAIN new}
<1>1. notices' = notices \o new
  BY DEF Create
<1>2. heard' = heard \cup UNION {Announced(Len(notices) + k, new[k]) : k \in DOMAIN new}
  BY DEF Create, RunHooks
<1>3. Len(notices) \in Nat /\ Len(new) \in Nat /\ DOMAIN notices = 1..Len(notices) /\ DOMAIN new = 1..Len(new)
  OBVIOUS
<1>4. notices' \in Seq(NoticeRows) /\ Len(notices') = Len(notices) + Len(new)
  BY <1>1
<1>5. DOMAIN notices' = 1..Len(notices) + Len(new)
  BY <1>4
<1>6. \A i \in DOMAIN notices' : notices'[i] = IF i <= Len(notices) THEN notices[i] ELSE new[i - Len(notices)]
  BY <1>1, <1>3, <1>5
<1>7. \A i \in DOMAIN notices : i \in DOMAIN notices' /\ notices'[i] = notices[i]
  BY <1>3, <1>5, <1>6
<1>8. \A k \in DOMAIN new : Len(notices) + k \in DOMAIN notices' /\ notices'[Len(notices) + k] = new[k]
  BY <1>3, <1>5, <1>6
<1>9. \A i \in DOMAIN notices' : i \in DOMAIN notices \/ i - Len(notices) \in DOMAIN new
  BY <1>3, <1>5
<1>. QED BY <1>2, <1>4, <1>7, <1>8, <1>9

LEMMA HeardStep ==
    ASSUME DocumentsOK, NoticesTyped, HeardIsListed, [DaysNext]_dayVars PROVE HeardIsListed'
<1>1. notices \in Seq(NoticeRows)
  BY DEF NoticesTyped
<1>2. CASE Unheard
  BY <1>2 DEF Unheard, HeardIsListed, Feed
<1>3. CASE Marked
  <2>1. PICK S : Read(S) /\ UNCHANGED heard
    BY <1>3 DEF Marked
  <2>2. \A i \in DOMAIN notices : i \in DOMAIN notices' /\ notices'[i].to = notices[i].to
    BY <1>1, <2>1, MarkedRows
  <2>. QED BY <2>1, <2>2 DEF HeardIsListed, Feed
<1>4. CASE Told
  <2>1. PICK new \in Seq(NoticeRows) : Create(new, TRUE)
    BY <1>4 DEF Told
  <2>2. /\ \A i \in DOMAIN notices : i \in DOMAIN notices' /\ notices'[i] = notices[i]
        /\ \A k \in DOMAIN new : Len(notices) + k \in DOMAIN notices' /\ notices'[Len(notices) + k] = new[k]
        /\ heard' = heard \cup UNION {Announced(Len(notices) + k, new[k]) : k \in DOMAIN new}
    BY <1>1, <2>1, ToldRows
  <2>3. ASSUME NEW h \in heard PROVE h[1] \in Feed(h[2])'
    BY <2>2 DEF HeardIsListed, Feed
  <2>4. ASSUME NEW k \in DOMAIN new, NEW h \in Announced(Len(notices) + k, new[k])
        PROVE  h[1] \in Feed(h[2])'
    <3>1. h[1] = Len(notices) + k /\ (new[k].to = Everyone \/ h[2] = new[k].to)
      BY DEF Announced, Group, Mailed
    <3>. QED BY <2>2, <3>1 DEF Feed
  <2>. QED BY <2>2, <2>3, <2>4 DEF HeardIsListed
<1>. QED BY <1>2, <1>3, <1>4, NoticeSteps

LEMMA DebtsType ==
    ASSUME DocumentsOK PROVE Overdue \subseteq Debts
<1>1. \A d \in DOMAIN documents : d \in Nat /\ documents[d].by \in Users
  BY RowLines DEF DocumentsOK
<1>. QED BY <1>1 DEF Overdue, Debts

LEMMA NoticesTypedStep ==
    ASSUME DocumentsOK, NoticesTyped, [DaysNext]_dayVars PROVE NoticesTyped'
<1>1. notices' \in Seq(NoticeRows)
  <2>1. notices \in Seq(NoticeRows)
    BY DEF NoticesTyped
  <2>2. CASE Unheard
    BY <2>1, <2>2 DEF Unheard
  <2>3. CASE Marked
    BY <2>1, <2>3, MarkedRows DEF Marked
  <2>4. CASE Told
    BY <2>1, <2>4, ToldRows DEF Told
  <2>. QED BY <2>2, <2>3, <2>4, NoticeSteps
<1>2. online' \subseteq Users /\ scans' \in [Scanners -> ScanRows]
  <2>1. online \subseteq Users /\ scans \in [Scanners -> ScanRows]
    BY DEF NoticesTyped
  <2>2. CASE UNCHANGED <<online, scans>>
    BY <2>1, <2>2
  <2>3. ASSUME NEW u \in Users, Connect(u) \/ Disconnect(u) PROVE online' \subseteq Users /\ UNCHANGED scans
    BY <2>1, <2>3 DEF Connect, Disconnect
  <2>4. Nothing \in ScanRows /\ \A t \in SUBSET Debts : [todo |-> t, adding |-> {}] \in ScanRows
    BY DEF Nothing, ScanRows
  <2>5. ASSUME NEW s \in Scanners, NEW row \in ScanRows, scans' = [scans EXCEPT ![s] = row]
        PROVE  scans' \in [Scanners -> ScanRows]
    BY <2>1, <2>5
  <2>6. ASSUME NEW s \in Scanners, StartScan(s, Overdue) PROVE scans' \in [Scanners -> ScanRows] /\ UNCHANGED online
    <3>1. [scans[s] EXCEPT !.todo = Overdue] \in ScanRows
      BY <2>1, DebtsType DEF ScanRows
    <3>2. scans' = [scans EXCEPT ![s] = [scans[s] EXCEPT !.todo = Overdue]] /\ UNCHANGED online
      BY <2>6 DEF StartScan
    <3>. QED BY <2>5, <3>1, <3>2, Zenon
  <2>7. ASSUME NEW s \in Scanners, ScanDies(s) PROVE scans' \in [Scanners -> ScanRows] /\ UNCHANGED online
    BY <2>4, <2>5, <2>7 DEF ScanDies
  <2>8. ASSUME NEW s \in Scanners, NEW o \in scans[s].todo, Look(s, o)
        PROVE  scans' \in [Scanners -> ScanRows] /\ UNCHANGED online
    <3> DEFINE row == [todo |-> scans[s].todo \ {o}, adding |-> IF Pending("overdue", o[1]) THEN {} ELSE {o}]
    <3>1. scans[s] \in ScanRows /\ scans[s].todo \in SUBSET Debts
      BY <2>1 DEF ScanRows
    <3>2. row \in ScanRows
      BY <3>1 DEF ScanRows
    <3>3. scans' = [scans EXCEPT ![s] = row] /\ UNCHANGED online
      BY <2>8 DEF Look
    <3> HIDE DEF row
    <3>. QED BY <2>5, <3>2, <3>3
  <2>9. ASSUME NEW s \in Scanners, NEW o \in scans[s].adding, AddReminder(s, o)
        PROVE  scans' \in [Scanners -> ScanRows] /\ UNCHANGED online
    <3>1. [scans[s] EXCEPT !.adding = {}] \in ScanRows
      BY <2>1 DEF ScanRows
    <3>2. scans' = [scans EXCEPT ![s] = [scans[s] EXCEPT !.adding = {}]] /\ UNCHANGED online
      BY <2>9 DEF AddReminder
    <3>. QED BY <2>5, <3>1, <3>2, Zenon
  <2>10. CASE Trade
    <3>1. UNCHANGED <<online, scans>>
      BY <2>10 DEF Trade, DraftInvoice, RingUp, ConfirmInvoice, PayInvoice, Refund, Refused, Receive,
            PutIn, TakeOut, Adjust, DeleteDocument, DeleteReceipt, ClosePeriod, noticeVars
    <3>. QED BY <2>2, <3>1
  <2>11. CASE Tick \/ UNCHANGED dayVars
    BY <2>2, <2>11 DEF Tick, dayVars, noticeVars
  <2>12. CASE Notify
    <3>1. ASSUME NEW u \in Users, MarkAllRead(u) PROVE UNCHANGED <<online, scans>>
      BY <3>1 DEF MarkAllRead
    <3>2. ASSUME NEW u \in Users, NEW i \in DOMAIN notices, MarkRead(u, i) PROVE UNCHANGED <<online, scans>>
      BY <3>2 DEF MarkRead
    <3>3. ASSUME NEW d \in DOMAIN documents, PortalActs(d, documents[d].by) PROVE UNCHANGED <<online, scans>>
      BY <3>3 DEF PortalActs
    <3>. QED BY <2>1, <2>2, <2>3, <2>6, <2>7, <2>8, <2>9, <2>12, <3>1, <3>2, <3>3, Zenon DEF Notify
  <2>. QED BY <2>10, <2>11, <2>12 DEF DaysNext
<1>. QED BY <1>1, <1>2 DEF NoticesTyped

----------------------------------------------------------------------------
(* One unread reminder.                                                    *)

Unread(i) == ~notices[i].read
Alike(i, j) == notices[i].type = notices[j].type /\ notices[i].ref = notices[j].ref
Busy(s) == scans[s] # Nothing

\* A scanner adds one reminder at a time; while scans do not overlap, one
\* scanner is busy, and what it is about to add is not pending.
ScansAlone ==
    /\ \A s \in Scanners : \A o1, o2 \in scans[s].adding : o1 = o2
    /\ alone => /\ \A s, t \in Scanners : Busy(s) /\ Busy(t) => s = t
                /\ \A s \in Scanners : \A o \in scans[s].adding : ~Pending("overdue", o[1])

\* How a step may treat the scanners.
Began == \E s \in Scanners : StartScan(s, Overdue)
Died == \E s \in Scanners : ScanDies(s)
Looked == \E s \in Scanners : \E o \in scans[s].todo : Look(s, o)
Reminded == \E s \in Scanners : \E o \in scans[s].adding : AddReminder(s, o)
\* Rows that say nothing of an invoice that is overdue.
OtherRows(new) ==
    /\ new \in Seq(NoticeRows)
    /\ \A k \in DOMAIN new : new[k].type # "overdue"
    /\ \A k \in DOMAIN new : new[k].type # "system" => ~Pending(new[k].type, new[k].ref)
    /\ \A j, k \in DOMAIN new : new[j].type # "system" /\ new[j].ref = new[k].ref => j = k
ToldOther == UNCHANGED scans /\ \E new : OtherRows(new) /\ Create(new, TRUE)

LEMMA ScanSteps ==
    ASSUME DocumentsOK, NoticesTyped, [DaysNext]_dayVars
    PROVE  \/ Began \/ Died \/ Looked \/ Reminded \/ ToldOther
           \/ UNCHANGED <<scans, notices>>
           \/ UNCHANGED scans /\ \E S : Read(S)
<1>1. ASSUME NEW lines \in LineSets, StockOut(lines), UNCHANGED scans PROVE ToldOther
  <2> DEFINE new == LowAlerts(lines, DOMAIN lines)
  <2>1. OtherRows(new)
    BY LowAlertsFacts DEF OtherRows
  <2>. QED BY <1>1, <2>1, Zenon DEF StockOut, ToldOther
<1>2. ASSUME NEW o \in Orders, RingUp(o) PROVE ToldOther
  BY <1>1, <1>2, OrderLines DEF RingUp
<1>3. ASSUME NEW d \in DOMAIN documents, ConfirmInvoice(d) PROVE ToldOther
  BY <1>1, <1>3, RowLines DEF ConfirmInvoice
<1>4. ASSUME NEW r \in Corrections, TakeOut(r.product, r.qty) PROVE ToldOther
  <2>1. r.product \in Products /\ r.qty \in Nat \ {0}
    BY DaysConstants
  <2>. QED BY <1>1, <1>4, <2>1, OneLineType DEF TakeOut
<1>5. ASSUME NEW lines, NEW done, Refused(lines, done) PROVE UNCHANGED <<scans, notices>>
  BY <1>5 DEF Refused, Create
<1>6. ASSUME NEW d \in DOMAIN documents, PortalActs(d, documents[d].by) PROVE ToldOther
  <2> DEFINE note == NewNotice("system", d, documents[d].by)
  <2>1. documents[d].by \in Users /\ d \in Nat
    BY RowLines DEF DocumentsOK
  <2>2. note \in NoticeRows /\ note.type = "system"
    BY <2>1, NewNoticeType DEF NewNotice
  <2>3. UNCHANGED scans /\ Create(<<note>>, TRUE)
    BY <1>6 DEF PortalActs
  <2> HIDE DEF note
  <2>4. OtherRows(<<note>>)
    BY <2>2 DEF OtherRows
  <2>. QED BY <2>3, <2>4, Zenon DEF ToldOther
<1>7. CASE Tick \/ UNCHANGED dayVars
  BY <1>7 DEF Tick, dayVars, noticeVars
<1>8. CASE Trade
  BY <1>2, <1>3, <1>4, <1>5, <1>8 DEF Trade, DraftInvoice, PayInvoice, Refund, Receive,
     PutIn, Adjust, DeleteDocument, DeleteReceipt, ClosePeriod, noticeVars
<1>9. CASE Notify
  <2>1. ASSUME NEW u \in Users, Connect(u) \/ Disconnect(u) PROVE UNCHANGED <<scans, notices>>
    BY <2>1 DEF Connect, Disconnect
  <2>2. ASSUME NEW u \in Users, MarkAllRead(u) PROVE UNCHANGED scans /\ \E S : Read(S)
    BY <2>2 DEF MarkAllRead
  <2>3. ASSUME NEW u \in Users, NEW i \in DOMAIN notices, MarkRead(u, i) PROVE UNCHANGED scans /\ \E S : Read(S)
    BY <2>3 DEF MarkRead
  <2>. QED BY <1>6, <1>9, <2>1, <2>2, <2>3, Zenon DEF Notify, Began, Died, Looked, Reminded
<1>. QED BY <1>7, <1>8, <1>9 DEF DaysNext

\* What is pending of an invoice after new rows, or after some were read.
LEMMA PendingAfter ==
    ASSUME notices \in Seq(NoticeRows), NEW ref,
           \/ UNCHANGED notices \/ \E S : Read(S)
           \/ \E new : OtherRows(new) /\ Create(new, TRUE),
           ~Pending("overdue", ref)
    PROVE  ~Pending("overdue", ref)'
<1>1. CASE UNCHANGED notices
  BY <1>1 DEF Pending
<1>2. CASE \E S : Read(S)
  BY <1>2, MarkedRows DEF Pending
<1>3. CASE \E new : OtherRows(new) /\ Create(new, TRUE)
  <2>1. PICK new : OtherRows(new) /\ Create(new, TRUE)
    BY <1>3
  <2>2. new \in Seq(NoticeRows) /\ \A k \in DOMAIN new : new[k].type # "overdue"
    BY <2>1 DEF OtherRows
  <2>3. ASSUME NEW i \in DOMAIN notices', notices'[i].type = "overdue", notices'[i].ref = ref, ~notices'[i].read
        PROVE  FALSE
    <3>1. CASE i \in DOMAIN notices
      BY <2>1, <2>2, <2>3, <3>1, ToldRows DEF Pending
    <3>2. CASE i - Len(notices) \in DOMAIN new
      <4> DEFINE k == i - Len(notices)
      <4>1. notices'[Len(notices) + k] = new[k] /\ Len(notices) + k = i
        <5>1. notices' \in Seq(NoticeRows) /\ notices'[Len(notices) + k] = new[k]
          BY <2>1, <2>2, <3>2, ToldRows
        <5>2. i \in Int /\ Len(notices) \in Nat
          BY <2>3, <5>1
        <5>. QED BY <5>1, <5>2
      <4>. QED BY <2>2, <2>3, <3>2, <4>1
    <3>. QED BY <2>1, <2>2, <3>1, <3>2, ToldRows
  <2>. QED BY <2>3 DEF Pending
<1>. QED BY <1>1, <1>2, <1>3

LEMMA ScansAloneStep ==
    ASSUME DocumentsOK, NoticesTyped, ScansAlone, alone \in BOOLEAN, [MCDaysNext]_<<dayVars, history>>
    PROVE  ScansAlone'
<1>0. notices \in Seq(NoticeRows) /\ scans \in [Scanners -> ScanRows]
  BY DEF NoticesTyped
<1>1. [DaysNext]_dayVars
  BY DEF MCDaysNext
<1>2. alone' => /\ alone
                /\ NoScan \/ (\A s \in Scanners : scans[s] = Nothing => scans'[s] = Nothing)
  <2>1. CASE UNCHANGED <<dayVars, history>>
    BY <2>1 DEF dayVars, noticeVars, history
  <2>2. CASE MCDaysNext
    BY <2>2 DEF MCDaysNext
  <2>. QED BY <2>1, <2>2
<1>3. CASE UNCHANGED scans /\ (UNCHANGED notices \/ (\E S : Read(S)) \/ (\E new : OtherRows(new) /\ Create(new, TRUE)))
  <2>1. \A s \in Scanners : \A o \in scans[s].adding : ~Pending("overdue", o[1]) => ~Pending("overdue", o[1])'
    BY <1>0, <1>3, PendingAfter
  <2>. QED BY <1>2, <1>3, <2>1 DEF ScansAlone, Busy
<1>4. CASE Began
  <2>1. PICK s \in Scanners : StartScan(s, Overdue)
    BY <1>4 DEF Began
  <2>2. scans[s] = Nothing /\ Overdue # {} /\ UNCHANGED notices
        /\ scans' = [scans EXCEPT ![s] = [scans[s] EXCEPT !.todo = Overdue]]
    BY <2>1 DEF StartScan
  <2>3. \A t \in Scanners : scans'[t] = IF t = s THEN [todo |-> Overdue, adding |-> {}] ELSE scans[t]
    <3>1. [scans[s] EXCEPT !.todo = Overdue] = [todo |-> Overdue, adding |-> {}]
      BY <2>2 DEF Nothing
    <3>. QED BY <1>0, <2>2, <3>1
  <2>4. scans'[s] # Nothing
    BY <2>2, <2>3 DEF Nothing
  <2>5. alone' => \A t \in Scanners : t # s => scans'[t] = Nothing
    BY <1>2, <2>2, <2>3, <2>4 DEF NoScan
  <2>6. \A t \in Scanners : scans'[t] = Nothing => scans'[t].adding = {}
    BY DEF Nothing
  <2>7. scans'[s].adding = {}
    BY <2>3
  <2>8. \A t \in Scanners : \A o1, o2 \in scans'[t].adding : o1 = o2
    BY <2>3, <2>7 DEF ScansAlone
  <2>. QED BY <2>5, <2>6, <2>7, <2>8, Zenon DEF ScansAlone, Busy
<1>5. CASE Died
  <2>1. PICK s \in Scanners : scans' = [scans EXCEPT ![s] = Nothing] /\ UNCHANGED notices
    BY <1>5 DEF Died, ScanDies
  <2>2. \A t \in Scanners : scans'[t] = IF t = s THEN Nothing ELSE scans[t]
    BY <1>0, <2>1
  <2>3. Nothing.adding = {}
    BY DEF Nothing
  <2>. QED BY <1>2, <2>1, <2>2, <2>3 DEF ScansAlone, Busy, Pending
<1>6. CASE Looked
  <2>1. PICK s \in Scanners : \E o \in scans[s].todo : Look(s, o)
    BY <1>6 DEF Looked
  <2>9. PICK o \in scans[s].todo : Look(s, o)
    BY <2>1
  <2> DEFINE row == [todo |-> scans[s].todo \ {o}, adding |-> IF Pending("overdue", o[1]) THEN {} ELSE {o}]
  <2>2. scans' = [scans EXCEPT ![s] = row] /\ UNCHANGED notices
    BY <2>9 DEF Look
  <2>3. \A o1 \in row.adding : o1 = o /\ ~Pending("overdue", o1[1])
    OBVIOUS
  <2>4. Busy(s)
    BY DEF Busy, Nothing
  <2> HIDE DEF row
  <2>5. \A t \in Scanners : scans'[t] = IF t = s THEN row ELSE scans[t]
    BY <1>0, <2>2
  <2>6. \A t \in Scanners : \A o1, o2 \in scans'[t].adding : o1 = o2
    BY <2>3, <2>5 DEF ScansAlone
  <2>7. ASSUME alone' PROVE \A t \in Scanners : \A o1 \in scans'[t].adding : ~Pending("overdue", o1[1])'
    BY <1>2, <2>2, <2>3, <2>5, <2>7 DEF ScansAlone, Pending
  <2>8. ASSUME alone', NEW t \in Scanners, NEW v \in Scanners, scans'[t] # Nothing, scans'[v] # Nothing PROVE t = v
    <3>1. Busy(t) /\ Busy(v)
      BY <2>4, <2>5, <2>8 DEF Busy
    <3>. QED BY <1>2, <2>8, <3>1 DEF ScansAlone
  <2>. QED BY <2>6, <2>7, <2>8 DEF ScansAlone, Busy
<1>7. CASE Reminded
  <2>1. PICK s \in Scanners : \E o \in scans[s].adding : AddReminder(s, o)
    BY <1>7 DEF Reminded
  <2> DEFINE row == [scans[s] EXCEPT !.adding = {}]
  <2>2. scans' = [scans EXCEPT ![s] = row]
    BY <2>1 DEF AddReminder
  <2>3. row.adding = {} /\ Busy(s)
    <3>1. scans[s] \in ScanRows /\ scans[s].adding # {}
      BY <1>0, <2>1
    <3>2. scans[s] # Nothing
      BY <3>1 DEF Nothing
    <3>. QED BY <3>1, <3>2 DEF ScanRows, Busy
  <2> HIDE DEF row
  <2>4. \A t \in Scanners : scans'[t] = IF t = s THEN row ELSE scans[t]
    BY <1>0, <2>2
  <2>5. \A t \in Scanners : \A o1, o2 \in scans'[t].adding : o1 = o2
    BY <2>3, <2>4 DEF ScansAlone
  <2>6. ASSUME alone' PROVE \A t \in Scanners : scans'[t].adding = {}
    <3>1. ASSUME NEW t \in Scanners, t # s PROVE scans[t].adding = {}
      <4>1. ~Busy(t)
        BY <1>2, <2>3, <2>6, <3>1 DEF ScansAlone
      <4>. QED BY <4>1 DEF Busy, Nothing
    <3>. QED BY <2>3, <2>4, <3>1
  <2>7. ASSUME alone', NEW t \in Scanners, NEW v \in Scanners, scans'[t] # Nothing, scans'[v] # Nothing PROVE t = v
    <3>1. Busy(t) /\ Busy(v)
      BY <2>3, <2>4, <2>7 DEF Busy
    <3>. QED BY <1>2, <2>7, <3>1 DEF ScansAlone
  <2>. QED BY <2>5, <2>6, <2>7, Zenon DEF ScansAlone, Busy
<1>. QED BY <1>1, <1>3, <1>4, <1>5, <1>6, <1>7, ScanSteps DEF ToldOther

\* New rows leave one unread row of a kind if none of them repeats an unread
\* row or another new one.
LEMMA FreshRows ==
    ASSUME notices \in Seq(NoticeRows), NEW new \in Seq(NoticeRows), Create(new, TRUE),
           AloneRemindedOnce, alone' => alone,
           \A k \in DOMAIN new : \/ new[k].type = "system" \/ (new[k].type = "overdue" /\ ~alone')
                                 \/ ~Pending(new[k].type, new[k].ref),
           \A j, k \in DOMAIN new : new[j].type = new[k].type /\ new[j].ref = new[k].ref
                                      => j = k \/ new[k].type = "system"
    PROVE  AloneRemindedOnce'
<1> DEFINE n == Len(notices)
           Excused(type) == type = "system" \/ (type = "overdue" /\ ~alone')
           Same(a, b) == ~a.read /\ ~b.read /\ a.type = b.type /\ a.ref = b.ref
<1>1. /\ notices' \in Seq(NoticeRows) /\ n \in Nat
      /\ \A i \in DOMAIN notices : notices'[i] = notices[i]
      /\ \A k \in DOMAIN new : notices'[n + k] = new[k]
      /\ \A i \in DOMAIN notices' : i \in DOMAIN notices \/ i - n \in DOMAIN new
  <2>1. n \in Nat
    OBVIOUS
  <2>. QED BY <2>1, ToldRows, Zenon
<1>2. \A i \in DOMAIN notices' : i \in Int
  BY <1>1
<1>3. ASSUME NEW i \in DOMAIN notices', i \notin DOMAIN notices
      PROVE  i - n \in DOMAIN new /\ notices'[i] = new[i - n]
  <2>1. i - n \in DOMAIN new /\ n + (i - n) = i
    BY <1>1, <1>2, <1>3
  <2>. QED BY <1>1, <2>1
<1>4. ASSUME NEW i \in DOMAIN notices, NEW j \in DOMAIN notices, i # j, Same(notices[i], notices[j])
      PROVE  Excused(notices[i].type)
  BY <1>4 DEF AloneRemindedOnce
<1>5. ASSUME NEW i \in DOMAIN notices, NEW k \in DOMAIN new, Same(notices[i], new[k])
      PROVE  Excused(new[k].type)
  <2>1. notices[i].type = new[k].type /\ notices[i].ref = new[k].ref /\ ~notices[i].read
    BY <1>5
  <2>2. Pending(new[k].type, new[k].ref)
    BY <2>1, Zenon DEF Pending
  <2>. QED BY <2>2
<1>6. ASSUME NEW i \in DOMAIN notices', NEW j \in DOMAIN notices', i # j, Same(notices'[i], notices'[j])
      PROVE  Excused(notices'[i].type)
  <2>1. CASE i \in DOMAIN notices /\ j \in DOMAIN notices
    BY <1>1, <1>4, <1>6, <2>1
  <2>2. CASE i \in DOMAIN notices /\ j \notin DOMAIN notices
    <3>1. j - n \in DOMAIN new /\ notices'[j] = new[j - n] /\ notices'[i] = notices[i]
      BY <1>1, <1>3, <2>2
    <3>2. Excused(new[j - n].type)
      BY <1>5, <1>6, <2>2, <3>1
    <3>. QED BY <1>6, <3>1, <3>2
  <2>3. CASE i \notin DOMAIN notices /\ j \in DOMAIN notices
    <3>1. i - n \in DOMAIN new /\ notices'[i] = new[i - n] /\ notices'[j] = notices[j]
      BY <1>1, <1>3, <2>3
    <3>2. Same(notices[j], new[i - n])
      BY <1>6, <3>1
    <3>3. Excused(new[i - n].type)
      BY <1>5, <2>3, <3>1, <3>2
    <3>. QED BY <3>1, <3>3
  <2>4. CASE i \notin DOMAIN notices /\ j \notin DOMAIN notices
    <3>1. /\ i - n \in DOMAIN new /\ notices'[i] = new[i - n]
          /\ j - n \in DOMAIN new /\ notices'[j] = new[j - n]
      BY <1>3, <2>4
    <3>2. i - n # j - n
      BY <1>1, <1>2, <1>6
    <3>. QED BY <1>6, <3>1, <3>2
  <2>. QED BY <2>1, <2>2, <2>3, <2>4
<1>. QED BY <1>6 DEF AloneRemindedOnce

LEMMA RemindedStep ==
    ASSUME DocumentsOK, NoticesTyped, ScansAlone, AloneRemindedOnce, [MCDaysNext]_<<dayVars, history>>
    PROVE  AloneRemindedOnce'
<1>0. notices \in Seq(NoticeRows) /\ scans \in [Scanners -> ScanRows]
  BY DEF NoticesTyped
<1>1. [DaysNext]_dayVars
  BY DEF MCDaysNext
<1>2. alone' => alone
  <2>1. CASE UNCHANGED <<dayVars, history>>
    BY <2>1 DEF history
  <2>2. CASE MCDaysNext
    BY <2>2 DEF MCDaysNext
  <2>. QED BY <2>1, <2>2
<1>3. CASE UNCHANGED notices
  BY <1>2, <1>3 DEF AloneRemindedOnce
<1>4. CASE \E S : Read(S)
  <2>1. DOMAIN notices' = DOMAIN notices
        /\ \A i \in DOMAIN notices : /\ notices'[i].type = notices[i].type
                                     /\ notices'[i].ref = notices[i].ref
                                     /\ ~notices'[i].read => ~notices[i].read
    BY <1>0, <1>4, MarkedRows
  <2>. QED BY <1>2, <2>1 DEF AloneRemindedOnce
<1>5. CASE \E new : OtherRows(new) /\ Create(new, TRUE)
  <2>1. PICK new : OtherRows(new) /\ Create(new, TRUE)
    BY <1>5
  <2>. QED BY <1>0, <1>2, <2>1, FreshRows DEF OtherRows
<1>6. CASE Reminded
  <2>1. PICK s \in Scanners : \E o \in scans[s].adding : AddReminder(s, o)
    BY <1>6 DEF Reminded
  <2>2. PICK o \in scans[s].adding : AddReminder(s, o)
    BY <2>1
  <2> DEFINE note == NewNotice("overdue", o[1], o[2])
             new == <<note>>
  <2>3. o[1] \in Nat /\ o[2] \in Users
    <3>1. scans[s] \in ScanRows
      BY <1>0
    <3>. QED BY <3>1 DEF ScanRows, Debts
  <2>4. note \in NoticeRows /\ note.type = "overdue" /\ note.ref = o[1]
    BY <2>3, NewNoticeType DEF NewNotice
  <2>5. Create(new, TRUE)
    BY <2>2 DEF AddReminder
  <2>6. alone' => ~Pending("overdue", o[1])
    BY <1>2 DEF ScansAlone
  <2> HIDE DEF note
  <2>7. new \in Seq(NoticeRows) /\ DOMAIN new = {1} /\ new[1] = note
    BY <2>4
  <2> HIDE DEF new
  <2>. QED BY <1>0, <1>2, <2>4, <2>5, <2>6, <2>7, FreshRows
<1>7. CASE Began \/ Died \/ Looked
  BY <1>3, <1>7 DEF Began, Died, Looked, StartScan, ScanDies, Look
<1>. QED BY <1>1, <1>3, <1>4, <1>5, <1>6, <1>7, ScanSteps DEF ToldOther

----------------------------------------------------------------------------
(* The theorems.                                                           *)

DaysTypeOK == CalendarOK /\ ItemsOK /\ DocumentsOK /\ OutsOK /\ NoticesTyped /\ alone \in BOOLEAN

LEMMA DaysStart == ASSUME MCDaysInit PROVE DaysTypeOK /\ HeardIsListed /\ ScansAlone /\ AloneRemindedOnce
<1>1. /\ today = 1 /\ early \in BOOLEAN /\ documents = <<>> /\ outs = <<>> /\ alone = TRUE
      /\ items = [p \in Products |-> [onHand |-> 0, cost |-> 0]]
      /\ notices = <<>> /\ online = {} /\ heard = {} /\ scans = [s \in Scanners |-> Nothing]
  BY DEF MCDaysInit, DaysInit, NoticesInit
<1>2. CalendarOK /\ alone \in BOOLEAN
  BY <1>1 DEF CalendarOK
<1>3. ItemsOK
  BY <1>1 DEF ItemsOK
<1>4. DocumentsOK /\ OutsOK
  BY <1>1 DEF DocumentsOK, OutsOK
<1>5. NoticesTyped
  <2>1. Nothing \in ScanRows
    BY DEF Nothing, ScanRows
  <2>. QED BY <1>1, <2>1 DEF NoticesTyped
<1>6. HeardIsListed
  BY <1>1 DEF HeardIsListed
<1>7. \A s \in Scanners : scans[s] = Nothing /\ scans[s].adding = {}
  BY <1>1 DEF Nothing
<1>8. ScansAlone
  BY <1>7 DEF ScansAlone, Busy
<1>9. AloneRemindedOnce
  BY <1>1 DEF AloneRemindedOnce
<1>. QED BY <1>2, <1>3, <1>4, <1>5, <1>6, <1>8, <1>9 DEF DaysTypeOK

LEMMA DaysTypeStep ==
    ASSUME DaysTypeOK, [MCDaysNext]_<<dayVars, history>> PROVE DaysTypeOK'
<1>1. [DaysNext]_dayVars
  BY DEF MCDaysNext
<1>2. alone' \in BOOLEAN
  BY DEF MCDaysNext, history, DaysTypeOK
<1>. QED BY <1>1, <1>2, CalendarStep, ItemsStep, DocumentsStep, OutsStep, NoticesTypedStep DEF DaysTypeOK

\* The calendar, the stock, the documents, the movements, the notices and the
\* scans stay within their types, whatever is traded and however notices run.
THEOREM DaysTypeCorrect == MCDaysSpec => []DaysTypeOK
<1>1. MCDaysInit => DaysTypeOK
  BY DaysStart
<1>2. DaysTypeOK /\ [MCDaysNext]_<<dayVars, history>> => DaysTypeOK'
  BY DaysTypeStep
<1>. QED BY <1>1, <1>2, PTL DEF MCDaysSpec

\* Whatever the cutoff, DeadStockView reports no product that went out on a
\* local day after it, and leaves out none that was idle since, although the
\* last movement is dated in UTC and the cutoff is local.
THEOREM DeadStockWasIdle == MCDaysSpec => []DeadStockIsIdle
<1>1. DaysTypeOK => DeadStockIsIdle
  BY DeadStockHolds DEF DaysTypeOK
<1>. QED BY <1>1, DaysTypeCorrect, PTL

\* Sockets and mail tell only of rows that are committed, and only those who
\* can list them (create_notification, which sends from on_commit).
THEOREM NobodyHearsTooMuch == MCDaysSpec => []HeardIsListed
<1>1. MCDaysInit => HeardIsListed
  BY DaysStart
<1>2. DaysTypeOK /\ HeardIsListed /\ [MCDaysNext]_<<dayVars, history>> => HeardIsListed'
  BY HeardStep DEF DaysTypeOK, MCDaysNext
<1>. QED BY <1>1, <1>2, DaysTypeCorrect, PTL DEF MCDaysSpec

\* An alert is pending once at most, and so is a reminder while scans of
\* overdue invoices do not overlap (create_notification's dedupe).
THEOREM RemindersAreNotRepeated == MCDaysSpec => []AloneRemindedOnce
<1> DEFINE IInv == ScansAlone /\ AloneRemindedOnce
<1>1. MCDaysInit => IInv
  BY DaysStart
<1>2. DaysTypeOK /\ IInv /\ [MCDaysNext]_<<dayVars, history>> => IInv'
  BY ScansAloneStep, RemindedStep DEF DaysTypeOK
<1>3. MCDaysSpec => []IInv
  BY <1>1, <1>2, DaysTypeCorrect, PTL DEF MCDaysSpec
<1>. QED BY <1>3, PTL

----------------------------------------------------------------------------
(* The journal.                                                            *)

Accounts == Books!AllAccounts
Nets == [Accounts -> Int]
BookOK == book \in Seq(Nets) /\ Len(book) = today

\* The balance of an account over some days.
Ledger(b, days, a) == SumFunctionOnSet([d \in days |-> b[d][a]], days)
Amount(amounts, a) == IF a \in DOMAIN amounts THEN amounts[a] ELSE 0

LEMMA AccountNames ==
    /\ "inventory" \in Accounts /\ "revenue" \in Accounts /\ "vat_payable" \in Accounts
    /\ "cogs" \in Accounts
BY DEF Accounts, Books!AllAccounts

LEMMA PostFacts ==
    ASSUME BookOK, CalendarOK, today' = today, NEW amounts,
           \A a \in DOMAIN amounts : amounts[a] \in Int, Post(amounts)
    PROVE  /\ BookOK'
           /\ \A d \in 1..today, a \in Accounts :
                 book'[d][a] = book[d][a] + IF d = today THEN Amount(amounts, a) ELSE 0
<1>1. today \in 1..Len(book) /\ Len(book) \in Nat /\ DOMAIN book = 1..today /\ Len(book) = today
      /\ book \in Seq(Nets)
  BY DEF BookOK, CalendarOK
<1>2. book[today] \in Nets
  BY <1>1
<1> DEFINE net == [a \in Accounts |-> book[today][a] + Amount(amounts, a)]
<1>3. \A a \in Accounts : Amount(amounts, a) \in Int
  BY DEF Amount
<1>4. net \in Nets /\ \A a \in Accounts : net[a] = book[today][a] + Amount(amounts, a)
  BY <1>2, <1>3 DEF Nets
<1>5. book' = [book EXCEPT ![today] = net]
  <2>1. DOMAIN book[today] = Accounts
    BY <1>2 DEF Nets
  <2>2. book' = [book EXCEPT ![today] = [a \in DOMAIN book[today] |-> book[today][a] + Amount(amounts, a)]]
    BY DEF Post, Amount
  <2>. QED BY <2>1, <2>2
<1> HIDE DEF net
<1>6. book' \in Seq(Nets) /\ Len(book') = today
  BY <1>1, <1>4, <1>5, ExceptSeq
<1>7. \A d \in 1..today : book'[d] = IF d = today THEN net ELSE book[d]
  BY <1>1, <1>5
<1>8. \A d \in 1..today : book[d] \in Nets
  BY <1>1
<1>9. ASSUME NEW d \in 1..today, NEW a \in Accounts
      PROVE  book'[d][a] = book[d][a] + IF d = today THEN Amount(amounts, a) ELSE 0
  <2>1. book[d][a] \in Int
    BY <1>8 DEF Nets
  <2>. QED BY <1>4, <1>7, <2>1
<1>. QED BY <1>6, <1>9 DEF BookOK

LEMMA LedgerChange ==
    ASSUME NEW S, IsFiniteSet(S), NEW t \in S, NEW a, NEW n \in Int, NEW b, NEW c,
           \A d \in S : b[d][a] \in Int /\ c[d][a] = b[d][a] + IF d = t THEN n ELSE 0
    PROVE  Ledger(c, S, a) = Ledger(b, S, a) + n
<1> DEFINE f == [d \in S |-> b[d][a]]
           g == [d \in S |-> c[d][a]]
<1>1. \A d \in S : f[d] \in Int /\ g[d] = f[d] + IF d = t THEN n ELSE 0
  OBVIOUS
<1>2. Ledger(b, S, a) = SumFunctionOnSet(f, S) /\ Ledger(c, S, a) = SumFunctionOnSet(g, S)
  BY DEF Ledger
<1> HIDE DEF f, g
<1>3. \A d \in S : f[d] \in Int /\ g[d] \in Int
  BY <1>1
<1>4. \A d \in S \ {t} : g[d] = f[d]
  BY <1>1
<1>5. SumFunctionOnSet(g, S) = SumFunctionOnSet(f, S) + g[t] - f[t]
  BY <1>3, <1>4, SumChange
<1>6. SumFunctionOnSet(f, S) \in Int
  BY <1>3, SumInt
<1>. QED BY <1>1, <1>2, <1>5, <1>6

LEMMA LedgerGrows ==
    ASSUME NEW S, IsFiniteSet(S), NEW m, m \notin S, NEW a, NEW b, NEW c,
           \A d \in S : b[d][a] \in Int /\ c[d][a] = b[d][a], c[m][a] = 0
    PROVE  Ledger(c, S \cup {m}, a) = Ledger(b, S, a)
<1> DEFINE U == S \cup {m}
           f == [d \in S |-> b[d][a]]
           g == [d \in U |-> c[d][a]]
<1>1. (\A d \in S : f[d] \in Int /\ g[d] = f[d]) /\ g[m] = 0
  OBVIOUS
<1>2. Ledger(b, S, a) = SumFunctionOnSet(f, S) /\ Ledger(c, U, a) = SumFunctionOnSet(g, U)
  BY DEF Ledger
<1> HIDE DEF f, g
<1>3. g[m] \in Int /\ \A d \in S : f[d] \in Int /\ g[d] = f[d]
  BY <1>1
<1>4. SumFunctionOnSet(g, S \cup {m}) = SumFunctionOnSet(f, S) + g[m]
  BY ONLY <1>3, IsFiniteSet(S), m \notin S, SumJoin
<1>5. SumFunctionOnSet(f, S) \in Int
  BY <1>3, SumInt
<1>. QED BY <1>1, <1>2, <1>4, <1>5

LEMMA PostLedger ==
    ASSUME BookOK, CalendarOK, today' = today, NEW amounts,
           \A a \in DOMAIN amounts : amounts[a] \in Int, Post(amounts), NEW a \in Accounts
    PROVE  Ledger(book', Days, a) = Ledger(book, Days, a) + Amount(amounts, a)
<1>1. today \in Nat \ {0} /\ Amount(amounts, a) \in Int
  BY DEF Amount, CalendarOK
<1>2. \A d \in 1..today : book[d] \in Nets
  BY DEF BookOK
<1>3. \A d \in 1..today : book[d][a] \in Int
           /\ book'[d][a] = book[d][a] + IF d = today THEN Amount(amounts, a) ELSE 0
  BY <1>2, PostFacts DEF Nets
<1> DEFINE S == 1..today
<1>4. IsFiniteSet(S) /\ today \in S
  BY <1>1, FS_Interval
<1> HIDE DEF S
<1>5. Ledger(book', S, a) = Ledger(book, S, a) + Amount(amounts, a)
  <2>1. \A d \in S : book[d][a] \in Int
           /\ book'[d][a] = book[d][a] + IF d = today THEN Amount(amounts, a) ELSE 0
    BY <1>3 DEF S
  <2>2. Amount(amounts, a) \in Int
    BY <1>1
  <2>3. ASSUME NEW n \in Int, n = Amount(amounts, a)
        PROVE  Ledger(book', S, a) = Ledger(book, S, a) + n
    <3>1. \A d \in S : book[d][a] \in Int /\ book'[d][a] = book[d][a] + IF d = today THEN n ELSE 0
      BY <2>1, <2>3
    <3>. QED BY ONLY n \in Int, <1>4, <3>1, LedgerChange
  <2>. QED BY <2>2, <2>3
<1>. QED BY <1>5 DEF S, Days

LEMMA NextDayLedger ==
    ASSUME BookOK, CalendarOK, today' = today + 1,
           book' = Append(book, [a \in Books!AllAccounts |-> 0])
    PROVE  /\ BookOK'
           /\ \A d \in 1..today : book'[d] = book[d]
           /\ \A a \in Accounts : /\ Ledger(book', Days', a) = Ledger(book, Days, a)
                                  /\ book'[today + 1][a] = 0
<1> DEFINE none == [c \in Accounts |-> 0]
<1>1. none \in Nets /\ \A a \in Accounts : none[a] = 0
  BY DEF Nets
<1>2. book' = Append(book, none)
  BY DEF Accounts
<1>3. today \in Nat /\ book \in Seq(Nets) /\ Len(book) = today
  BY DEF BookOK, CalendarOK
<1> HIDE DEF none
<1>4. book' \in Seq(Nets) /\ Len(book') = today + 1
      /\ (\A d \in 1..today : book'[d] = book[d]) /\ book'[today + 1] = none
  BY <1>1, <1>2, <1>3
<1>5. ASSUME NEW a \in Accounts PROVE Ledger(book', Days', a) = Ledger(book, Days, a)
  <2> DEFINE S == 1..today
             m == today + 1
  <2>1. \A d \in S : book[d] \in Nets
    BY <1>3
  <2>2. \A d \in S : book[d][a] \in Int /\ book'[d][a] = book[d][a]
    BY <1>4, <2>1 DEF Nets
  <2>3. book'[m][a] = 0
    BY <1>1, <1>4
  <2>4. IsFiniteSet(S)
    BY <1>3, FS_Interval
  <2>5. m \notin S /\ Days' = S \cup {m} /\ Days = S
    BY <1>3 DEF Days
  <2> HIDE DEF S, m
  <2>. QED BY ONLY <2>2, <2>3, <2>4, <2>5, LedgerGrows
<1>. QED BY <1>1, <1>4, <1>5 DEF BookOK

----------------------------------------------------------------------------
(* What a document comes to.                                               *)

LEMMA RevenueType ==
    ASSUME NEW doc \in DocumentRows, NEW p \in DOMAIN doc.lines PROVE LineRevenue(doc, p) \in Nat
<1>1. doc.lines \in LineSets /\ doc.percent \in 0..100
  BY DEF DocumentRows
<1>2. doc.lines[p] \in Nat /\ p \in Products
  BY <1>1, LinesType
<1>3. Price[p] \in Nat /\ 100 - doc.percent \in Nat
  BY <1>1, <1>2, DaysConstants
<1>4. ASSUME NEW x \in Nat, NEW y \in Nat, NEW z \in Nat PROVE (x * y * z) \div 100 \in Nat
  <2>1. x * y * z \in Nat
    OBVIOUS
  <2>. QED BY <2>1
<1>. QED BY <1>2, <1>3, <1>4 DEF LineRevenue

LEMMA TotalsType ==
    ASSUME NEW doc \in DocumentRows
    PROVE  Subtotal(doc) \in Nat /\ TaxTotal(doc) \in Nat /\ DocTotal(doc) \in Nat
<1> DEFINE S == DOMAIN doc.lines
           f == [p \in S |-> LineRevenue(doc, p)]
<1>1. IsFiniteSet(S) /\ \A p \in S : f[p] \in Nat
  BY RevenueType, LinesType DEF DocumentRows
<1>2. Subtotal(doc) = SumFunctionOnSet(f, S)
  BY DEF Subtotal, SumFunction
<1> HIDE DEF f, S
<1>3. Subtotal(doc) \in Nat
  BY <1>1, <1>2, SumNat
<1>4. TaxPercent \in Nat
  BY DaysConstants
<1>5. ASSUME NEW x \in Nat, NEW y \in Nat PROVE (x * y) \div 100 \in Nat
  <2>1. x * y \in Nat
    OBVIOUS
  <2>. QED BY <2>1
<1>6. TaxTotal(doc) \in Nat
  BY <1>3, <1>4, <1>5 DEF TaxTotal
<1>. QED BY <1>3, <1>6 DEF DocTotal

LEMMA CostType ==
    ASSUME NEW lines \in LineSets, NEW cost, cost \in [DOMAIN lines -> Nat]
    PROVE  CostOf(lines, cost) \in Nat
<1> DEFINE S == DOMAIN lines
           f == [p \in S |-> lines[p] * cost[p]]
<1>1. IsFiniteSet(S) /\ \A p \in S : lines[p] \in Nat /\ cost[p] \in Nat
  BY LinesType
<1>2. \A p \in S : f[p] \in Nat
  BY <1>1
<1>3. CostOf(lines, cost) = SumFunctionOnSet(f, S)
  BY DEF CostOf, SumFunction
<1> HIDE DEF f, S
<1>. QED BY <1>1, <1>2, <1>3, SumNat

LEMMA EntryFacts ==
    ASSUME NEW doc \in DocumentRows, NEW cost, cost \in [DOMAIN doc.lines -> Nat],
           NEW debited \in {"cash", "receivable"}
    PROVE  LET entry == SaleEntry(doc, cost, debited)
           IN  /\ \A a \in DOMAIN entry : entry[a] \in Int
               /\ Amount(entry, "revenue") = 0 - Subtotal(doc)
               /\ Amount(entry, "vat_payable") = 0 - TaxTotal(doc)
               /\ Amount(entry, "inventory") = 0 - CostOf(doc.lines, cost)
               /\ Amount(entry, "cogs") = CostOf(doc.lines, cost)
               /\ DOMAIN entry = {debited, "revenue", "vat_payable", "cogs", "inventory"}
<1> DEFINE entry == SaleEntry(doc, cost, debited)
           A == {debited, "revenue", "vat_payable", "cogs", "inventory"}
           V(a) == CASE a = debited       -> DocTotal(doc)
                     [] a = "revenue"     -> 0 - Subtotal(doc)
                     [] a = "vat_payable" -> 0 - TaxTotal(doc)
                     [] a = "cogs"        -> CostOf(doc.lines, cost)
                     [] a = "inventory"   -> 0 - CostOf(doc.lines, cost)
<1>1. Subtotal(doc) \in Nat /\ TaxTotal(doc) \in Nat /\ DocTotal(doc) \in Nat /\ CostOf(doc.lines, cost) \in Nat
  BY TotalsType, CostType DEF DocumentRows
<1>2. entry = [a \in A |-> V(a)]
  BY DEF SaleEntry
<1>3. /\ V(debited) = DocTotal(doc) /\ V("revenue") = 0 - Subtotal(doc)
      /\ V("vat_payable") = 0 - TaxTotal(doc) /\ V("cogs") = CostOf(doc.lines, cost)
      /\ V("inventory") = 0 - CostOf(doc.lines, cost)
  OBVIOUS
<1>4. \A a \in A : V(a) \in Int
  BY <1>1, <1>3
<1> HIDE DEF entry, V
<1>5. DOMAIN entry = A /\ \A a \in A : entry[a] = V(a)
  BY <1>2
<1>. QED BY <1>3, <1>4, <1>5 DEF Amount, entry

----------------------------------------------------------------------------
(* What the journal gets.                                                  *)

LEMMA NegatedEntry ==
    ASSUME NEW entry, \A a \in DOMAIN entry : entry[a] \in Int
    PROVE  LET back == [a \in DOMAIN entry |-> 0 - entry[a]]
           IN  /\ \A a \in DOMAIN back : back[a] \in Int
               /\ \A a : Amount(entry, a) \in Int /\ Amount(back, a) = 0 - Amount(entry, a)
BY DEF Amount

LEMMA PaidEntry ==
    ASSUME NEW n \in Int
    PROVE  LET paid == [cash |-> n, receivable |-> 0 - n]
           IN  /\ \A a \in DOMAIN paid : paid[a] \in Int
               /\ \A a \in {"inventory", "revenue", "vat_payable", "cogs"} :
                     Amount(paid, a) = 0
<1> DEFINE paid == [cash |-> n, receivable |-> 0 - n]
<1>1. DOMAIN paid = {"cash", "receivable"} /\ paid["cash"] = n /\ paid["receivable"] = 0 - n
  OBVIOUS
<1> HIDE DEF paid
<1>2. \A a \in DOMAIN paid : paid[a] \in Int
  BY <1>1
<1>3. \A a \in {"inventory", "revenue", "vat_payable", "cogs"} : Amount(paid, a) = 0
  BY <1>1 DEF Amount
<1>. QED BY <1>2, <1>3 DEF paid

LEMMA ReceivedEntry ==
    ASSUME NEW n \in Int, NEW tax \in Int
    PROVE  LET got == [inventory |-> n, vat_receivable |-> tax, payable |-> 0 - (n + tax)]
           IN  /\ \A a \in DOMAIN got : got[a] \in Int
               /\ Amount(got, "revenue") = 0 /\ Amount(got, "vat_payable") = 0
               /\ Amount(got, "inventory") = n /\ Amount(got, "cogs") = 0
<1> DEFINE got == [inventory |-> n, vat_receivable |-> tax, payable |-> 0 - (n + tax)]
<1>1. DOMAIN got = {"inventory", "vat_receivable", "payable"}
      /\ got["inventory"] = n /\ got["vat_receivable"] = tax /\ got["payable"] = 0 - (n + tax)
  OBVIOUS
<1> HIDE DEF got
<1>2. \A a \in DOMAIN got : got[a] \in Int
  BY <1>1
<1>3. Amount(got, "revenue") = 0 /\ Amount(got, "vat_payable") = 0
  BY <1>1 DEF Amount
<1>4. Amount(got, "inventory") = n /\ Amount(got, "cogs") = 0
  BY <1>1 DEF Amount
<1>. QED BY <1>2, <1>3, <1>4 DEF got

----------------------------------------------------------------------------
(* What the stock is worth.                                                *)

Worth(t) == SumFunctionOnSet([p \in Products |-> t[p].onHand * t[p].cost], Products)

LEMMA LinesCost ==
    ASSUME NEW lines \in LineSets, NEW cost, cost \in [DOMAIN lines -> Nat]
    PROVE  LET g == [p \in Products |-> IF p \in DOMAIN lines THEN lines[p] * cost[p] ELSE 0]
           IN  (\A p \in Products : g[p] \in Int) /\ SumFunctionOnSet(g, Products) = CostOf(lines, cost)
<1> DEFINE D == DOMAIN lines
           g == [p \in Products |-> IF p \in D THEN lines[p] * cost[p] ELSE 0]
           f == [p \in D |-> lines[p] * cost[p]]
<1>1. IsFiniteSet(Products) /\ D \in SUBSET Products /\ IsFiniteSet(D)
  BY DaysConstants, LinesType
<1>2. \A p \in D : lines[p] * cost[p] \in Int
  BY LinesType
<1>3. CostOf(lines, cost) = SumFunctionOnSet(f, D)
  BY DEF CostOf, SumFunction
<1>4. \A p \in Products : g[p] = IF p \in D THEN lines[p] * cost[p] ELSE 0
  OBVIOUS
<1>5. \A p \in D : f[p] = lines[p] * cost[p]
  OBVIOUS
<1> HIDE DEF D, f, g
<1>6. (\A p \in D : g[p] = f[p] /\ g[p] \in Int) /\ (\A p \in Products \ D : g[p] = 0)
  BY <1>1, <1>2, <1>4, <1>5
<1>7. SumFunctionOnSet(g, Products) = SumFunctionOnSet(g, D)
  BY <1>1, <1>6, SumSupport
<1>8. SumFunctionOnSet(g, D) = SumFunctionOnSet(f, D)
  BY <1>1, <1>6, SumEqual
<1>9. \A p \in Products : g[p] \in Int
  BY <1>6
<1>. QED BY <1>3, <1>7, <1>8, <1>9 DEF g, D

LEMMA ItemWorth ==
    ASSUME ItemsOK, NEW p \in Products
    PROVE  items[p].onHand \in Nat /\ items[p].cost \in Nat /\ items[p].onHand * items[p].cost \in Int
<1>1. items[p].onHand \in Nat /\ items[p].cost \in Nat
  BY DEF ItemsOK
<1>. QED BY <1>1

LEMMA WorthOut ==
    ASSUME ItemsOK, NEW lines \in LineSets, StockOut(lines)
    PROVE  /\ CostsNow(lines) \in [DOMAIN lines -> Nat]
           /\ Worth(items') = Worth(items) - CostOf(lines, CostsNow(lines))
<1> DEFINE D == DOMAIN lines
           cost == CostsNow(lines)
           f == [p \in Products |-> items[p].onHand * items[p].cost]
           g == [p \in Products |-> IF p \in D THEN lines[p] * cost[p] ELSE 0]
           h == [p \in Products |-> items'[p].onHand * items'[p].cost]
<1>1. cost \in [D -> Nat] /\ \A p \in D : cost[p] = items[p].cost
  BY LinesType, ItemWorth DEF CostsNow
<1> HIDE DEF cost
<1>2. (\A p \in Products : g[p] \in Int) /\ SumFunctionOnSet(g, Products) = CostOf(lines, cost)
  BY <1>1, LinesCost
<1>3. \A p \in Products : f[p] \in Int /\ f[p] = items[p].onHand * items[p].cost
                          /\ items[p].onHand \in Nat /\ items[p].cost \in Nat
  BY ItemWorth
<1>4. \A x, y, z \in Int : (x - y) * z = x * z - y * z
  OBVIOUS
<1>5. ASSUME NEW p \in Products PROVE h[p] = f[p] - g[p]
  <2>1. h[p] = items'[p].onHand * items'[p].cost
    OBVIOUS
  <2>2. CASE p \in D
    <3>1. items'[p] = [items[p] EXCEPT !.onHand = items[p].onHand - lines[p]]
      BY <2>2 DEF StockOut
    <3>2. items'[p].onHand = items[p].onHand - lines[p] /\ items'[p].cost = items[p].cost
      BY <3>1 DEF ItemsOK
    <3>3. lines[p] \in Nat
      BY <2>2, LinesType
    <3>4. g[p] = lines[p] * items[p].cost
      BY <1>1, <2>2
    <3>. QED BY <1>3, <1>4, <2>1, <3>2, <3>3, <3>4
  <2>3. CASE p \notin D
    <3>1. items'[p] = items[p] /\ g[p] = 0
      BY <2>3 DEF StockOut
    <3>. QED BY <1>3, <2>1, <3>1
  <2>. QED BY <2>2, <2>3
<1>6. IsFiniteSet(Products)
  BY DaysConstants
<1>7. Worth(items) = SumFunctionOnSet(f, Products) /\ Worth(items') = SumFunctionOnSet(h, Products)
  BY DEF Worth
<1> HIDE DEF f, g, h
<1>8. \A p \in Products : f[p] \in Int /\ g[p] \in Int /\ h[p] = f[p] - g[p]
  BY <1>2, <1>3, <1>5
<1>9. SumFunctionOnSet(h, Products) = SumFunctionOnSet(f, Products) - SumFunctionOnSet(g, Products)
  BY <1>6, <1>8, SumMinus
<1>. QED BY <1>1, <1>2, <1>7, <1>9 DEF cost, D

\* The average of what is there and what comes in is a whole number.
Divides(item, qty, cost) == (item.onHand * item.cost + qty * cost) % (item.onHand + qty) = 0

LEMMA WholeAverage ==
    ASSUME NEW item \in [onHand : Nat, cost : Nat], NEW qty \in Nat \ {0}, NEW cost \in Nat,
           Divides(item, qty, cost)
    PROVE  (item.onHand + qty) * Average(item, qty, cost) = item.onHand * item.cost + qty * cost
<1>1. ASSUME NEW x \in Nat, NEW y \in Nat \ {0}, x % y = 0 PROVE y * (x \div y) = x
  BY <1>1
<1>2. item.onHand + qty \in Nat \ {0} /\ item.onHand * item.cost \in Nat /\ qty * cost \in Nat
  OBVIOUS
<1>3. item.onHand * item.cost + qty * cost \in Nat
  BY <1>2
<1>. QED BY <1>1, <1>2, <1>3 DEF Divides, Average

LEMMA WorthIn ==
    ASSUME ItemsOK, NEW lines \in LineSets, NEW cost, cost \in [DOMAIN lines -> Nat], StockIn(lines, cost),
           \A p \in DOMAIN lines : Divides(items[p], lines[p], cost[p])
    PROVE  Worth(items') = Worth(items) + CostOf(lines, cost)
<1> DEFINE D == DOMAIN lines
           f == [p \in Products |-> items[p].onHand * items[p].cost]
           g == [p \in Products |-> IF p \in D THEN lines[p] * cost[p] ELSE 0]
           h == [p \in Products |-> items'[p].onHand * items'[p].cost]
<1>2. (\A p \in Products : g[p] \in Int) /\ SumFunctionOnSet(g, Products) = CostOf(lines, cost)
  BY LinesCost
<1>3. \A p \in Products : f[p] \in Int /\ f[p] = items[p].onHand * items[p].cost
  BY ItemWorth
<1>5. ASSUME NEW p \in Products PROVE h[p] = f[p] + g[p]
  <2>1. h[p] = items'[p].onHand * items'[p].cost
    OBVIOUS
  <2>2. CASE p \in D
    <3>1. items'[p] = [onHand |-> items[p].onHand + lines[p], cost |-> Average(items[p], lines[p], cost[p])]
      BY <2>2 DEF StockIn
    <3>2. lines[p] \in Nat \ {0} /\ cost[p] \in Nat /\ items[p] \in [onHand : Nat, cost : Nat]
      BY <2>2, LinesType DEF ItemsOK
    <3>3. (items[p].onHand + lines[p]) * Average(items[p], lines[p], cost[p])
            = items[p].onHand * items[p].cost + lines[p] * cost[p]
      BY <2>2, <3>2, WholeAverage
    <3>4. g[p] = lines[p] * cost[p]
      BY <2>2
    <3>5. items'[p].onHand = items[p].onHand + lines[p] /\ items'[p].cost = Average(items[p], lines[p], cost[p])
      BY <3>1
    <3> HIDE DEF f, g, h
    <3>. QED BY <1>3, <2>1, <3>3, <3>4, <3>5
  <2>3. CASE p \notin D
    <3>1. items'[p] = items[p] /\ g[p] = 0
      BY <2>3 DEF StockIn
    <3>. QED BY <1>3, <2>1, <3>1
  <2>. QED BY <2>2, <2>3
<1>6. IsFiniteSet(Products)
  BY DaysConstants
<1>7. Worth(items) = SumFunctionOnSet(f, Products) /\ Worth(items') = SumFunctionOnSet(h, Products)
  BY DEF Worth
<1> HIDE DEF f, g, h
<1>8. \A p \in Products : h[p] \in Int /\ g[p] \in Int /\ f[p] = h[p] - g[p]
  BY <1>2, <1>3, <1>5
<1>9. SumFunctionOnSet(f, Products) = SumFunctionOnSet(h, Products) - SumFunctionOnSet(g, Products)
  BY <1>6, <1>8, SumMinus
<1>10. SumFunctionOnSet(h, Products) \in Int /\ SumFunctionOnSet(g, Products) \in Int
  BY <1>6, <1>8, SumInt
<1>. QED BY <1>2, <1>7, <1>9, <1>10

LEMMA ValuationIsWorth ==
    ASSUME ItemsOK PROVE InventoryValuation(items) = Worth(items)
<1> DEFINE f == [p \in Products |-> items[p].onHand * items[p].cost]
           T == {p \in Products : items[p].onHand > 0}
<1>1. \A p \in Products : f[p] \in Int
  BY ItemWorth
<1>2. ASSUME NEW p \in Products \ T PROVE f[p] = 0
  <2>1. items[p].onHand = 0 /\ items[p].cost \in Nat
    BY ItemWorth
  <2>2. 0 * items[p].cost = 0
    BY <2>1
  <2>. QED BY <2>1, <2>2
<1>3. T \in SUBSET Products /\ IsFiniteSet(Products)
  BY DaysConstants
<1>4. InventoryValuation(items) = SumFunctionOnSet(f, T) /\ Worth(items) = SumFunctionOnSet(f, Products)
  BY DEF InventoryValuation, Worth
<1> HIDE DEF f, T
<1>. QED BY <1>1, <1>2, <1>3, <1>4, SumSupport

----------------------------------------------------------------------------
(* The inventory account.                                                  *)

\* The averages of what is put back and received now are whole numbers.
WholeAverages ==
    /\ \A d \in DOMAIN documents : Refund(d) =>
          \A p \in DOMAIN documents[d].lines : Divides(items[p], documents[d].lines[p], documents[d].cost[p])
    /\ \A r \in Deliveries : Receive(r.product, r.qty, r.cost) => Divides(items[r.product], r.qty, r.cost)

PaidAmount(d, rest) ==
    LET half == DocTotal(documents[d]) \div 2
        due == IF documents[d].status = "confirmed" THEN DocTotal(documents[d])
                                                    ELSE DocTotal(documents[d]) - half
    IN  IF rest THEN due ELSE half

LEMMA PaidAmountType ==
    ASSUME DocumentsOK, NEW d \in DOMAIN documents, NEW rest \in BOOLEAN PROVE PaidAmount(d, rest) \in Int
<1>1. DocTotal(documents[d]) \in Nat
  BY RowLines, TotalsType
<1>2. DocTotal(documents[d]) \div 2 \in Int
  BY <1>1
<1>. QED BY <1>1, <1>2 DEF PaidAmount

\* The entry that a step makes.
EntryOf(entry) == (\A a \in DOMAIN entry : entry[a] \in Int) /\ Post(entry) /\ UNCHANGED today

LEMMA ConfirmEntry ==
    ASSUME DocumentsOK, ItemsOK, NEW d \in DOMAIN documents, ConfirmInvoice(d)
    PROVE  LET entry == SaleEntry(documents[d], CostsNow(documents[d].lines), "receivable")
           IN  /\ EntryOf(entry)
               /\ Amount(entry, "inventory") = 0 - CostOf(documents[d].lines, CostsNow(documents[d].lines))
               /\ Amount(entry, "revenue") = 0 - Subtotal(documents[d])
               /\ Amount(entry, "vat_payable") = 0 - TaxTotal(documents[d])
               /\ Amount(entry, "cogs") = CostOf(documents[d].lines, CostsNow(documents[d].lines))
<1>1. documents[d] \in DocumentRows /\ documents[d].lines \in LineSets
  BY RowLines
<1>2. CostsNow(documents[d].lines) \in [DOMAIN documents[d].lines -> Nat]
  BY <1>1, WorthOut DEF ConfirmInvoice
<1>3. Post(SaleEntry(documents[d], CostsNow(documents[d].lines), "receivable")) /\ UNCHANGED today
  BY DEF ConfirmInvoice
<1>. QED BY <1>1, <1>2, <1>3, EntryFacts DEF EntryOf

LEMMA RingEntry ==
    ASSUME CalendarOK, ItemsOK, NEW o \in Orders, RingUp(o)
    PROVE  LET sale == Document("pos", "completed", o)
               entry == SaleEntry(sale, sale.cost, "cash")
           IN  /\ EntryOf(entry)
               /\ Amount(entry, "inventory") = 0 - CostOf(o.lines, CostsNow(o.lines))
               /\ Amount(entry, "revenue") = 0 - Subtotal(sale)
               /\ Amount(entry, "vat_payable") = 0 - TaxTotal(sale)
               /\ Amount(entry, "cogs") = CostOf(o.lines, CostsNow(o.lines))
<1> DEFINE sale == Document("pos", "completed", o)
<1>1. sale \in DocumentRows
  BY DocumentType
<1>2. sale.lines = o.lines /\ sale.cost = CostsNow(o.lines)
  BY DEF Document
<1>3. sale.cost \in [DOMAIN sale.lines -> Nat]
  BY <1>2, OrderLines, WorthOut DEF RingUp
<1>4. Post(SaleEntry(sale, sale.cost, "cash")) /\ UNCHANGED today
  BY DEF RingUp
<1> HIDE DEF sale
<1>. QED BY <1>1, <1>2, <1>3, <1>4, EntryFacts DEF EntryOf, sale

LEMMA RefundEntry ==
    ASSUME DocumentsOK, NEW d \in DOMAIN documents, Refund(d)
    PROVE  \E entry :
              /\ EntryOf(entry)
              /\ Amount(entry, "inventory") = CostOf(documents[d].lines, documents[d].cost)
              /\ Amount(entry, "revenue") = Subtotal(documents[d])
              /\ Amount(entry, "vat_payable") = TaxTotal(documents[d])
              /\ Amount(entry, "cogs") = 0 - CostOf(documents[d].lines, documents[d].cost)
<1> DEFINE doc == documents[d]
           sold == SaleEntry(doc, doc.cost, "cash")
           entry == [a \in DOMAIN sold |-> 0 - sold[a]]
<1>1. doc \in DocumentRows /\ doc.cost \in [DOMAIN doc.lines -> Nat] /\ doc.lines \in LineSets
  BY RowLines
<1>2. Post(entry) /\ UNCHANGED today
  BY DEF Refund
<1>3. CostOf(doc.lines, doc.cost) \in Nat /\ Subtotal(doc) \in Nat /\ TaxTotal(doc) \in Nat
  BY <1>1, CostType, TotalsType
<1> HIDE DEF doc
<1>4. /\ \A a \in DOMAIN sold : sold[a] \in Int
      /\ Amount(sold, "revenue") = 0 - Subtotal(doc)
      /\ Amount(sold, "vat_payable") = 0 - TaxTotal(doc)
      /\ Amount(sold, "inventory") = 0 - CostOf(doc.lines, doc.cost)
      /\ Amount(sold, "cogs") = CostOf(doc.lines, doc.cost)
  BY <1>1, EntryFacts
<1> HIDE DEF sold
<1>5. (\A a \in DOMAIN entry : entry[a] \in Int) /\ \A a : Amount(entry, a) = 0 - Amount(sold, a)
  BY <1>4, NegatedEntry
<1> HIDE DEF entry
<1>6. EntryOf(entry)
  BY <1>2, <1>5 DEF EntryOf
<1>7. /\ Amount(entry, "inventory") = CostOf(doc.lines, doc.cost)
      /\ Amount(entry, "revenue") = Subtotal(doc) /\ Amount(entry, "vat_payable") = TaxTotal(doc)
      /\ Amount(entry, "cogs") = 0 - CostOf(doc.lines, doc.cost)
  BY <1>3, <1>4, <1>5
<1>. QED BY <1>6, <1>7 DEF doc

LEMMA PayEntry ==
    ASSUME DocumentsOK, NEW d \in DOMAIN documents, NEW rest \in BOOLEAN, PayInvoice(d, rest)
    PROVE  \E entry :
              /\ EntryOf(entry)
              /\ \A a \in {"inventory", "revenue", "vat_payable", "cogs"} : Amount(entry, a) = 0
<1> DEFINE n == PaidAmount(d, rest)
<1>1. n \in Int
  BY PaidAmountType
<1>2. Post([cash |-> n, receivable |-> 0 - n]) /\ UNCHANGED today
  BY DEF PayInvoice, PaidAmount
<1> HIDE DEF n
<1> DEFINE paid == [cash |-> n, receivable |-> 0 - n]
<1>3. /\ \A a \in DOMAIN paid : paid[a] \in Int
      /\ \A a \in {"inventory", "revenue", "vat_payable", "cogs"} : Amount(paid, a) = 0
  BY <1>1, PaidEntry
<1> HIDE DEF paid
<1>4. EntryOf(paid)
  BY <1>2, <1>3 DEF EntryOf, paid
<1>. QED BY <1>3, <1>4

LEMMA ReceiveEntry ==
    ASSUME NEW r \in Deliveries, Receive(r.product, r.qty, r.cost)
    PROVE  \E entry :
              /\ EntryOf(entry) /\ r.qty * r.cost \in Nat
              /\ Amount(entry, "inventory") = r.qty * r.cost /\ Amount(entry, "cogs") = 0
              /\ Amount(entry, "revenue") = 0 /\ Amount(entry, "vat_payable") = 0
<1> DEFINE n == r.qty * r.cost
           tax == (n * TaxPercent) \div 100
           got == [inventory |-> n, vat_receivable |-> tax, payable |-> 0 - (n + tax)]
<1>1. r.qty \in Nat /\ r.cost \in Nat /\ TaxPercent \in Nat
  BY DaysConstants
<1>2. n \in Nat
  BY <1>1
<1>3. tax \in Int
  <2> HIDE DEF n
  <2>1. n * TaxPercent \in Nat
    BY <1>1, <1>2
  <2>. QED BY <2>1
<1>4. Post(got) /\ UNCHANGED today
  BY DEF Receive
<1> HIDE DEF n, tax
<1>5. /\ \A a \in DOMAIN got : got[a] \in Int
      /\ Amount(got, "revenue") = 0 /\ Amount(got, "vat_payable") = 0
      /\ Amount(got, "inventory") = n /\ Amount(got, "cogs") = 0
  <2>1. n \in Int
    BY <1>2
  <2>. QED BY <2>1, <1>3, ReceivedEntry, Zenon
<1> HIDE DEF got
<1>6. EntryOf(got)
  BY <1>4, <1>5 DEF EntryOf
<1>. QED BY <1>2, <1>3, <1>5, <1>6 DEF n

LEMMA EntryBooked ==
    ASSUME BookOK, CalendarOK, NEW entry, EntryOf(entry)
    PROVE  /\ BookOK' /\ UNCHANGED today
           /\ \A a \in Accounts :
                 /\ Amount(entry, a) \in Int
                 /\ Ledger(book', Days', a) = Ledger(book, Days, a) + Amount(entry, a)
                 /\ \A d \in 1..today : book'[d][a] = book[d][a] + IF d = today THEN Amount(entry, a) ELSE 0
<1>1. today' = today /\ Post(entry) /\ \A a \in DOMAIN entry : entry[a] \in Int
  BY DEF EntryOf
<1>2. Days' = Days
  BY <1>1 DEF Days
<1>3. \A a \in Accounts : Amount(entry, a) \in Int
  BY <1>1 DEF Amount
<1>. QED BY <1>1, <1>2, <1>3, PostFacts, PostLedger

LEMMA SameSum ==
    ASSUME NEW f, NEW S PROVE Books!SumFunctionOnSet(f, S) = SumFunctionOnSet(f, S)
BY DEF SumFunctionOnSet, FoldFunctionOnSet, MapThenFoldSet,
       Books!SumFunctionOnSet, Books!FoldFunctionOnSet, Books!MapThenFoldSet

LEMMA LedgerIsBalance ==
    ASSUME NEW a \in Accounts PROVE AllDays[a] = Ledger(book, Days, a)
<1>1. AllDays[a] = SumFunctionOnSet([d \in Days |-> book[d][a]], Days)
  <2>1. AllDays = Books!Dated(book, Days)
    BY DEF AllDays
  <2>2. Books!Dated(book, Days) = [c \in Accounts |-> SumFunctionOnSet([d \in Days |-> book[d][c]], Days)]
    <3>1. Books!Dated(book, Days)
            = [c \in Accounts |-> Books!SumFunctionOnSet([d \in Days |-> book[d][c]], Days)]
      BY DEF Books!Dated, Accounts
    <3>. QED BY <3>1, SameSum
  <2> HIDE DEF AllDays
  <2>. QED BY <2>1, <2>2
<1>. QED BY <1>1 DEF Ledger

LEMMA LedgerTypes ==
    ASSUME BookOK, CalendarOK, NEW a \in Accounts
    PROVE  Ledger(book, Days, a) \in Int /\ \A d \in Days : book[d][a] \in Int
<1> DEFINE f == [d \in Days |-> book[d][a]]
<1>1. IsFiniteSet(Days) /\ \A d \in Days : book[d] \in Nets
  BY FS_Interval DEF Days, CalendarOK, BookOK
<1>2. \A d \in Days : book[d][a] \in Int
  BY <1>1 DEF Nets
<1>3. Ledger(book, Days, a) = SumFunctionOnSet(f, Days) /\ \A d \in Days : f[d] \in Int
  BY <1>2 DEF Ledger
<1> HIDE DEF f
<1>. QED BY <1>1, <1>2, <1>3, SumInt

LEMMA CloseEntry ==
    ASSUME BookOK, CalendarOK, ClosePeriod
    PROVE  \E entry : EntryOf(entry) /\ Amount(entry, "inventory") = 0
<1> DEFINE r == AllDays["revenue"]
           c == AllDays["cogs"]
           entry == [revenue |-> 0 - r, cogs |-> 0 - c, retained |-> r + c]
<1>1. r \in Int /\ c \in Int
  BY LedgerIsBalance, LedgerTypes, AccountNames
<1>2. Post(entry) /\ UNCHANGED today
  BY DEF ClosePeriod
<1> HIDE DEF r, c
<1>3. DOMAIN entry = {"revenue", "cogs", "retained"}
      /\ entry["revenue"] = 0 - r /\ entry["cogs"] = 0 - c /\ entry["retained"] = r + c
  OBVIOUS
<1> HIDE DEF entry
<1>4. EntryOf(entry)
  BY <1>1, <1>2, <1>3 DEF EntryOf
<1>5. Amount(entry, "inventory") = 0
  BY <1>3 DEF Amount
<1>. QED BY <1>4, <1>5

LEMMA BookStep ==
    ASSUME DocumentsOK, ItemsOK, CalendarOK, BookOK, [DaysNext]_dayVars PROVE BookOK'
<1>1. CASE UNCHANGED <<book, today>>
  BY <1>1 DEF BookOK
<1>2. ASSUME NEW d \in DOMAIN documents, ConfirmInvoice(d) PROVE BookOK'
  BY <1>2, ConfirmEntry, EntryBooked
<1>3. ASSUME NEW o \in Orders, RingUp(o) PROVE BookOK'
  BY <1>3, RingEntry, EntryBooked
<1>4. ASSUME NEW d \in DOMAIN documents, Refund(d) PROVE BookOK'
  BY <1>4, RefundEntry, EntryBooked
<1>5. ASSUME NEW d \in DOMAIN documents, NEW rest \in BOOLEAN, PayInvoice(d, rest) PROVE BookOK'
  BY <1>5, PayEntry, EntryBooked
<1>6. ASSUME NEW r \in Deliveries, Receive(r.product, r.qty, r.cost) PROVE BookOK'
  BY <1>6, ReceiveEntry, EntryBooked
<1>7. CASE Tick
  <2>1. CASE early
    BY <1>1, <1>7, <2>1 DEF Tick
  <2>2. CASE ~early
    BY <1>7, <2>2, NextDayLedger DEF Tick
  <2>. QED BY <2>1, <2>2
<1>8. CASE Notify \/ UNCHANGED dayVars
  BY <1>1, <1>8 DEF Notify, dayVars, trade
<1>9. CASE Trade
  BY <1>1, <1>2, <1>3, <1>4, <1>5, <1>6, <1>9, CloseEntry, EntryBooked
     DEF Trade, DraftInvoice, Refused, PutIn, TakeOut, Adjust, DeleteDocument, DeleteReceipt, trade
<1>. QED BY <1>7, <1>8, <1>9 DEF DaysNext

PlainWorth == plain => Worth(items) = Ledger(book, Days, "inventory")

LEMMA WorthType == ASSUME ItemsOK PROVE Worth(items) \in Int
<1> DEFINE f == [p \in Products |-> items[p].onHand * items[p].cost]
<1>1. \A p \in Products : f[p] \in Int
  BY ItemWorth
<1>2. Worth(items) = SumFunctionOnSet(f, Products) /\ IsFiniteSet(Products)
  BY DaysConstants DEF Worth
<1> HIDE DEF f
<1>. QED BY <1>1, <1>2, SumInt

\* Goods leave and the inventory account is credited, or come in and it is
\* debited, with the same cost.
LEMMA WorthMoves ==
    ASSUME ItemsOK, CalendarOK, BookOK, PlainWorth, plain, NEW entry, EntryOf(entry), NEW n \in Int,
           Worth(items') = Worth(items) + n, Amount(entry, "inventory") = n
    PROVE  PlainWorth'
<1>1. Ledger(book', Days', "inventory") = Ledger(book, Days, "inventory") + n
  BY EntryBooked, AccountNames
<1>2. Worth(items) = Ledger(book, Days, "inventory") /\ Worth(items) \in Int
  BY WorthType DEF PlainWorth
<1>. QED BY <1>1, <1>2 DEF PlainWorth

LEMMA PlainWorthStep ==
    ASSUME DocumentsOK, ItemsOK, CalendarOK, BookOK, OutsOK, PlainWorth,
           [MCDaysNext]_<<dayVars, history>>, [WholeAverages]_dayVars
    PROVE  PlainWorth'
<1>1. CASE UNCHANGED dayVars
  <2>1. plain' => plain
    BY DEF MCDaysNext, history
  <2>2. UNCHANGED <<items, book, today>>
    BY <1>1 DEF dayVars, trade
  <2>. QED BY <2>1, <2>2 DEF PlainWorth, Days
<1>2. SUFFICES ASSUME MCDaysNext, WholeAverages, plain' PROVE PlainWorth'
  BY <1>1 DEF PlainWorth, history, dayVars
<1>3. DaysNext /\ plain /\ (items' = items \/ book' # book)
  BY <1>2 DEF MCDaysNext
<1>4. CASE UNCHANGED <<items, book, today>>
  BY <1>3, <1>4 DEF PlainWorth, Days
<1>5. ASSUME NEW d \in DOMAIN documents, ConfirmInvoice(d) PROVE PlainWorth'
  <2> DEFINE c == CostOf(documents[d].lines, CostsNow(documents[d].lines))
  <2>1. documents[d].lines \in LineSets /\ StockOut(documents[d].lines)
    BY <1>5, RowLines DEF ConfirmInvoice
  <2>2. Worth(items') = Worth(items) - c /\ c \in Nat
    BY <2>1, WorthOut, CostType
  <2> HIDE DEF c
  <2>3. Worth(items') = Worth(items) + (0 - c) /\ 0 - c \in Int
    BY <2>2, WorthType
  <2>. QED BY <1>3, <1>5, <2>3, ConfirmEntry, WorthMoves DEF c
<1>6. ASSUME NEW o \in Orders, RingUp(o) PROVE PlainWorth'
  <2> DEFINE c == CostOf(o.lines, CostsNow(o.lines))
  <2>1. o.lines \in LineSets /\ StockOut(o.lines)
    BY <1>6, OrderLines DEF RingUp
  <2>2. Worth(items') = Worth(items) - c /\ c \in Nat
    BY <2>1, WorthOut, CostType
  <2> HIDE DEF c
  <2>3. Worth(items') = Worth(items) + (0 - c) /\ 0 - c \in Int
    BY <2>2, WorthType
  <2>. QED BY <1>3, <1>6, <2>3, RingEntry, WorthMoves DEF c
<1>7. ASSUME NEW d \in DOMAIN documents, Refund(d) PROVE PlainWorth'
  <2> DEFINE c == CostOf(documents[d].lines, documents[d].cost)
  <2>1. documents[d].lines \in LineSets /\ documents[d].cost \in [DOMAIN documents[d].lines -> Nat]
        /\ StockIn(documents[d].lines, documents[d].cost)
    BY <1>7, RowLines DEF Refund
  <2>2. \A p \in DOMAIN documents[d].lines : Divides(items[p], documents[d].lines[p], documents[d].cost[p])
    BY <1>2, <1>7 DEF WholeAverages
  <2>3. Worth(items') = Worth(items) + c /\ c \in Nat
    BY <2>1, <2>2, WorthIn, CostType
  <2> HIDE DEF c
  <2>. QED BY <1>3, <1>7, <2>3, RefundEntry, WorthMoves DEF c
<1>8. ASSUME NEW d \in DOMAIN documents, NEW rest \in BOOLEAN, PayInvoice(d, rest) PROVE PlainWorth'
  <2>1. Worth(items') = Worth(items) + 0
    BY <1>8, WorthType DEF PayInvoice
  <2>. QED BY <1>3, <1>8, <2>1, PayEntry, WorthMoves
<1>9. ASSUME NEW r \in Deliveries, Receive(r.product, r.qty, r.cost) PROVE PlainWorth'
  <2> DEFINE lines == [x \in {r.product} |-> r.qty]
             cost == [x \in {r.product} |-> r.cost]
             p == r.product
             n == r.qty * r.cost
  <2>1. p \in Products /\ r.qty \in Nat \ {0} /\ r.cost \in Nat
    BY DaysConstants
  <2>2. lines \in LineSets /\ DOMAIN lines = {p} /\ lines[p] = r.qty
    BY <2>1, OneLineType
  <2>3. cost \in [{p} -> Nat] /\ cost[p] = r.cost
    BY <2>1
  <2>4. StockIn(lines, cost)
    BY <1>9 DEF Receive
  <2>5. Divides(items[p], r.qty, r.cost)
    BY <1>2, <1>9 DEF WholeAverages
  <2>6. n \in Int
    BY <2>1
  <2>7. CostOf(lines, cost) = lines[p] * cost[p]
    <3> DEFINE f == [x \in DOMAIN lines |-> lines[x] * cost[x]]
    <3>1. CostOf(lines, cost) = SumFunctionOnSet(f, {p})
      BY <2>2 DEF CostOf, SumFunction
    <3>2. f[p] = lines[p] * cost[p] /\ f[p] \in Int
      BY <2>2, <2>3, <2>6
    <3> HIDE DEF f
    <3>. QED BY <3>1, <3>2, SumSingle
  <2> HIDE DEF lines, cost
  <2>8. Worth(items') = Worth(items) + CostOf(lines, cost)
    BY <2>2, <2>3, <2>4, <2>5, WorthIn
  <2>9. Worth(items') = Worth(items) + n
    BY <2>2, <2>3, <2>7, <2>8
  <2>. QED BY <1>3, <1>9, <2>6, <2>9, ReceiveEntry, WorthMoves
<1>10. ASSUME ClosePeriod PROVE PlainWorth'
  <2>1. Worth(items') = Worth(items) + 0
    BY <1>10, WorthType DEF ClosePeriod
  <2>. QED BY <1>3, <1>10, <2>1, CloseEntry, WorthMoves
<1>11. CASE Tick
  <2>1. CASE early
    BY <1>4, <1>11, <2>1 DEF Tick, trade
  <2>2. CASE ~early
    <3>1. Ledger(book', Days', "inventory") = Ledger(book, Days, "inventory") /\ UNCHANGED items
      BY <1>11, <2>2, NextDayLedger, AccountNames DEF Tick
    <3>. QED BY <1>3, <3>1 DEF PlainWorth
  <2>. QED BY <2>1, <2>2
<1>12. CASE Notify
  BY <1>4, <1>12 DEF Notify, trade
<1>13. CASE Trade
  BY <1>3, <1>4, <1>5, <1>6, <1>7, <1>8, <1>9, <1>10, <1>13
     DEF Trade, DraftInvoice, Refused, PutIn, TakeOut, Adjust, DeleteDocument, DeleteReceipt, trade
<1>. QED BY <1>3, <1>11, <1>12, <1>13 DEF DaysNext

LEMMA BookStart == ASSUME DaysInit PROVE BookOK /\ \A a \in Accounts : book[1][a] = 0 /\ Ledger(book, Days, a) = 0
<1> DEFINE none == [a \in Accounts |-> 0]
<1>1. today = 1 /\ book = <<none>> /\ none \in Nets
  BY DEF DaysInit, Accounts, Nets
<1>2. \A a \in Accounts : none[a] = 0
  OBVIOUS
<1> HIDE DEF none
<1>3. BookOK /\ book[1] = none
  BY <1>1 DEF BookOK
<1>4. ASSUME NEW a \in Accounts PROVE Ledger(book, Days, a) = 0
  <2> DEFINE f == [d \in Days |-> book[d][a]]
  <2>1. Days = {1} /\ IsFiniteSet({1})
    <3>1. 1..1 = {1}
      OBVIOUS
    <3>2. IsFiniteSet({1})
      BY FS_Singleton
    <3>. QED BY <1>1, <3>1, <3>2 DEF Days
  <2>2. \A d \in Days : f[d] = 0
    BY <1>2, <1>3, <2>1
  <2>3. Ledger(book, Days, a) = SumFunctionOnSet(f, Days)
    BY DEF Ledger
  <2> HIDE DEF f
  <2>. QED BY <2>1, <2>2, <2>3, SumZero
<1>. QED BY <1>2, <1>3, <1>4

LEMMA PlainWorthStart == ASSUME MCDaysInit PROVE PlainWorth
<1> DEFINE f == [p \in Products |-> items[p].onHand * items[p].cost]
<1>1. items = [p \in Products |-> [onHand |-> 0, cost |-> 0]] /\ DaysInit
  BY DEF MCDaysInit, DaysInit
<1>2. \A p \in Products : f[p] = 0
  BY <1>1
<1>3. Worth(items) = SumFunctionOnSet(f, Products) /\ IsFiniteSet(Products)
  BY DaysConstants DEF Worth
<1> HIDE DEF f
<1>4. Worth(items) = 0
  BY <1>2, <1>3, SumZero
<1>. QED BY <1>1, <1>4, BookStart, AccountNames DEF PlainWorth

BookTypeOK == DaysTypeOK /\ BookOK

\* Rows, calendar, stock, journal, notices and scans stay within their types.
THEOREM BooksTypeCorrect == MCDaysSpec => []BookTypeOK
<1>1. MCDaysInit => BookTypeOK
  BY DaysStart, BookStart DEF MCDaysInit, BookTypeOK
<1>2. BookTypeOK /\ [MCDaysNext]_<<dayVars, history>> => BookTypeOK'
  BY DaysTypeStep, BookStep DEF BookTypeOK, DaysTypeOK, MCDaysNext
<1>. QED BY <1>1, <1>2, PTL DEF MCDaysSpec

\* As long as nothing is put in, taken out or adjusted by hand and the average
\* costs come out whole, the inventory valuation is the balance of the inventory
\* account, whatever documents and receipts are deleted and whenever books close.
THEOREM StockIsWorthItsAccount ==
    MCDaysSpec /\ [][WholeAverages]_dayVars => []PlainWorthIsInventory
<1>1. MCDaysInit => PlainWorth
  BY PlainWorthStart
<1>2. BookTypeOK /\ PlainWorth /\ [MCDaysNext]_<<dayVars, history>> /\ [WholeAverages]_dayVars => PlainWorth'
  BY PlainWorthStep DEF BookTypeOK, DaysTypeOK
<1>3. BookTypeOK /\ PlainWorth => PlainWorthIsInventory
  BY ValuationIsWorth, LedgerIsBalance, AccountNames
     DEF BookTypeOK, DaysTypeOK, PlainWorth, PlainWorthIsInventory
<1>. QED BY <1>1, <1>2, <1>3, BooksTypeCorrect, PTL DEF MCDaysSpec

----------------------------------------------------------------------------
(* The ranking of the best sellers.                                        *)

IsRanking(f, S, rows) ==
    /\ rows \in [1..Cardinality(S) -> S] /\ IsInjective(rows)
    /\ \A j, k \in DOMAIN rows : j < k => f[rows[j]] >= f[rows[k]]

LEMMA SmallestValue ==
    ASSUME NEW S, IsFiniteSet(S), S # {}, NEW f, \A x \in S : f[x] \in Int
    PROVE  \E x \in S : \A y \in S : f[y] >= f[x]
<1> DEFINE T == {0 - f[x] : x \in S}
<1>1. IsFiniteSet(T) /\ T \subseteq Int /\ T # {}
  <2> DEFINE g == [x \in S |-> 0 - f[x]]
  <2>1. T = {g[x] : x \in S} /\ \A x \in S : g[x] \in Int
    OBVIOUS
  <2> HIDE DEF g, T
  <2>2. IsFiniteSet(T)
    BY <2>1, FiniteImage
  <2>. QED BY <2>1, <2>2
<1>2. Max(T) \in T /\ \A y \in T : Max(T) >= y
  BY <1>1, LargestExists
<1>3. PICK x \in S : Max(T) = 0 - f[x]
  BY <1>2
<1>4. ASSUME NEW y \in S PROVE f[y] >= f[x]
  <2>1. 0 - f[x] >= 0 - f[y]
    BY <1>2, <1>3
  <2>. QED BY <2>1
<1>. QED BY <1>4

LEMMA RankingGrows ==
    ASSUME NEW S, IsFiniteSet(S), NEW x \in S, NEW f, \A y \in S : f[y] \in Int /\ f[y] >= f[x],
           NEW rows, IsRanking(f, S \ {x}, rows)
    PROVE  \E new : IsRanking(f, S, new)
<1> DEFINE n == Cardinality(S)
           m == Cardinality(S \ {x})
           new == [k \in 1..n |-> IF k = n THEN x ELSE rows[k]]
<1>1. m \in Nat /\ n = m + 1
  <2>1. IsFiniteSet(S \ {x}) /\ m = n - 1
    BY FS_RemoveElement
  <2>2. n \in Nat /\ m \in Nat
    BY <2>1, FS_CardinalityType
  <2> HIDE DEF m, n
  <2>. QED BY <2>1, <2>2
<1>2. rows \in [1..m -> S \ {x}] /\ IsInjective(rows)
      /\ \A j, k \in 1..m : j < k => f[rows[j]] >= f[rows[k]]
  BY DEF IsRanking
<1> HIDE DEF m, n
<1>3. \A k \in 1..n : k = n \/ k \in 1..m
  BY <1>1
<1>4. new \in [1..n -> S] /\ (\A k \in 1..m : new[k] = rows[k] /\ rows[k] \in S \ {x}) /\ new[n] = x
  BY <1>1, <1>2, <1>3
<1> HIDE DEF new
<1>5. ASSUME NEW j \in 1..n, NEW k \in 1..n, new[j] = new[k] PROVE j = k
  <2>1. CASE j = n \/ k = n
    BY <1>3, <1>4, <1>5, <2>1
  <2>2. CASE j # n /\ k # n
    BY <1>2, <1>3, <1>4, <1>5, <2>2 DEF IsInjective
  <2>. QED BY <2>1, <2>2
<1>6. ASSUME NEW j \in 1..n, NEW k \in 1..n, j < k PROVE f[new[j]] >= f[new[k]]
  <2>1. j \in 1..m
    BY <1>1, <1>6
  <2>2. CASE k = n
    BY <1>4, <2>1, <2>2
  <2>3. CASE k # n
    <3>1. k \in 1..m
      BY <1>3, <2>3
    <3>. QED BY <1>2, <1>4, <1>6, <2>1, <3>1
  <2>. QED BY <2>2, <2>3
<1>7. IsInjective(new)
  BY <1>4, <1>5 DEF IsInjective
<1>8. DOMAIN new = 1..n
  BY <1>4
<1>. QED BY <1>4, <1>6, <1>7, <1>8 DEF IsRanking, n

LEMMA RankingExists ==
    ASSUME NEW S, IsFiniteSet(S), NEW f, \A x \in S : f[x] \in Int
    PROVE  \E rows : IsRanking(f, S, rows)
<1> DEFINE T == {s \in SUBSET S : ~ \E rows : IsRanking(f, s, rows)}
<1>1. SUFFICES ASSUME T # {} PROVE FALSE
  <2>1. S \in SUBSET S
    OBVIOUS
  <2>. QED BY <2>1
<1>2. PICK s \in T : \A x \in s : s \ {x} \notin T
  BY <1>1, SmallestSubset
<1>3. IsFiniteSet(s) /\ s \in SUBSET S /\ ~ \E rows : IsRanking(f, s, rows)
  BY <1>2, FS_Subset
<1>4. CASE s = {}
  <2> DEFINE rows == [k \in 1..0 |-> k]
  <2>1. rows \in [1..0 -> {}] /\ DOMAIN rows = {} /\ Cardinality({}) = 0
    BY FS_EmptySet
  <2> HIDE DEF rows
  <2>2. IsRanking(f, {}, rows)
    BY <2>1 DEF IsRanking, IsInjective
  <2>. QED BY <1>3, <1>4, <2>2
<1>5. CASE s # {}
  <2>1. PICK x \in s : \A y \in s : f[y] >= f[x]
    BY <1>3, <1>5, SmallestValue
  <2>2. PICK rows : IsRanking(f, s \ {x}, rows)
    BY <1>2, <1>3, <2>1
  <2>3. \A y \in s : f[y] \in Int /\ f[y] >= f[x]
    BY <1>3, <2>1
  <2>4. \E new : IsRanking(f, s, new)
    BY ONLY <1>3, <2>2, <2>3, x \in s, RankingGrows
  <2>. QED BY <1>3, <2>4
<1>. QED BY <1>4, <1>5

\* A ranking lists every product once.
LEMMA RankedFacts ==
    ASSUME NEW S, IsFiniteSet(S), NEW f, \A x \in S : f[x] \in Int
    PROVE  LET rows == Ranked(f, S)
               n == Cardinality(S)
           IN  /\ n \in Nat /\ rows \in [1..n -> S] /\ Len(rows) = n
               /\ \A j, k \in 1..n : rows[j] = rows[k] => j = k
               /\ S = {rows[k] : k \in 1..n}
<1> DEFINE rows == Ranked(f, S)
           n == Cardinality(S)
           T == {rows[k] : k \in 1..n}
<1>1. n \in Nat /\ IsFiniteSet(1..n) /\ Cardinality(1..n) = n
  <2>1. n \in Nat
    BY FS_CardinalityType
  <2> HIDE DEF n
  <2>. QED BY <2>1, FS_Interval
<1>2. \E r : IsRanking(f, S, r)
  BY RankingExists
<1>3. rows \in [1..n -> S] /\ IsInjective(rows)
  BY <1>2 DEF IsRanking, Ranked
<1> HIDE DEF rows, n
<1>4. rows \in Injection(1..n, S)
  BY <1>3 DEF Injection
<1>5. rows \in Surjection(1..n, S)
  BY <1>1, <1>4, FS_Injection DEF n
<1>6. S = T
  BY <1>3, <1>5 DEF Surjection
<1>7. rows \in Seq(S) /\ Len(rows) = n
  BY <1>1, <1>3
<1>8. \A j, k \in 1..n : rows[j] = rows[k] => j = k
  BY <1>3 DEF IsInjective
<1>. QED BY <1>1, <1>3, <1>6, <1>7, <1>8 DEF rows, n

----------------------------------------------------------------------------
(* What was sold, by document, by product and by day.                      *)

Sold(docs) == {i \in DOMAIN docs : IsSale(docs[i])}
NetSales(docs) == SumFunction([i \in Sold(docs) |-> Subtotal(docs[i])])
TaxOnSales(docs) == SumFunction([i \in Sold(docs) |-> TaxTotal(docs[i])])
DaySales(docs, d) == SumFunction([i \in Sales(docs, {d}) |-> DocTotal(docs[i])])
DatedOK == \A i \in DOMAIN documents : documents[i].day \in Days

LEMMA SoldFacts ==
    ASSUME DocumentsOK
    PROVE  /\ IsFiniteSet(Sold(documents)) /\ IsFiniteSet(DOMAIN documents)
           /\ \A i \in Sold(documents) :
                 /\ documents[i] \in DocumentRows
                 /\ Subtotal(documents[i]) \in Nat /\ TaxTotal(documents[i]) \in Nat
                 /\ DocTotal(documents[i]) = Subtotal(documents[i]) + TaxTotal(documents[i])
<1>1. DOMAIN documents = 1..Len(documents) /\ Len(documents) \in Nat
  BY DEF DocumentsOK
<1>2. IsFiniteSet(DOMAIN documents)
  BY <1>1, FS_Interval
<1>3. IsFiniteSet(Sold(documents))
  BY <1>2, FS_Subset DEF Sold
<1>4. \A i \in Sold(documents) : documents[i] \in DocumentRows
  BY RowLines DEF Sold
<1>. QED BY <1>2, <1>3, <1>4, TotalsType DEF DocTotal

LEMMA AllSales ==
    ASSUME DatedOK PROVE Sales(documents, Days) = Sold(documents)
BY DEF DatedOK, Sales, Sold

\* The table of what each sale earned on each product.
EarnedOn(doc, p) == IF p \in DOMAIN doc.lines THEN LineRevenue(doc, p) ELSE 0
Earnings == [i \in Sold(documents) |-> [p \in Products |-> EarnedOn(documents[i], p)]]

LEMMA SubtotalByProduct ==
    ASSUME NEW doc \in DocumentRows
    PROVE  /\ \A p \in Products : EarnedOn(doc, p) \in Nat
           /\ SumFunctionOnSet([p \in Products |-> EarnedOn(doc, p)], Products) = Subtotal(doc)
<1> DEFINE S == DOMAIN doc.lines
           f == [p \in Products |-> EarnedOn(doc, p)]
           g == [p \in S |-> LineRevenue(doc, p)]
<1>1. S \in SUBSET Products /\ IsFiniteSet(S) /\ IsFiniteSet(Products)
  BY LinesType, DaysConstants DEF DocumentRows
<1>2. \A p \in Products : EarnedOn(doc, p) \in Nat
  BY RevenueType DEF EarnedOn
<1>3. (\A p \in S : f[p] \in Int /\ f[p] = g[p]) /\ (\A p \in Products \ S : f[p] = 0)
  BY <1>1, <1>2 DEF EarnedOn
<1>4. Subtotal(doc) = SumFunctionOnSet(g, S)
  BY DEF Subtotal, SumFunction
<1> HIDE DEF f, g, S
<1>5. SumFunctionOnSet(f, Products) = SumFunctionOnSet(f, S)
  BY <1>1, <1>3, SumSupport
<1>6. SumFunctionOnSet(f, S) = SumFunctionOnSet(g, S)
  BY <1>1, <1>3, SumEqual
<1>. QED BY <1>2, <1>4, <1>5, <1>6 DEF f

LEMMA EarningsByProduct ==
    ASSUME DocumentsOK
    PROVE  /\ \A p \in Products : ColumnSums(Earnings, Sold(documents), Products)[p] \in Int
           /\ SumFunctionOnSet(ColumnSums(Earnings, Sold(documents), Products), Products) = NetSales(documents)
<1> DEFINE A == Sold(documents)
           f == RowSums(Earnings, A, Products)
           g == [i \in A |-> Subtotal(documents[i])]
<1>1. IsFiniteSet(A) /\ IsFiniteSet(Products)
  BY SoldFacts, DaysConstants
<1>2. \A i \in A : /\ Earnings[i] = [p \in Products |-> EarnedOn(documents[i], p)]
                   /\ documents[i] \in DocumentRows
  BY SoldFacts DEF Earnings
<1>3. IntTable(Earnings, A, Products)
  <2>1. ASSUME NEW i \in A, NEW p \in Products PROVE Earnings[i][p] \in Int
    <3>1. Earnings[i][p] = EarnedOn(documents[i], p)
      BY <1>2
    <3>2. EarnedOn(documents[i], p) \in Nat
      BY <1>2, SubtotalByProduct
    <3>. QED BY ONLY <3>1, <3>2
  <2>. QED BY <2>1 DEF IntTable
<1>4. ASSUME NEW i \in A PROVE f[i] = g[i]
  <2>1. f[i] = SumFunctionOnSet(Earnings[i], Products)
    BY DEF RowSums
  <2>2. f[i] = SumFunctionOnSet([p \in Products |-> EarnedOn(documents[i], p)], Products)
    BY <1>2, <2>1, Zenon
  <2>3. g[i] = Subtotal(documents[i]) /\ documents[i] \in DocumentRows
    BY <1>2
  <2> HIDE DEF f, g
  <2>. QED BY <2>2, <2>3, SubtotalByProduct, Zenon
<1>5. NetSales(documents) = SumFunctionOnSet(g, A)
  BY DEF NetSales, SumFunction
<1> HIDE DEF f, g, A
<1>6. SumFunctionOnSet(f, A) = SumFunctionOnSet(g, A)
  BY <1>1, <1>4, SumEqual
<1>7. SumFunctionOnSet(ColumnSums(Earnings, A, Products), Products) = SumFunctionOnSet(f, A)
  BY <1>1, <1>3, SumSwap DEF f
<1>8. ASSUME NEW p \in Products PROVE ColumnSums(Earnings, A, Products)[p] \in Int
  <2> DEFINE h == [i \in A |-> Earnings[i][p]]
  <2>1. \A i \in A : h[i] \in Int
    BY <1>3 DEF IntTable
  <2>2. ColumnSums(Earnings, A, Products)[p] = SumFunctionOnSet(h, A)
    BY DEF ColumnSums
  <2> HIDE DEF h
  <2>. QED BY <1>1, <2>1, <2>2, SumInt
<1>. QED BY <1>5, <1>6, <1>7, <1>8 DEF A

\* SoldIn reports each product's column.
LEMMA SoldInColumns ==
    ASSUME DocumentsOK, DatedOK
    PROVE  LET sold == SoldIn(documents, Days)
               column == ColumnSums(Earnings, Sold(documents), Products)
           IN  /\ DOMAIN sold \subseteq Products
               /\ \A p \in DOMAIN sold : sold[p].revenue = column[p]
               /\ \A p \in Products \ DOMAIN sold : column[p] = 0
<1> DEFINE A == Sold(documents)
           with(p) == {i \in A : p \in DOMAIN documents[i].lines}
           Q == {q \in Products : with(q) # {}}
           sold == SoldIn(documents, Days)
           column == ColumnSums(Earnings, A, Products)
<1>1. sold = [p \in Q |-> [qty     |-> SumFunction([i \in with(p) |-> documents[i].lines[p]]),
                           revenue |-> SumFunction([i \in with(p) |-> LineRevenue(documents[i], p)])]]
  BY AllSales DEF SoldIn
<1>2. ASSUME NEW p \in Products
      PROVE  column[p] = SumFunction([i \in with(p) |-> LineRevenue(documents[i], p)])
  <2> DEFINE W == with(p)
             f == [i \in A |-> Earnings[i][p]]
             g == [i \in W |-> LineRevenue(documents[i], p)]
  <2>1. IsFiniteSet(A) /\ IsFiniteSet(W) /\ W \in SUBSET A
    BY SoldFacts, FS_Subset
  <2>2. ASSUME NEW i \in A PROVE f[i] = EarnedOn(documents[i], p) /\ f[i] \in Int
    <3>1. f[i] = EarnedOn(documents[i], p)
      BY DEF Earnings
    <3>2. EarnedOn(documents[i], p) \in Nat
      BY SoldFacts, SubtotalByProduct
    <3>. QED BY ONLY <3>1, <3>2
  <2>3. (\A i \in W : f[i] = g[i]) /\ (\A i \in A \ W : f[i] = 0)
    BY <2>2 DEF EarnedOn
  <2>4. column[p] = SumFunctionOnSet(f, A) /\ SumFunction(g) = SumFunctionOnSet(g, W)
    BY DEF ColumnSums, SumFunction
  <2> HIDE DEF f, g, A, W
  <2>5. SumFunctionOnSet(f, A) = SumFunctionOnSet(f, W)
    BY <2>1, <2>2, <2>3, SumSupport
  <2>6. SumFunctionOnSet(f, W) = SumFunctionOnSet(g, W)
    BY <2>1, <2>3, SumEqual
  <2>. QED BY <2>4, <2>5, <2>6 DEF g, W
<1>3. ASSUME NEW p \in Products, with(p) = {}
      PROVE  SumFunction([i \in with(p) |-> LineRevenue(documents[i], p)]) = 0
  <2> DEFINE g == [i \in with(p) |-> LineRevenue(documents[i], p)]
  <2>1. SumFunction(g) = SumFunctionOnSet(g, {})
    BY <1>3 DEF SumFunction
  <2> HIDE DEF g
  <2>2. SumFunction(g) = 0
    BY <2>1, SumEmpty
  <2>. QED BY <2>2 DEF g
<1> HIDE DEF sold, column, with, A
<1>4. DOMAIN sold = Q /\ \A p \in Q : sold[p].revenue = SumFunction([i \in with(p) |-> LineRevenue(documents[i], p)])
  BY <1>1
<1>5. \A p \in DOMAIN sold : sold[p].revenue = column[p]
  BY <1>2, <1>4
<1>6. \A p \in Products \ DOMAIN sold : column[p] = 0
  BY <1>2, <1>3, <1>4
<1>. QED BY <1>4, <1>5, <1>6 DEF sold, column, A

\* The best sellers, all of them, earned what the documents come to without tax.
LEMMA BestSellersEarn ==
    ASSUME DocumentsOK, DatedOK
    PROVE  LET best == TopProducts(documents, Days, Cardinality(Products))
           IN  SumFunction([k \in DOMAIN best |-> best[k].sold.revenue]) = NetSales(documents)
<1> DEFINE sold == SoldIn(documents, Days)
           Q == DOMAIN sold
           f == [p \in Q |-> sold[p].revenue]
           column == ColumnSums(Earnings, Sold(documents), Products)
           rows == Ranked(f, Q)
           n == Cardinality(Q)
           best == TopProducts(documents, Days, Cardinality(Products))
           g == [k \in DOMAIN best |-> best[k].sold.revenue]
<1>1. Q \in SUBSET Products /\ (\A p \in Q : f[p] = column[p]) /\ \A p \in Products \ Q : column[p] = 0
  BY SoldInColumns
<1>2. \A p \in Products : column[p] \in Int
  BY EarningsByProduct
<1>3. IsFiniteSet(Products) /\ IsFiniteSet(Q) /\ n <= Cardinality(Products) /\ Cardinality(Products) \in Nat
  BY <1>1, DaysConstants, FS_Subset, FS_CardinalityType
<1>4. best = [k \in 1..Min({Cardinality(Products), Len(rows)}) |-> [product |-> rows[k], sold |-> sold[rows[k]]]]
  BY DEF TopProducts
<1>5. \A p \in Q : f[p] = sold[p].revenue /\ f[p] \in Int
  BY <1>1, <1>2
<1> HIDE DEF best, sold, Q, f, column
<1>6. /\ n \in Nat /\ rows \in [1..n -> Q] /\ Len(rows) = n
      /\ \A j, k \in 1..n : rows[j] = rows[k] => j = k
      /\ Q = {rows[k] : k \in 1..n}
  BY <1>3, <1>5, RankedFacts
<1> HIDE DEF rows, n
<1>7. Min({Cardinality(Products), Len(rows)}) = n
  BY <1>3, <1>6 DEF Min
<1>8. DOMAIN g = 1..n /\ \A k \in 1..n : g[k] = f[rows[k]] /\ f[rows[k]] \in Int
  BY <1>4, <1>5, <1>6, <1>7
<1>9. SumFunction(g) = SumFunctionOnSet(g, 1..n)
  BY <1>8 DEF SumFunction
<1> HIDE DEF g
<1>10. SumFunctionOnSet(g, 1..n) = SumFunctionOnSet(f, {rows[k] : k \in 1..n})
  <2>1. IsFiniteSet(1..n)
    BY <1>6, FS_Interval
  <2> DEFINE S == 1..n
  <2>2. IsFiniteSet(S) /\ (\A k \in S : g[k] = f[rows[k]] /\ f[rows[k]] \in Int)
        /\ \A j, k \in S : rows[j] = rows[k] => j = k
    BY <1>6, <1>8, <2>1
  <2> HIDE DEF S
  <2>3. SumFunctionOnSet(g, S) = SumFunctionOnSet(f, {rows[k] : k \in S})
    BY ONLY <2>2, SumReindex
  <2>. QED BY <2>3 DEF S
<1>11. SumFunctionOnSet(f, Q) = SumFunctionOnSet(column, Q)
  BY <1>1, <1>3, SumEqual
<1>12. SumFunctionOnSet(column, Products) = SumFunctionOnSet(column, Q)
  BY <1>1, <1>2, <1>3, SumSupport
<1>13. SumFunctionOnSet(column, Products) = NetSales(documents)
  BY EarningsByProduct DEF column
<1>14. SumFunction(g) = NetSales(documents)
  BY <1>6, <1>9, <1>10, <1>11, <1>12, <1>13
<1>. QED BY <1>14 DEF g, best

\* The table of what each sale came to on each day.
Takings == [i \in Sold(documents) |-> [d \in Days |->
              IF documents[i].day = d THEN DocTotal(documents[i]) ELSE 0]]

\* The days of the sales summary add up to the documents.
LEMMA DaysAddUp ==
    ASSUME DocumentsOK, CalendarOK, DatedOK
    PROVE  SumFunctionOnSet([d \in Days |-> DaySales(documents, d)], Days)
             = NetSales(documents) + TaxOnSales(documents)
<1> DEFINE A == Sold(documents)
           total == [i \in A |-> DocTotal(documents[i])]
           net == [i \in A |-> Subtotal(documents[i])]
           tax == [i \in A |-> TaxTotal(documents[i])]
           column == ColumnSums(Takings, A, Days)
           row == RowSums(Takings, A, Days)
<1>1. IsFiniteSet(A) /\ IsFiniteSet(Days)
  BY SoldFacts, FS_Interval DEF Days, CalendarOK
<1>2. \A i \in A : total[i] \in Int /\ net[i] \in Int /\ tax[i] \in Int /\ net[i] = total[i] - tax[i]
  BY SoldFacts
<1>3. NetSales(documents) = SumFunctionOnSet(net, A) /\ TaxOnSales(documents) = SumFunctionOnSet(tax, A)
  BY DEF NetSales, TaxOnSales, SumFunction
<1>4. IntTable(Takings, A, Days)
  BY SoldFacts DEF IntTable, Takings
<1>5. ASSUME NEW i \in A PROVE row[i] = total[i]
  <2> DEFINE f == [d \in Days |-> IF documents[i].day = d THEN DocTotal(documents[i]) ELSE 0]
             D == {documents[i].day}
             m == documents[i].day
  <2>1. m \in Days
    BY DEF DatedOK, Sold
  <2>2. f[m] = total[i] /\ f[m] \in Int /\ \A d \in Days \ {m} : f[d] = 0
    BY <1>2, <2>1
  <2>3. row[i] = SumFunctionOnSet(f, Days)
    BY DEF RowSums, Takings
  <2> HIDE DEF f, m
  <2>4. {m} \in SUBSET Days /\ \A d \in {m} : f[d] \in Int
    BY <2>1, <2>2
  <2>5. SumFunctionOnSet(f, Days) = SumFunctionOnSet(f, {m})
    BY ONLY <1>1, <2>2, <2>4, SumSupport
  <2>. QED BY <2>2, <2>3, <2>5, SumSingle
<1>6. ASSUME NEW d \in Days PROVE column[d] = DaySales(documents, d)
  <2> DEFINE W == Sales(documents, {d})
             f == [i \in A |-> Takings[i][d]]
             g == [i \in W |-> DocTotal(documents[i])]
  <2>1. W = {i \in A : documents[i].day = d}
    BY DEF Sales, Sold
  <2>2. W \in SUBSET A /\ IsFiniteSet(W)
    BY <1>1, <2>1, FS_Subset
  <2>3. (\A i \in W : f[i] = g[i] /\ f[i] \in Int) /\ \A i \in A \ W : f[i] = 0
    BY <1>2, <2>1 DEF Takings
  <2>4. column[d] = SumFunctionOnSet(f, A) /\ DaySales(documents, d) = SumFunctionOnSet(g, W)
    BY DEF ColumnSums, DaySales, SumFunction
  <2> HIDE DEF f, g, W, A
  <2>5. SumFunctionOnSet(f, A) = SumFunctionOnSet(f, W)
    BY <1>1, <2>2, <2>3, SumSupport
  <2>6. SumFunctionOnSet(f, W) = SumFunctionOnSet(g, W)
    BY <2>2, <2>3, SumEqual
  <2>. QED BY <2>4, <2>5, <2>6
<1> DEFINE daily == [d \in Days |-> DaySales(documents, d)]
<1>7. \A d \in Days : daily[d] = column[d]
  BY <1>6
<1> HIDE DEF A, total, net, tax, column, row, daily
<1>8. SumFunctionOnSet(daily, Days) = SumFunctionOnSet(column, Days)
  BY <1>1, <1>7, SumEqual
<1>9. SumFunctionOnSet(column, Days) = SumFunctionOnSet(row, A)
  BY <1>1, <1>4, SumSwap DEF column, row
<1>10. SumFunctionOnSet(row, A) = SumFunctionOnSet(total, A)
  BY <1>1, <1>5, SumEqual
<1>11. SumFunctionOnSet(net, A) = SumFunctionOnSet(total, A) - SumFunctionOnSet(tax, A)
  BY <1>1, <1>2, SumMinus
<1>12. SumFunctionOnSet(total, A) \in Int /\ SumFunctionOnSet(tax, A) \in Int
  BY <1>1, <1>2, SumInt
<1>. QED BY <1>3, <1>8, <1>9, <1>10, <1>11, <1>12 DEF daily

----------------------------------------------------------------------------
(* A step leaves the sales as they are, adds one or takes one back.        *)

SameRow(a, b) ==
    /\ a.day = b.day /\ Subtotal(a) = Subtotal(b)
    /\ TaxTotal(a) = TaxTotal(b) /\ DocTotal(a) = DocTotal(b)
DocsKept == \A i \in DOMAIN documents : i \in DOMAIN documents' /\ SameRow(documents'[i], documents[i])
SoldStays == Sold(documents') = Sold(documents)
SoldJoins(k) == k \notin Sold(documents) /\ Sold(documents') = Sold(documents) \cup {k}
SoldLeaves(k) == k \in Sold(documents) /\ Sold(documents') = Sold(documents) \ {k}

LEMMA SameTotals ==
    ASSUME NEW a, NEW b, a.lines = b.lines, a.percent = b.percent
    PROVE  Subtotal(a) = Subtotal(b) /\ TaxTotal(a) = TaxTotal(b) /\ DocTotal(a) = DocTotal(b)
<1>1. Subtotal(a) = Subtotal(b)
  BY Zenon DEF Subtotal, LineRevenue
<1>. QED BY <1>1, Zenon DEF TaxTotal, DocTotal

LEMMA StatusKeeps ==
    ASSUME DocumentsOK, NEW k \in DOMAIN documents, NEW status,
           documents' = [documents EXCEPT ![k].status = status]
    PROVE  /\ DocsKept /\ DOMAIN documents' = DOMAIN documents
           /\ documents'[k].status = status /\ documents'[k].kind = documents[k].kind
           /\ \A i \in DOMAIN documents \ {k} : documents'[i] = documents[i]
<1>1. documents[k] \in DocumentRows
  BY RowLines
<1>2. DOMAIN documents' = DOMAIN documents /\ documents'[k] = [documents[k] EXCEPT !.status = status]
      /\ \A i \in DOMAIN documents \ {k} : documents'[i] = documents[i]
  BY DEF DocumentsOK
<1>3. /\ documents'[k].status = status /\ documents'[k].kind = documents[k].kind
      /\ documents'[k].day = documents[k].day /\ documents'[k].lines = documents[k].lines
      /\ documents'[k].percent = documents[k].percent
  BY <1>1, <1>2 DEF DocumentRows
<1>4. ASSUME NEW i \in DOMAIN documents
      PROVE  /\ i \in DOMAIN documents' /\ documents'[i].day = documents[i].day
             /\ documents'[i].lines = documents[i].lines /\ documents'[i].percent = documents[i].percent
  BY <1>2, <1>3, Zenon
<1>5. DocsKept
  BY <1>4, SameTotals, Zenon DEF DocsKept, SameRow
<1>. QED BY <1>2, <1>3, <1>5

LEMMA AppendKeeps ==
    ASSUME DocumentsOK, NEW doc, documents' = Append(documents, doc)
    PROVE  LET k == Len(documents) + 1
           IN  /\ DocsKept /\ k \notin DOMAIN documents /\ DOMAIN documents' = DOMAIN documents \cup {k}
               /\ documents'[k] = doc /\ \A i \in DOMAIN documents : documents'[i] = documents[i]
<1> DEFINE k == Len(documents) + 1
<1>1. Len(documents) \in Nat /\ DOMAIN documents = 1..Len(documents) /\ documents \in Seq(DocumentRows)
  BY DEF DocumentsOK
<1>2. DOMAIN documents' = 1..k /\ documents'[k] = doc /\ \A i \in 1..Len(documents) : documents'[i] = documents[i]
  BY <1>1
<1>3. k \notin 1..Len(documents) /\ 1..k = 1..Len(documents) \cup {k}
  BY <1>1
<1> HIDE DEF k
<1>4. DocsKept
  BY <1>1, <1>2, <1>3, Zenon DEF DocsKept, SameRow
<1>. QED BY <1>1, <1>2, <1>3, <1>4, Zenon DEF k

LEMMA SalesTypes ==
    ASSUME NEW docs, IsFiniteSet(Sold(docs)), \A i \in Sold(docs) : docs[i] \in DocumentRows
    PROVE  /\ NetSales(docs) \in Int /\ TaxOnSales(docs) \in Int
           /\ \A d : DaySales(docs, d) \in Int
<1> DEFINE A == Sold(docs)
           net == [i \in A |-> Subtotal(docs[i])]
           tax == [i \in A |-> TaxTotal(docs[i])]
<1>1. IsFiniteSet(A) /\ \A i \in A : net[i] \in Int /\ tax[i] \in Int /\ DocTotal(docs[i]) \in Int
  BY TotalsType
<1>2. NetSales(docs) = SumFunctionOnSet(net, A) /\ TaxOnSales(docs) = SumFunctionOnSet(tax, A)
  BY DEF NetSales, TaxOnSales, SumFunction
<1>3. ASSUME NEW d PROVE DaySales(docs, d) \in Int
  <2> DEFINE W == Sales(docs, {d})
             f == [i \in W |-> DocTotal(docs[i])]
  <2>1. W \subseteq A /\ IsFiniteSet(W)
    <3>1. W \subseteq A
      BY DEF Sales, Sold
    <3>. QED BY <1>1, <3>1, FS_Subset
  <2>2. \A i \in W : f[i] \in Int
    BY <1>1, <2>1
  <2>3. DaySales(docs, d) = SumFunctionOnSet(f, W)
    BY DEF DaySales, SumFunction
  <2> HIDE DEF f, W
  <2>. QED BY <2>1, <2>2, <2>3, SumInt
<1> HIDE DEF net, tax, A
<1>. QED BY <1>1, <1>2, <1>3, SumInt

LEMMA SalesStay ==
    ASSUME DocumentsOK, DocsKept, SoldStays
    PROVE  /\ NetSales(documents') = NetSales(documents) /\ TaxOnSales(documents') = TaxOnSales(documents)
           /\ \A d : DaySales(documents', d) = DaySales(documents, d)
<1> DEFINE A == Sold(documents)
<1>1. \A i \in A : /\ Subtotal(documents'[i]) = Subtotal(documents[i])
                   /\ TaxTotal(documents'[i]) = TaxTotal(documents[i])
                   /\ DocTotal(documents'[i]) = DocTotal(documents[i])
                   /\ documents'[i].day = documents[i].day
  BY DEF DocsKept, SameRow, Sold
<1>2. [i \in A |-> Subtotal(documents'[i])] = [i \in A |-> Subtotal(documents[i])]
      /\ [i \in A |-> TaxTotal(documents'[i])] = [i \in A |-> TaxTotal(documents[i])]
  BY <1>1
<1>3. NetSales(documents') = NetSales(documents) /\ TaxOnSales(documents') = TaxOnSales(documents)
  BY <1>2 DEF NetSales, TaxOnSales, SoldStays
<1>4. ASSUME NEW d PROVE DaySales(documents', d) = DaySales(documents, d)
  <2> DEFINE W == Sales(documents, {d})
  <2>1. Sales(documents', {d}) = {i \in Sold(documents') : documents'[i].day = d}
        /\ W = {i \in A : documents[i].day = d}
    BY DEF Sales, Sold
  <2>2. Sales(documents', {d}) = W /\ W \subseteq A
    BY <1>1, <2>1 DEF SoldStays
  <2>3. [i \in W |-> DocTotal(documents'[i])] = [i \in W |-> DocTotal(documents[i])]
    BY <1>1, <2>2
  <2>. QED BY <2>2, <2>3 DEF DaySales
<1>. QED BY <1>3, <1>4

\* The sum over the rows of s, and over the rows of s and k.
LEMMA JoinedSum ==
    ASSUME NEW S, IsFiniteSet(S), NEW k, k \notin S, NEW f, NEW g, NEW n \in Int,
           DOMAIN f = S, DOMAIN g = S \cup {k}, g[k] = n,
           \A i \in S : f[i] \in Int /\ g[i] = f[i]
    PROVE  SumFunction(g) = SumFunction(f) + n
<1>1. g[k] \in Int
  OBVIOUS
<1>2. SumFunctionOnSet(g, S \cup {k}) = SumFunctionOnSet(f, S) + g[k]
  BY ONLY IsFiniteSet(S), k \notin S, \A i \in S : f[i] \in Int /\ g[i] = f[i], <1>1, SumJoin
<1>. QED BY <1>2 DEF SumFunction

\* One more sale adds its amounts, on its day.
LEMMA OneMoreSale ==
    ASSUME NEW docs, NEW more, NEW k, IsFiniteSet(Sold(docs)),
           k \notin Sold(docs), Sold(more) = Sold(docs) \cup {k},
           \A i \in Sold(docs) : SameRow(more[i], docs[i]),
           \A i \in Sold(more) : more[i] \in DocumentRows
    PROVE  /\ NetSales(more) = NetSales(docs) + Subtotal(more[k])
           /\ TaxOnSales(more) = TaxOnSales(docs) + TaxTotal(more[k])
           /\ \A d : DaySales(more, d) = DaySales(docs, d)
                       + IF d = more[k].day THEN DocTotal(more[k]) ELSE 0
<1> DEFINE A == Sold(docs)
           B == A \cup {k}
<1>1. \A i \in A : /\ Subtotal(more[i]) = Subtotal(docs[i])
                   /\ TaxTotal(more[i]) = TaxTotal(docs[i])
                   /\ DocTotal(more[i]) = DocTotal(docs[i])
                   /\ more[i].day = docs[i].day
  BY DEF SameRow
<1>2. IsFiniteSet(A) /\ \A i \in A : /\ Subtotal(docs[i]) \in Int /\ TaxTotal(docs[i]) \in Int
                                    /\ DocTotal(docs[i]) \in Int
  <2>1. ASSUME NEW i \in A
        PROVE  Subtotal(more[i]) \in Int /\ TaxTotal(more[i]) \in Int /\ DocTotal(more[i]) \in Int
    BY TotalsType
  <2>. QED BY <1>1, <2>1
<1>3. /\ Subtotal(more[k]) \in Int /\ TaxTotal(more[k]) \in Int
      /\ DocTotal(more[k]) \in Int
  BY TotalsType
<1>4. k \notin A /\ Sold(more) = B
  OBVIOUS
<1>5. NetSales(more) = NetSales(docs) + Subtotal(more[k])
  <2> DEFINE f == [i \in A |-> Subtotal(docs[i])]
             g == [i \in B |-> Subtotal(more[i])]
             n == Subtotal(more[k])
  <2>1. DOMAIN f = A /\ DOMAIN g = A \cup {k} /\ g[k] = n /\ n \in Int
    BY <1>3
  <2>2. \A i \in A : f[i] \in Int /\ g[i] = f[i]
    BY <1>1, <1>2
  <2>3. NetSales(more) = SumFunction(g) /\ NetSales(docs) = SumFunction(f)
    BY <1>4 DEF NetSales
  <2> HIDE DEF f, g, n, A
  <2>4. SumFunction(g) = SumFunction(f) + n
    BY ONLY <1>2, <1>4, <2>1, <2>2, JoinedSum
  <2>. QED BY <2>3, <2>4 DEF n
<1>6. TaxOnSales(more) = TaxOnSales(docs) + TaxTotal(more[k])
  <2> DEFINE f == [i \in A |-> TaxTotal(docs[i])]
             g == [i \in B |-> TaxTotal(more[i])]
             n == TaxTotal(more[k])
  <2>1. DOMAIN f = A /\ DOMAIN g = A \cup {k} /\ g[k] = n /\ n \in Int
    BY <1>3
  <2>2. \A i \in A : f[i] \in Int /\ g[i] = f[i]
    BY <1>1, <1>2
  <2>3. TaxOnSales(more) = SumFunction(g) /\ TaxOnSales(docs) = SumFunction(f)
    BY <1>4 DEF TaxOnSales
  <2> HIDE DEF f, g, n, A
  <2>4. SumFunction(g) = SumFunction(f) + n
    BY ONLY <1>2, <1>4, <2>1, <2>2, JoinedSum
  <2>. QED BY <2>3, <2>4 DEF n
<1>7. ASSUME NEW d
      PROVE  DaySales(more, d) = DaySales(docs, d)
                       + IF d = more[k].day THEN DocTotal(more[k]) ELSE 0
  <2> DEFINE W == Sales(docs, {d})
             V == Sales(more, {d})
             f == [i \in W |-> DocTotal(docs[i])]
             g == [i \in V |-> DocTotal(more[i])]
             n == DocTotal(more[k])
  <2>1. V = {i \in B : more[i].day = d} /\ W = {i \in A : docs[i].day = d}
    BY <1>4, Zenon DEF Sales, Sold
  <2>2. W \subseteq A /\ IsFiniteSet(W) /\ k \notin W
    BY <1>2, <1>4, <2>1, FS_Subset
  <2>3. \A i \in W : f[i] \in Int /\ DocTotal(more[i]) = f[i]
    BY <1>1, <1>2, <2>2
  <2>4. DaySales(more, d) = SumFunction(g) /\ DaySales(docs, d) = SumFunction(f)
    BY DEF DaySales
  <2>5. CASE d = more[k].day
    <3>1. V = W \cup {k}
      BY <1>1, <2>1, <2>5
    <3>2. DOMAIN f = W /\ DOMAIN g = W \cup {k} /\ g[k] = n /\ n \in Int
      BY <1>3, <3>1
    <3>3. \A i \in W : f[i] \in Int /\ g[i] = f[i]
      BY <2>3, <3>1
    <3> HIDE DEF f, g, n, W, V
    <3>4. IsFiniteSet(W) /\ k \notin W
      BY <2>2
    <3>5. SumFunction(g) = SumFunction(f) + n
      BY <3>2, <3>3, <3>4, JoinedSum
    <3>. QED BY <2>4, <2>5, <3>5 DEF n
  <2>6. CASE d # more[k].day
    <3>1. V = W
      BY <1>1, <2>1, <2>6
    <3>2. f = g
      BY <2>3, <3>1
    <3>3. SumFunction(f) \in Int
      <4>1. SumFunction(f) = SumFunctionOnSet(f, W)
        BY DEF SumFunction
      <4> HIDE DEF f, W
      <4>. QED BY <2>2, <2>3, <4>1, SumInt
    <3> HIDE DEF f, g
    <3>. QED BY <2>4, <2>6, <3>2, <3>3
  <2>. QED BY <2>5, <2>6
<1>. QED BY <1>5, <1>6, <1>7

LEMMA SoldRows ==
    ASSUME DocumentsOK'
    PROVE  IsFiniteSet(Sold(documents')) /\ \A i \in DOMAIN documents' : documents'[i] \in DocumentRows
<1>1. documents' \in Seq(DocumentRows)
  BY DEF DocumentsOK
<1>2. DOMAIN documents' = 1..Len(documents') /\ Len(documents') \in Nat
  BY <1>1
<1>3. IsFiniteSet(DOMAIN documents')
  BY <1>2, FS_Interval
<1>4. Sold(documents') \subseteq DOMAIN documents'
  BY DEF Sold
<1>. QED BY <1>1, <1>3, <1>4, FS_Subset

LEMMA SalesJoin ==
    ASSUME DocumentsOK, DocumentsOK', DocsKept, NEW k, SoldJoins(k)
    PROVE  /\ NetSales(documents') = NetSales(documents) + Subtotal(documents'[k])
           /\ TaxOnSales(documents') = TaxOnSales(documents) + TaxTotal(documents'[k])
           /\ \A d : DaySales(documents', d) = DaySales(documents, d)
                       + IF d = documents'[k].day THEN DocTotal(documents'[k]) ELSE 0
<1> DEFINE more == documents'
<1>1. IsFiniteSet(Sold(documents)) /\ k \notin Sold(documents) /\ Sold(more) = Sold(documents) \cup {k}
  BY SoldFacts DEF SoldJoins
<1>2. \A i \in Sold(documents) : SameRow(more[i], documents[i])
  BY DEF DocsKept, Sold
<1>3. \A i \in Sold(more) : more[i] \in DocumentRows
  BY SoldRows DEF Sold
<1> HIDE DEF more
<1>4. ASSUME NEW docs, docs = documents
      PROVE  /\ NetSales(more) = NetSales(docs) + Subtotal(more[k])
             /\ TaxOnSales(more) = TaxOnSales(docs) + TaxTotal(more[k])
             /\ \A d : DaySales(more, d) = DaySales(docs, d)
                         + IF d = more[k].day THEN DocTotal(more[k]) ELSE 0
  <2>1. IsFiniteSet(Sold(docs)) /\ k \notin Sold(docs) /\ Sold(more) = Sold(docs) \cup {k}
        /\ \A i \in Sold(docs) : SameRow(more[i], docs[i])
    BY <1>1, <1>2, <1>4
  <2>. QED BY ONLY <1>3, <2>1, OneMoreSale
<1>. QED BY <1>4 DEF more

LEMMA SalesLeave ==
    ASSUME DocumentsOK, DocumentsOK', DocsKept, NEW k, SoldLeaves(k)
    PROVE  /\ NetSales(documents') = NetSales(documents) - Subtotal(documents[k])
           /\ TaxOnSales(documents') = TaxOnSales(documents) - TaxTotal(documents[k])
           /\ \A d : DaySales(documents', d) = DaySales(documents, d)
                       - IF d = documents[k].day THEN DocTotal(documents[k]) ELSE 0
<1> DEFINE less == documents'
<1>1. IsFiniteSet(Sold(less)) /\ k \notin Sold(less) /\ Sold(documents) = Sold(less) \cup {k}
      /\ k \in Sold(documents)
  BY SoldRows DEF SoldLeaves
<1>2. \A i \in Sold(less) : SameRow(documents[i], less[i])
  BY DEF DocsKept, Sold, SameRow, SoldLeaves
<1>3. (\A i \in Sold(documents) : documents[i] \in DocumentRows) /\ \A i \in Sold(less) : less[i] \in DocumentRows
  BY SoldRows, SoldFacts DEF Sold
<1> HIDE DEF less
<1>4. /\ NetSales(documents) = NetSales(less) + Subtotal(documents[k])
      /\ TaxOnSales(documents) = TaxOnSales(less) + TaxTotal(documents[k])
      /\ \A d : DaySales(documents, d) = DaySales(less, d)
                  + IF d = documents[k].day THEN DocTotal(documents[k]) ELSE 0
  BY <1>1, <1>2, <1>3, OneMoreSale
<1>5. NetSales(less) \in Int /\ TaxOnSales(less) \in Int /\ \A d : DaySales(less, d) \in Int
  BY <1>1, <1>3, SalesTypes
<1>6. /\ Subtotal(documents[k]) \in Int /\ TaxTotal(documents[k]) \in Int
      /\ DocTotal(documents[k]) \in Int
  BY <1>1, <1>3, TotalsType
<1>7. NetSales(less) = NetSales(documents) - Subtotal(documents[k])
      /\ TaxOnSales(less) = TaxOnSales(documents) - TaxTotal(documents[k])
  BY ONLY <1>4, <1>5, <1>6
<1>8. ASSUME NEW d
      PROVE  DaySales(less, d) = DaySales(documents, d)
                       - IF d = documents[k].day THEN DocTotal(documents[k]) ELSE 0
  BY ONLY <1>4, <1>5, <1>6
<1>. QED BY <1>7, <1>8 DEF less

----------------------------------------------------------------------------
(* The sales are what the journal charged for.                             *)

SalesBooked ==
    /\ NetSales(documents) = 0 - Ledger(book, Days, "revenue")
    /\ TaxOnSales(documents) = 0 - Ledger(book, Days, "vat_payable")
    /\ prompt => \A d \in Days : DaySales(documents, d) = 0 - book[d]["revenue"] - book[d]["vat_payable"]

\* A sale that joins or leaves is booked by the entry of the step.
LEMMA SalesMove ==
    ASSUME DocumentsOK, BookOK, CalendarOK, SalesBooked, NEW entry, EntryOf(entry),
           NEW net \in Int, NEW tax \in Int,
           Amount(entry, "revenue") = 0 - net, Amount(entry, "vat_payable") = 0 - tax,
           NetSales(documents') = NetSales(documents) + net,
           TaxOnSales(documents') = TaxOnSales(documents) + tax,
           prompt' => prompt /\ \A d \in Days :
               DaySales(documents', d) = DaySales(documents, d) + IF d = today THEN net + tax ELSE 0
    PROVE  SalesBooked'
<1>1. NetSales(documents) \in Int /\ TaxOnSales(documents) \in Int /\ \A d : DaySales(documents, d) \in Int
  BY SoldFacts, SalesTypes
<1>2. /\ Ledger(book, Days, "revenue") \in Int /\ Ledger(book, Days, "vat_payable") \in Int
      /\ \A d \in Days : book[d]["revenue"] \in Int /\ book[d]["vat_payable"] \in Int
  BY LedgerTypes, AccountNames
<1>3. /\ Ledger(book', Days', "revenue") = Ledger(book, Days, "revenue") + (0 - net)
      /\ Ledger(book', Days', "vat_payable") = Ledger(book, Days, "vat_payable") + (0 - tax)
  BY EntryBooked, AccountNames
<1>4. /\ NetSales(documents') = 0 - Ledger(book', Days', "revenue")
      /\ TaxOnSales(documents') = 0 - Ledger(book', Days', "vat_payable")
  BY <1>1, <1>2, <1>3 DEF SalesBooked
<1>5. ASSUME prompt', NEW d \in Days
      PROVE  DaySales(documents', d) = 0 - book'[d]["revenue"] - book'[d]["vat_payable"]
  <2>1. /\ DaySales(documents, d) = 0 - book[d]["revenue"] - book[d]["vat_payable"]
        /\ DaySales(documents', d) = DaySales(documents, d) + IF d = today THEN net + tax ELSE 0
    BY <1>5 DEF SalesBooked
  <2>2. /\ book'[d]["revenue"] = book[d]["revenue"] + IF d = today THEN 0 - net ELSE 0
        /\ book'[d]["vat_payable"] = book[d]["vat_payable"] + IF d = today THEN 0 - tax ELSE 0
    BY EntryBooked, AccountNames DEF Days
  <2>3. DaySales(documents, d) \in Int /\ book[d]["revenue"] \in Int /\ book[d]["vat_payable"] \in Int
    BY <1>1, <1>2
  <2>4. CASE d = today
    BY <2>1, <2>2, <2>3, <2>4
  <2>5. CASE d # today
    BY <2>1, <2>2, <2>3, <2>5
  <2>. QED BY <2>4, <2>5
<1>6. Days' = Days
  BY DEF EntryOf, Days
<1>. QED BY <1>4, <1>5, <1>6 DEF SalesBooked

LEMMA BookedSalesStay ==
    ASSUME DocumentsOK, SalesBooked, DocsKept, SoldStays, prompt' => prompt, UNCHANGED <<book, today>>
    PROVE  SalesBooked'
<1>1. Days' = Days /\ book' = book
  BY DEF Days
<1>2. /\ NetSales(documents') = NetSales(documents) /\ TaxOnSales(documents') = TaxOnSales(documents)
      /\ \A d : DaySales(documents', d) = DaySales(documents, d)
  BY SalesStay
<1>. QED BY <1>1, <1>2 DEF SalesBooked

LEMMA ConfirmJoins ==
    ASSUME DocumentsOK, NEW d \in DOMAIN documents, ConfirmInvoice(d)
    PROVE  DocsKept /\ SoldJoins(d) /\ SameRow(documents'[d], documents[d])
<1>1. documents' = [documents EXCEPT ![d].status = "confirmed"]
      /\ documents[d].kind = "invoice" /\ documents[d].status = "draft"
  BY DEF ConfirmInvoice
<1>2. /\ DocsKept /\ DOMAIN documents' = DOMAIN documents
      /\ documents'[d].status = "confirmed" /\ documents'[d].kind = documents[d].kind
      /\ \A i \in DOMAIN documents \ {d} : documents'[i] = documents[i]
  BY <1>1, StatusKeeps
<1>3. ~IsSale(documents[d]) /\ IsSale(documents'[d])
  BY <1>1, <1>2 DEF IsSale, SaleStatuses
<1>4. SoldJoins(d)
  BY <1>2, <1>3 DEF SoldJoins, Sold
<1>. QED BY <1>2, <1>4 DEF DocsKept

LEMMA RefundLeaves ==
    ASSUME DocumentsOK, NEW d \in DOMAIN documents, Refund(d)
    PROVE  DocsKept /\ SoldLeaves(d)
<1>1. documents' = [documents EXCEPT ![d].status = "refunded"]
      /\ documents[d].kind = "pos" /\ documents[d].status = "completed"
  BY DEF Refund
<1>2. /\ DocsKept /\ DOMAIN documents' = DOMAIN documents
      /\ documents'[d].status = "refunded" /\ documents'[d].kind = documents[d].kind
      /\ \A i \in DOMAIN documents \ {d} : documents'[i] = documents[i]
  BY <1>1, StatusKeeps
<1>3. IsSale(documents[d]) /\ ~IsSale(documents'[d])
  BY <1>1, <1>2 DEF IsSale
<1>4. SoldLeaves(d)
  BY <1>2, <1>3 DEF SoldLeaves, Sold
<1>. QED BY <1>2, <1>4

LEMMA PaymentStays ==
    ASSUME DocumentsOK, NEW d \in DOMAIN documents, NEW rest \in BOOLEAN, PayInvoice(d, rest)
    PROVE  DocsKept /\ SoldStays
<1> DEFINE status == IF rest THEN "paid" ELSE "partially_paid"
<1>1. documents' = [documents EXCEPT ![d].status = status]
      /\ documents[d].kind = "invoice" /\ documents[d].status \in {"confirmed", "partially_paid"}
  BY DEF PayInvoice
<1>2. status \in SaleStatuses
  BY DEF SaleStatuses
<1> HIDE DEF status
<1>3. /\ DocsKept /\ DOMAIN documents' = DOMAIN documents
      /\ documents'[d].status = status /\ documents'[d].kind = documents[d].kind
      /\ \A i \in DOMAIN documents \ {d} : documents'[i] = documents[i]
  BY <1>1, StatusKeeps
<1>4. IsSale(documents[d]) /\ IsSale(documents'[d])
  BY <1>1, <1>2, <1>3 DEF IsSale, SaleStatuses
<1>5. SoldStays
  BY <1>3, <1>4 DEF SoldStays, Sold
<1>. QED BY <1>3, <1>5

LEMMA DraftStays ==
    ASSUME DocumentsOK, NEW o \in Orders, DraftInvoice(o)
    PROVE  DocsKept /\ SoldStays
           /\ \A i \in DOMAIN documents' \ DOMAIN documents : documents'[i].day = today
<1> DEFINE doc == Document("invoice", "draft", o)
           k == Len(documents) + 1
<1>1. doc.kind = "invoice" /\ doc.status = "draft" /\ doc.day = today /\ documents' = Append(documents, doc)
  BY DEF Document, DraftInvoice
<1> HIDE DEF doc
<1>2. /\ DocsKept /\ k \notin DOMAIN documents /\ DOMAIN documents' = DOMAIN documents \cup {k}
      /\ documents'[k] = doc /\ \A i \in DOMAIN documents : documents'[i] = documents[i]
  BY <1>1, AppendKeeps
<1> HIDE DEF k
<1>3. ~IsSale(documents'[k])
  BY <1>1, <1>2 DEF IsSale, SaleStatuses
<1>4. SoldStays
  BY <1>2, <1>3 DEF SoldStays, Sold
<1>. QED BY <1>1, <1>2, <1>4

LEMMA RingJoins ==
    ASSUME DocumentsOK, NEW o \in Orders, RingUp(o)
    PROVE  /\ DocsKept
           /\ \A i \in DOMAIN documents' \ DOMAIN documents : documents'[i].day = today
           /\ \E k : SoldJoins(k) /\ documents'[k] = Document("pos", "completed", o)
<1> DEFINE doc == Document("pos", "completed", o)
           k == Len(documents) + 1
<1>1. doc.kind = "pos" /\ doc.status = "completed" /\ doc.day = today /\ documents' = Append(documents, doc)
  BY DEF Document, RingUp
<1> HIDE DEF doc
<1>2. /\ DocsKept /\ k \notin DOMAIN documents /\ DOMAIN documents' = DOMAIN documents \cup {k}
      /\ documents'[k] = doc /\ \A i \in DOMAIN documents : documents'[i] = documents[i]
  BY <1>1, AppendKeeps
<1> HIDE DEF k
<1>3. IsSale(documents'[k])
  BY <1>1, <1>2 DEF IsSale
<1>4. SoldJoins(k)
  BY <1>2, <1>3 DEF SoldJoins, Sold
<1>. QED BY <1>1, <1>2, <1>4 DEF doc

\* Steps that leave the documents alone.
LEMMA SameDocuments ==
    ASSUME UNCHANGED documents PROVE DocsKept /\ SoldStays
BY DEF DocsKept, SoldStays, SameRow

LEMMA DatedStep ==
    ASSUME DocumentsOK, CalendarOK, DatedOK, [DaysNext]_dayVars PROVE DatedOK'
<1> DEFINE Fresh == \A i \in DOMAIN documents' \ DOMAIN documents : documents'[i].day = today
           Shrinks == DOMAIN documents' \subseteq DOMAIN documents
<1>1. Days \subseteq Days' /\ today \in Days
  <2>1. today' = today \/ today' = today + 1
    BY DEF DaysNext, dayVars, Notify, Tick, Trade, DraftInvoice, RingUp, ConfirmInvoice, Refund, PayInvoice,
           Refused, Receive, PutIn, TakeOut, Adjust, DeleteDocument, DeleteReceipt, ClosePeriod
  <2>. QED BY <2>1 DEF Days, CalendarOK
<1>2. ASSUME DocsKept, Fresh PROVE DatedOK'
  BY <1>1, <1>2 DEF DatedOK, DocsKept, SameRow
<1>3. CASE UNCHANGED documents
  BY <1>2, <1>3, SameDocuments
<1>4. ASSUME NEW d \in DOMAIN documents, NEW status, documents' = [documents EXCEPT ![d].status = status]
      PROVE  DatedOK'
  BY <1>2, <1>4, StatusKeeps
<1>5. ASSUME NEW o \in Orders, DraftInvoice(o) PROVE DatedOK'
  BY <1>2, <1>5, DraftStays
<1>6. ASSUME NEW o \in Orders, RingUp(o) PROVE DatedOK'
  BY <1>2, <1>6, RingJoins
<1>7. CASE Trade
  BY <1>3, <1>4, <1>5, <1>6, <1>7
     DEF Trade, ConfirmInvoice, Refund, PayInvoice, Refused, Receive, PutIn, TakeOut, Adjust,
         DeleteDocument, DeleteReceipt, ClosePeriod, trade
<1>8. CASE Notify \/ Tick \/ UNCHANGED dayVars
  BY <1>3, <1>8 DEF Notify, Tick, dayVars, trade
<1>. QED BY <1>7, <1>8 DEF DaysNext

\* What is deleted while kept stays true was no sale.
LEMMA DeletionStays ==
    ASSUME DocumentsOK, NEW d \in DOMAIN documents, DeleteDocument(d), ~Unmade(d)
    PROVE  DocsKept /\ SoldStays
<1>1. documents' = [documents EXCEPT ![d].status = "deleted"]
  BY DEF DeleteDocument
<1>2. /\ DocsKept /\ DOMAIN documents' = DOMAIN documents
      /\ documents'[d].status = "deleted" /\ documents'[d].kind = documents[d].kind
      /\ \A i \in DOMAIN documents \ {d} : documents'[i] = documents[i]
  BY <1>1, StatusKeeps
<1>3. ~IsSale(documents[d]) /\ ~IsSale(documents'[d])
  BY <1>2 DEF Unmade, IsSale, SaleStatuses
<1>4. SoldStays
  BY <1>2, <1>3 DEF SoldStays, Sold
<1>. QED BY <1>2, <1>4

LEMMA SalesBookedStep ==
    ASSUME DocumentsOK, DocumentsOK', ItemsOK, CalendarOK, BookOK, DatedOK, SalesBooked,
           [MCDaysNext]_<<dayVars, history>>, kept'
    PROVE  SalesBooked'
<1>1. CASE UNCHANGED <<dayVars, history>>
  BY <1>1, SameDocuments, BookedSalesStay DEF dayVars, trade, history
<1>2. CASE MCDaysNext
  <2>1. DaysNext /\ (prompt' => prompt /\ \A d \in DOMAIN documents : Settled(d) => documents[d].day = today)
        /\ ~Closed /\ \A d \in DOMAIN documents : ~Unmade(d)
    BY <1>2 DEF MCDaysNext
  <2>2. ASSUME NEW d \in DOMAIN documents, ConfirmInvoice(d) PROVE SalesBooked'
    <3> DEFINE net == Subtotal(documents[d])
               tax == TaxTotal(documents[d])
               entry == SaleEntry(documents[d], CostsNow(documents[d].lines), "receivable")
    <3>1. DocsKept /\ SoldJoins(d) /\ SameRow(documents'[d], documents[d])
      BY <2>2, ConfirmJoins
    <3>2. net \in Int /\ tax \in Int /\ DocTotal(documents[d]) = net + tax
      BY RowLines, TotalsType DEF DocTotal
    <3>3. EntryOf(entry) /\ Amount(entry, "revenue") = 0 - net /\ Amount(entry, "vat_payable") = 0 - tax
      BY <2>2, ConfirmEntry
    <3>4. Settled(d)
      <4>1. documents[d].status = "draft" /\ documents' = [documents EXCEPT ![d].status = "confirmed"]
        BY <2>2 DEF ConfirmInvoice
      <4>2. documents'[d].status = "confirmed"
        BY <4>1, StatusKeeps
      <4>. QED BY <4>1, <4>2 DEF Settled
    <3>5. prompt' => prompt /\ documents[d].day = today
      BY <2>1, <3>4
    <3>6. /\ NetSales(documents') = NetSales(documents) + net
          /\ TaxOnSales(documents') = TaxOnSales(documents) + tax
          /\ \A e : DaySales(documents', e) = DaySales(documents, e)
                      + IF e = documents[d].day THEN net + tax ELSE 0
      BY <3>1, <3>2, SalesJoin DEF SameRow
    <3> HIDE DEF net, tax, entry
    <3>. QED BY <3>2, <3>3, <3>5, <3>6, SalesMove
  <2>3. ASSUME NEW o \in Orders, RingUp(o) PROVE SalesBooked'
    <3> DEFINE sale == Document("pos", "completed", o)
               net == Subtotal(sale)
               tax == TaxTotal(sale)
               entry == SaleEntry(sale, sale.cost, "cash")
    <3>1. DocsKept /\ \E k : SoldJoins(k) /\ documents'[k] = sale
      BY <2>3, RingJoins
    <3>2. PICK k : SoldJoins(k) /\ documents'[k] = sale
      BY <3>1
    <3>3. net \in Int /\ tax \in Int /\ DocTotal(sale) = net + tax /\ sale.day = today
      <4>1. sale \in DocumentRows /\ sale.day = today
        BY DocumentType DEF Document
      <4>. QED BY <4>1, TotalsType DEF DocTotal
    <3>4. EntryOf(entry) /\ Amount(entry, "revenue") = 0 - net /\ Amount(entry, "vat_payable") = 0 - tax
      BY <2>3, RingEntry
    <3> HIDE DEF sale
    <3>5. /\ NetSales(documents') = NetSales(documents) + net
          /\ TaxOnSales(documents') = TaxOnSales(documents) + tax
          /\ \A e : DaySales(documents', e) = DaySales(documents, e) + IF e = today THEN net + tax ELSE 0
      BY <3>1, <3>2, <3>3, SalesJoin
    <3> HIDE DEF net, tax, entry
    <3>. QED BY <2>1, <3>3, <3>4, <3>5, SalesMove
  <2>4. ASSUME NEW d \in DOMAIN documents, Refund(d) PROVE SalesBooked'
    <3> DEFINE net == 0 - Subtotal(documents[d])
               tax == 0 - TaxTotal(documents[d])
    <3>1. DocsKept /\ SoldLeaves(d)
      BY <2>4, RefundLeaves
    <3>2. /\ Subtotal(documents[d]) \in Int /\ TaxTotal(documents[d]) \in Int
          /\ DocTotal(documents[d]) = Subtotal(documents[d]) + TaxTotal(documents[d])
      BY RowLines, TotalsType DEF DocTotal
    <3>3. PICK entry : /\ EntryOf(entry) /\ Amount(entry, "revenue") = Subtotal(documents[d])
                       /\ Amount(entry, "vat_payable") = TaxTotal(documents[d])
      BY <2>4, RefundEntry
    <3>4. Settled(d)
      <4>1. documents[d].status = "completed" /\ documents' = [documents EXCEPT ![d].status = "refunded"]
        BY <2>4 DEF Refund
      <4>2. documents'[d].status = "refunded"
        BY <4>1, StatusKeeps
      <4>. QED BY <4>1, <4>2 DEF Settled
    <3>5. prompt' => prompt /\ documents[d].day = today
      BY <2>1, <3>4
    <3>6. NetSales(documents) \in Int /\ TaxOnSales(documents) \in Int /\ \A e : DaySales(documents, e) \in Int
      BY SoldFacts, SalesTypes
    <3>7. /\ NetSales(documents') = NetSales(documents) - Subtotal(documents[d])
          /\ TaxOnSales(documents') = TaxOnSales(documents) - TaxTotal(documents[d])
          /\ \A e : DaySales(documents', e) = DaySales(documents, e)
                      - IF e = documents[d].day THEN DocTotal(documents[d]) ELSE 0
      BY <3>1, SalesLeave
    <3>8. /\ net \in Int /\ tax \in Int
          /\ Amount(entry, "revenue") = 0 - net /\ Amount(entry, "vat_payable") = 0 - tax
          /\ NetSales(documents') = NetSales(documents) + net
          /\ TaxOnSales(documents') = TaxOnSales(documents) + tax
      BY <3>2, <3>3, <3>6, <3>7
    <3>9. \A e : DaySales(documents', e) = DaySales(documents, e)
                      + IF e = documents[d].day THEN net + tax ELSE 0
      BY <3>2, <3>6, <3>7
    <3> HIDE DEF net, tax
    <3>. QED BY <3>3, <3>5, <3>8, <3>9, SalesMove
  <2>5. ASSUME NEW entry, EntryOf(entry), DocsKept, SoldStays,
               Amount(entry, "revenue") = 0, Amount(entry, "vat_payable") = 0
        PROVE  SalesBooked'
    <3>1. /\ NetSales(documents') = NetSales(documents) /\ TaxOnSales(documents') = TaxOnSales(documents)
          /\ \A d : DaySales(documents', d) = DaySales(documents, d)
      BY <2>5, SalesStay
    <3>2. NetSales(documents) \in Int /\ TaxOnSales(documents) \in Int /\ \A e : DaySales(documents, e) \in Int
      BY SoldFacts, SalesTypes
    <3>3. /\ NetSales(documents') = NetSales(documents) + 0 /\ TaxOnSales(documents') = TaxOnSales(documents) + 0
          /\ \A d : DaySales(documents', d) = DaySales(documents, d) + IF d = today THEN 0 + 0 ELSE 0
      BY <3>1, <3>2
    <3>4. Amount(entry, "revenue") = 0 - 0 /\ Amount(entry, "vat_payable") = 0 - 0 /\ 0 \in Int
      BY <2>5
    <3>. QED BY <2>1, <2>5, <3>3, <3>4, SalesMove
  <2>6. ASSUME NEW d \in DOMAIN documents, NEW rest \in BOOLEAN, PayInvoice(d, rest) PROVE SalesBooked'
    BY <2>5, <2>6, PaymentStays, PayEntry
  <2>7. ASSUME NEW r \in Deliveries, Receive(r.product, r.qty, r.cost) PROVE SalesBooked'
    BY <2>5, <2>7, SameDocuments, ReceiveEntry DEF Receive
  <2>8. ASSUME NEW o \in Orders, DraftInvoice(o) PROVE SalesBooked'
    BY <2>1, <2>8, DraftStays, BookedSalesStay DEF DraftInvoice
  <2>9. CASE UNCHANGED <<documents, book, today>>
    BY <2>1, <2>9, SameDocuments, BookedSalesStay
  <2>10. CASE Tick
    <3>1. CASE early
      BY <2>9, <2>10, <3>1 DEF Tick
    <3>2. CASE ~early
      <4>1. /\ Ledger(book', Days', "revenue") = Ledger(book, Days, "revenue")
            /\ Ledger(book', Days', "vat_payable") = Ledger(book, Days, "vat_payable")
            /\ book'[today + 1]["revenue"] = 0 /\ book'[today + 1]["vat_payable"] = 0
            /\ (\A d \in Days : book'[d] = book[d]) /\ UNCHANGED documents /\ today' = today + 1
        BY <2>10, <3>2, NextDayLedger, AccountNames DEF Tick, Days
      <4>2. DaySales(documents, today + 1) = 0
        <5> DEFINE m == today + 1
                   f == [i \in Sales(documents, {m}) |-> DocTotal(documents[i])]
        <5>1. Sales(documents, {m}) = {}
          BY DEF Sales, DatedOK, Days, CalendarOK
        <5>2. DaySales(documents, m) = SumFunctionOnSet(f, {})
          BY <5>1 DEF DaySales, SumFunction
        <5> HIDE DEF f
        <5>. QED BY <5>2, SumEmpty
      <4>3. \A d \in Days' : d \in Days \/ d = today + 1
        BY <4>1 DEF Days, CalendarOK
      <4>. QED BY <2>1, <4>1, <4>2, <4>3 DEF SalesBooked
    <3>. QED BY <3>1, <3>2
  <2>11. CASE Notify
    BY <2>9, <2>11 DEF Notify, trade
  <2>12. ASSUME NEW d \in DOMAIN documents, DeleteDocument(d) PROVE SalesBooked'
    BY <2>1, <2>12, DeletionStays, BookedSalesStay DEF DeleteDocument
  <2>13. CASE ClosePeriod
    BY <2>1, <2>9, <2>13 DEF ClosePeriod, Closed
  <2>14. CASE Trade
    BY <2>2, <2>3, <2>4, <2>6, <2>7, <2>8, <2>9, <2>12, <2>13, <2>14
       DEF Trade, Refused, PutIn, TakeOut, Adjust, DeleteReceipt, trade
  <2>. QED BY <2>1, <2>10, <2>11, <2>14 DEF DaysNext
<1>. QED BY <1>1, <1>2

----------------------------------------------------------------------------
(* Purchases, and what the reports add up.                                 *)

PurchasesBooked == \A d \in Days : receipts[d] = book[d]["inventory"] + book[d]["cogs"]

LEMMA ReceiptsStep ==
    ASSUME CalendarOK, ReceiptsOK, [DaysNext]_dayVars PROVE ReceiptsOK'
<1>1. receipts \in Seq(Nat) /\ Len(receipts) = today /\ today \in Nat \ {0} /\ DOMAIN receipts = 1..today
  BY DEF ReceiptsOK, CalendarOK
<1>2. CASE UNCHANGED <<receipts, today>>
  BY <1>2 DEF ReceiptsOK
<1>3. ASSUME NEW d \in 1..today, NEW n \in Nat, receipts' = [receipts EXCEPT ![d] = n], UNCHANGED today
      PROVE  ReceiptsOK'
  BY <1>1, <1>3, ExceptSeq DEF ReceiptsOK
<1>4. ASSUME NEW r \in Deliveries, Receive(r.product, r.qty, r.cost) PROVE ReceiptsOK'
  <2> DEFINE n == r.qty * r.cost
  <2>1. n \in Nat
    BY DaysConstants
  <2>2. receipts' = [receipts EXCEPT ![today] = receipts[today] + n] /\ UNCHANGED today
    BY <1>4 DEF Receive
  <2> HIDE DEF n
  <2>3. receipts[today] \in Nat /\ today \in 1..today
    BY <1>1
  <2> DEFINE sum == receipts[today] + n
  <2>4. sum \in Nat
    BY <2>1, <2>3
  <2>5. receipts' = [receipts EXCEPT ![today] = sum]
    BY <2>2
  <2> HIDE DEF sum
  <2>. QED BY <1>3, <2>2, <2>3, <2>4, <2>5
<1>5. ASSUME NEW r \in Deliveries, NEW day \in Days, DeleteReceipt(day, r) PROVE ReceiptsOK'
  <2> DEFINE n == r.qty * r.cost
  <2>1. n \in 1..receipts[day] /\ receipts' = [receipts EXCEPT ![day] = receipts[day] - n] /\ UNCHANGED today
    BY <1>5 DEF DeleteReceipt
  <2> HIDE DEF n
  <2>2. day \in 1..today /\ receipts[day] \in Nat
    BY <1>1 DEF Days
  <2>3. receipts[day] - n \in Nat
    BY <2>1, <2>2
  <2>. QED BY <1>3, <2>1, <2>2, <2>3
<1>6. CASE Tick
  <2>1. CASE early
    BY <1>2, <1>6, <2>1 DEF Tick
  <2>2. CASE ~early
    <3>1. receipts' = Append(receipts, 0) /\ today' = today + 1
      BY <1>6, <2>2 DEF Tick
    <3>. QED BY <1>1, <3>1 DEF ReceiptsOK
  <2>. QED BY <2>1, <2>2
<1>7. CASE Notify \/ UNCHANGED dayVars
  BY <1>2, <1>7 DEF Notify, dayVars, trade
<1>8. CASE Trade
  BY <1>2, <1>4, <1>5, <1>8
     DEF Trade, DraftInvoice, RingUp, ConfirmInvoice, Refund, PayInvoice, Refused,
         PutIn, TakeOut, Adjust, DeleteDocument, ClosePeriod, trade
<1>. QED BY <1>6, <1>7, <1>8 DEF DaysNext

\* An entry of n on the inventory and of c on the cost of goods sold, where
\* goods of n + c were received.
LEMMA PurchasesMove ==
    ASSUME BookOK, CalendarOK, ReceiptsOK, PurchasesBooked, NEW entry, EntryOf(entry), NEW m \in Int,
           NEW n \in Int, Amount(entry, "inventory") = n, NEW c \in Int, Amount(entry, "cogs") = c, m = n + c,
           \A d \in Days : receipts'[d] = receipts[d] + IF d = today THEN m ELSE 0
    PROVE  PurchasesBooked'
<1>1. Days' = Days
  BY DEF EntryOf, Days
<1>2. ASSUME NEW d \in Days
      PROVE  receipts'[d] = book'[d]["inventory"] + book'[d]["cogs"]
  <2>1. book[d]["inventory"] \in Int /\ book[d]["cogs"] \in Int
    BY LedgerTypes, AccountNames
  <2>2. /\ book'[d]["inventory"] = book[d]["inventory"] + IF d = today THEN n ELSE 0
        /\ book'[d]["cogs"] = book[d]["cogs"] + IF d = today THEN c ELSE 0
    <3>1. d \in 1..today
      BY DEF Days
    <3>2. /\ book'[d]["inventory"] = book[d]["inventory"] + IF d = today THEN Amount(entry, "inventory") ELSE 0
          /\ book'[d]["cogs"] = book[d]["cogs"] + IF d = today THEN Amount(entry, "cogs") ELSE 0
      BY <3>1, EntryBooked, AccountNames
    <3>. QED BY <3>2
  <2>3. receipts[d] = book[d]["inventory"] + book[d]["cogs"]
    BY DEF PurchasesBooked
  <2>4. CASE d = today
    BY <2>1, <2>2, <2>3, <2>4
  <2>5. CASE d # today
    BY <2>1, <2>2, <2>3, <2>5
  <2>. QED BY <2>4, <2>5
<1>. QED BY <1>1, <1>2 DEF PurchasesBooked

\* What a sale credits to the inventory it debits to the cost of goods sold.
LEMMA PurchasesStay ==
    ASSUME BookOK, CalendarOK, ReceiptsOK, PurchasesBooked, UNCHANGED receipts, NEW entry, EntryOf(entry),
           NEW n \in Int, Amount(entry, "inventory") = 0 - n, Amount(entry, "cogs") = n
    PROVE  PurchasesBooked'
<1>1. 0 - n \in Int /\ 0 = (0 - n) + n /\ 0 \in Int
  OBVIOUS
<1>2. ASSUME NEW d \in Days PROVE receipts'[d] = receipts[d] + IF d = today THEN 0 ELSE 0
  <2>1. receipts[d] \in Nat
    BY DEF ReceiptsOK, Days
  <2>. QED BY <2>1
<1>. QED BY <1>1, <1>2, PurchasesMove

LEMMA ReceiveBooked ==
    ASSUME BookOK, CalendarOK, ReceiptsOK, PurchasesBooked,
           NEW r \in Deliveries, Receive(r.product, r.qty, r.cost)
    PROVE  PurchasesBooked'
<1> DEFINE n == r.qty * r.cost
<1>1. PICK entry : /\ EntryOf(entry) /\ n \in Nat
                   /\ Amount(entry, "inventory") = n /\ Amount(entry, "cogs") = 0
  BY ReceiveEntry
<1>2. receipts' = [receipts EXCEPT ![today] = @ + n]
  BY DEF Receive
<1> HIDE DEF n
<1>3. DOMAIN receipts = Days /\ \A d \in Days : receipts[d] \in Nat
  BY DEF ReceiptsOK, Days
<1>4. \A d \in Days : receipts'[d] = receipts[d] + IF d = today THEN n ELSE 0
  BY <1>1, <1>2, <1>3
<1>5. n \in Int /\ 0 \in Int /\ n = n + 0
  BY <1>1
<1>. QED BY <1>1, <1>4, <1>5, PurchasesMove

LEMMA PurchasesBookedStep ==
    ASSUME DocumentsOK, ItemsOK, CalendarOK, BookOK, ReceiptsOK, PurchasesBooked,
           [MCDaysNext]_<<dayVars, history>>, kept'
    PROVE  PurchasesBooked'
<1>1. CASE UNCHANGED <<receipts, book, today>>
  BY <1>1 DEF PurchasesBooked, Days
<1>2. ASSUME NEW d \in DOMAIN documents, ConfirmInvoice(d) PROVE PurchasesBooked'
  <2> DEFINE n == CostOf(documents[d].lines, CostsNow(documents[d].lines))
             entry == SaleEntry(documents[d], CostsNow(documents[d].lines), "receivable")
  <2>1. EntryOf(entry) /\ Amount(entry, "inventory") = 0 - n /\ Amount(entry, "cogs") = n
    BY <1>2, ConfirmEntry
  <2>2. n \in Int /\ UNCHANGED receipts
    BY <1>2, RowLines, WorthOut, CostType DEF ConfirmInvoice
  <2> HIDE DEF n, entry
  <2>. QED BY <2>1, <2>2, PurchasesStay
<1>3. ASSUME NEW o \in Orders, RingUp(o) PROVE PurchasesBooked'
  <2> DEFINE n == CostOf(o.lines, CostsNow(o.lines))
             sale == Document("pos", "completed", o)
             entry == SaleEntry(sale, sale.cost, "cash")
  <2>1. EntryOf(entry) /\ Amount(entry, "inventory") = 0 - n /\ Amount(entry, "cogs") = n
    BY <1>3, RingEntry
  <2>2. n \in Int /\ UNCHANGED receipts
    BY <1>3, OrderLines, WorthOut, CostType DEF RingUp
  <2> HIDE DEF n, entry
  <2>. QED BY <2>1, <2>2, PurchasesStay
<1>4. ASSUME NEW d \in DOMAIN documents, Refund(d) PROVE PurchasesBooked'
  <2> DEFINE c == CostOf(documents[d].lines, documents[d].cost)
             n == 0 - c
  <2>1. c \in Nat
    BY RowLines, CostType
  <2>2. PICK entry : EntryOf(entry) /\ Amount(entry, "inventory") = c /\ Amount(entry, "cogs") = 0 - c
    BY <1>4, RefundEntry
  <2> HIDE DEF c
  <2>3. n \in Int /\ c = 0 - n
    BY <2>1
  <2>4. UNCHANGED receipts /\ Amount(entry, "cogs") = n
    BY <1>4, <2>2 DEF Refund
  <2> HIDE DEF n
  <2>. QED BY <2>2, <2>3, <2>4, PurchasesStay
<1>5. ASSUME NEW d \in DOMAIN documents, NEW rest \in BOOLEAN, PayInvoice(d, rest) PROVE PurchasesBooked'
  <2>1. PICK entry : EntryOf(entry) /\ Amount(entry, "inventory") = 0 /\ Amount(entry, "cogs") = 0
    BY <1>5, PayEntry
  <2>2. 0 = 0 - 0 /\ 0 \in Int /\ UNCHANGED receipts
    BY <1>5 DEF PayInvoice
  <2>. QED BY <2>1, <2>2, PurchasesStay
<1>6. ASSUME NEW r \in Deliveries, Receive(r.product, r.qty, r.cost) PROVE PurchasesBooked'
  BY <1>6, ReceiveBooked
<1>7. CASE Tick
  <2>1. CASE early
    BY <1>1, <1>7, <2>1 DEF Tick
  <2>2. CASE ~early
    <3>1. /\ book'[today + 1]["inventory"] = 0 /\ book'[today + 1]["cogs"] = 0
          /\ (\A d \in Days : book'[d] = book[d]) /\ today' = today + 1 /\ receipts' = Append(receipts, 0)
      BY <1>7, <2>2, NextDayLedger, AccountNames DEF Tick, Days
    <3>2. receipts \in Seq(Nat) /\ Len(receipts) = today /\ today \in Nat
      BY DEF ReceiptsOK, CalendarOK
    <3>3. receipts'[today + 1] = 0 /\ \A d \in 1..today : receipts'[d] = receipts[d]
      BY <3>1, <3>2
    <3>4. \A d \in Days' : d \in Days \/ d = today + 1
      BY <3>1, <3>2 DEF Days
    <3>5. ASSUME NEW d \in Days' PROVE receipts'[d] = book'[d]["inventory"] + book'[d]["cogs"]
      <4>1. CASE d \in Days
        BY <3>1, <3>3, <4>1 DEF PurchasesBooked, Days
      <4>2. CASE d = today + 1
        <5>1. 0 = 0 + 0
          OBVIOUS
        <5>. QED BY <3>1, <3>3, <4>2, <5>1
      <4>. QED BY <3>4, <4>1, <4>2
    <3>. QED BY <3>5 DEF PurchasesBooked
  <2>. QED BY <2>1, <2>2
<1>8. CASE UNCHANGED dayVars
  BY <1>1, <1>8 DEF dayVars, trade
<1>9. CASE MCDaysNext
  <2>1. DaysNext /\ ~Closed /\ ~Withdrawn
    BY <1>9 DEF MCDaysNext
  <2>2. CASE ClosePeriod
    BY <1>1, <2>1, <2>2 DEF ClosePeriod, Closed
  <2>3. ASSUME NEW r \in Deliveries, NEW day \in Days, DeleteReceipt(day, r) PROVE FALSE
    <3> DEFINE n == r.qty * r.cost
    <3>1. n \in 1..receipts[day] /\ receipts' = [receipts EXCEPT ![day] = receipts[day] - n]
      BY <2>3 DEF DeleteReceipt
    <3> HIDE DEF n
    <3>2. DOMAIN receipts = Days /\ receipts[day] \in Nat
      BY DEF ReceiptsOK, Days
    <3>3. receipts'[day] < receipts[day]
      BY <3>1, <3>2
    <3>. QED BY <2>1, <3>3 DEF Withdrawn
  <2>4. CASE Trade
    BY <1>1, <1>2, <1>3, <1>4, <1>5, <1>6, <2>2, <2>3, <2>4
       DEF Trade, DraftInvoice, Refused, PutIn, TakeOut, Adjust, DeleteDocument, trade
  <2>5. CASE Notify
    BY <1>1, <2>5 DEF Notify, trade
  <2>. QED BY <1>7, <2>1, <2>4, <2>5 DEF DaysNext
<1>. QED BY <1>8, <1>9

\* What the reports' agreement with the journal rests on.
ReportsOK ==
    /\ BookTypeOK /\ DatedOK /\ ReceiptsOK
    /\ kept => SalesBooked /\ PurchasesBooked

LEMMA ReportsStart == ASSUME MCDaysInit PROVE ReportsOK
<1>1. DaysInit /\ documents = <<>> /\ receipts = <<0>> /\ today = 1
  BY DEF MCDaysInit, DaysInit
<1>2. BookTypeOK
  BY DaysStart, BookStart, <1>1 DEF BookTypeOK
<1>3. Days = {1} /\ DOMAIN documents = {}
  BY <1>1 DEF Days
<1>4. \A a \in Accounts : book[1][a] = 0 /\ Ledger(book, Days, a) = 0
  BY <1>1, BookStart
<1>5. Sold(documents) = {} /\ \A d : Sales(documents, {d}) = {}
  BY <1>3 DEF Sold, Sales
<1>6. NetSales(documents) = 0
  <2> DEFINE f == [i \in Sold(documents) |-> Subtotal(documents[i])]
  <2>1. NetSales(documents) = SumFunctionOnSet(f, {})
    BY <1>5 DEF NetSales, SumFunction
  <2> HIDE DEF f
  <2>. QED BY <2>1, SumEmpty
<1>7. TaxOnSales(documents) = 0
  <2> DEFINE f == [i \in Sold(documents) |-> TaxTotal(documents[i])]
  <2>1. TaxOnSales(documents) = SumFunctionOnSet(f, {})
    BY <1>5 DEF TaxOnSales, SumFunction
  <2> HIDE DEF f
  <2>. QED BY <2>1, SumEmpty
<1>8. ASSUME NEW d PROVE DaySales(documents, d) = 0
  <2> DEFINE f == [i \in Sales(documents, {d}) |-> DocTotal(documents[i])]
  <2>1. DaySales(documents, d) = SumFunctionOnSet(f, {})
    BY <1>5 DEF DaySales, SumFunction
  <2> HIDE DEF f
  <2>. QED BY <2>1, SumEmpty
<1>9. SalesBooked
  BY <1>3, <1>4, <1>6, <1>7, <1>8, AccountNames DEF SalesBooked
<1>10. PurchasesBooked /\ ReceiptsOK
  BY <1>1, <1>3, <1>4, AccountNames DEF PurchasesBooked, ReceiptsOK
<1>. QED BY <1>2, <1>3, <1>9, <1>10 DEF ReportsOK, DatedOK

LEMMA ReportsStep ==
    ASSUME ReportsOK, [MCDaysNext]_<<dayVars, history>> PROVE ReportsOK'
<1>1. DocumentsOK /\ ItemsOK /\ CalendarOK /\ BookOK
  BY DEF ReportsOK, BookTypeOK, DaysTypeOK
<1>2. [DaysNext]_dayVars
  BY DEF MCDaysNext
<1>3. BookTypeOK'
  BY <1>1, <1>2, DaysTypeStep, BookStep DEF BookTypeOK, ReportsOK
<1>4. DocumentsOK'
  BY <1>3 DEF BookTypeOK, DaysTypeOK
<1>5. DatedOK' /\ ReceiptsOK'
  BY <1>1, <1>2, DatedStep, ReceiptsStep DEF ReportsOK
<1>6. ASSUME kept' PROVE SalesBooked' /\ PurchasesBooked'
  <2>1. kept
    BY <1>6 DEF MCDaysNext, history
  <2>2. SalesBooked /\ PurchasesBooked /\ DatedOK /\ ReceiptsOK
    BY <2>1 DEF ReportsOK
  <2>. QED BY <1>1, <1>4, <1>6, <2>2, SalesBookedStep, PurchasesBookedStep
<1>. QED BY <1>3, <1>5, <1>6 DEF ReportsOK

LEMMA BestSellersTotal ==
    ASSUME ReportsOK, kept
    PROVE  LET best == TopProducts(documents, Days, Cardinality(Products))
           IN  SumFunction([k \in DOMAIN best |-> best[k].sold.revenue])
                 = Books!Total(AllDays, Books!AllAccounts, {"revenue"})
<1> DEFINE a == "revenue"
           net == AllDays
           f == Books!AccountBalances(net, Books!AllAccounts, {a})
<1>1. a \in Books!AllAccounts /\ ~Books!DebitNormal(a) /\ Books!AllAccounts \cap {a} = {a}
  BY DEF Books!AllAccounts, Books!DebitNormal
<1>2. net[a] = Ledger(book, Days, a) /\ Ledger(book, Days, a) \in Int
  <2>1. BookOK /\ CalendarOK /\ a \in Accounts
    BY AccountNames DEF ReportsOK, BookTypeOK, DaysTypeOK
  <2> HIDE DEF net, a
  <2>. QED BY <2>1, LedgerIsBalance, LedgerTypes DEF net
<1> HIDE DEF net
<1>3. f[a] = 0 - net[a]
  BY <1>1 DEF Books!AccountBalances, Books!Balance
<1>4. Books!Total(net, Books!AllAccounts, {a}) = SumFunctionOnSet(f, {a})
  BY <1>1, SameSum, Zenon DEF Books!Total
<1> HIDE DEF f, a
<1>5. SumFunctionOnSet(f, {a}) = f[a]
  <2>1. 0 - net[a] \in Int
    BY <1>2
  <2>2. f[a] \in Int
    BY <1>3, <2>1, Zenon
  <2>. QED BY <2>2, SumSingle
<1>6. Books!Total(net, Books!AllAccounts, {a}) = NetSales(documents)
  <2>1. Books!Total(net, Books!AllAccounts, {a}) = 0 - Ledger(book, Days, a)
    BY <1>2, <1>3, <1>4, <1>5, Zenon
  <2>2. NetSales(documents) = 0 - Ledger(book, Days, a)
    BY DEF ReportsOK, SalesBooked, a
  <2>. QED BY <2>1, <2>2, Zenon
<1>7. DocumentsOK /\ DatedOK
  BY DEF ReportsOK, BookTypeOK, DaysTypeOK
<1>. QED BY <1>6, <1>7, BestSellersEarn DEF net, a

LEMMA SalesSummaryTotal ==
    ASSUME ReportsOK, kept
    PROVE  /\ SalesSummary(documents, today, today).series = [d \in Days |-> DaySales(documents, d)]
           /\ SalesSummary(documents, today, today).period_total
                = 0 - AllDays["revenue"] - AllDays["vat_payable"]
<1> DEFINE daily == [d \in Days |-> DaySales(documents, d)]
<1>1. DocumentsOK /\ DatedOK /\ CalendarOK /\ BookOK
  BY DEF ReportsOK, BookTypeOK, DaysTypeOK
<1>2. (today - today + 1)..today = Days
  BY <1>1 DEF Days, CalendarOK
<1>3. SalesSummary(documents, today, today) = Summary(daily, today)
  BY <1>2, Zenon DEF SalesSummary, DaySales
<1>4. DOMAIN daily = Days
  OBVIOUS
<1>5. SumFunctionOnSet(daily, Days) = NetSales(documents) + TaxOnSales(documents)
  BY <1>1, DaysAddUp
<1> HIDE DEF daily
<1>6. /\ SalesSummary(documents, today, today).series = daily
      /\ SalesSummary(documents, today, today).period_total = SumFunctionOnSet(daily, Days)
  BY <1>3, <1>4 DEF Summary, SumFunction
<1>7. /\ AllDays["revenue"] = Ledger(book, Days, "revenue")
      /\ AllDays["vat_payable"] = Ledger(book, Days, "vat_payable")
      /\ Ledger(book, Days, "revenue") \in Int /\ Ledger(book, Days, "vat_payable") \in Int
  BY <1>1, LedgerIsBalance, LedgerTypes, AccountNames
<1>8. SumFunctionOnSet(daily, Days) = 0 - AllDays["revenue"] - AllDays["vat_payable"]
  <2>1. NetSales(documents) = 0 - AllDays["revenue"] /\ TaxOnSales(documents) = 0 - AllDays["vat_payable"]
    BY <1>7 DEF ReportsOK, SalesBooked
  <2>. QED BY <1>5, <1>7, <2>1
<1>. QED BY <1>6, <1>8 DEF daily

LEMMA PurchaseSummaryTotal ==
    ASSUME ReportsOK, kept
    PROVE  PurchaseSummary(receipts, today, today).period_total = AllDays["inventory"] + AllDays["cogs"]
<1> DEFINE daily == [d \in Days |-> receipts[d]]
           g == [d \in Days |-> book[d]["inventory"]]
           c == [d \in Days |-> book[d]["cogs"]]
<1>1. CalendarOK /\ BookOK /\ ReceiptsOK /\ PurchasesBooked /\ IsFiniteSet(Days)
  BY FS_Interval DEF ReportsOK, BookTypeOK, DaysTypeOK, Days, CalendarOK
<1>2. (today - today + 1)..today = Days /\ DOMAIN receipts = Days
  BY <1>1 DEF Days, CalendarOK, ReceiptsOK
<1>3. PurchaseSummary(receipts, today, today) = Summary(daily, today)
  <2>1. [d \in Days |-> IF d \in DOMAIN receipts THEN receipts[d] ELSE 0] = daily
    BY <1>2
  <2>. QED BY <1>2, <2>1 DEF PurchaseSummary
<1>4. DOMAIN daily = Days
  OBVIOUS
<1>5. \A d \in Days : book[d]["inventory"] \in Int /\ book[d]["cogs"] \in Int
  BY <1>1, LedgerTypes, AccountNames
<1>6. \A d \in Days : daily[d] \in Int /\ g[d] \in Int /\ c[d] \in Int /\ g[d] = daily[d] - c[d]
  BY <1>1, <1>5 DEF PurchasesBooked
<1>7. AllDays["inventory"] = SumFunctionOnSet(g, Days) /\ AllDays["cogs"] = SumFunctionOnSet(c, Days)
  BY LedgerIsBalance, AccountNames DEF Ledger
<1> HIDE DEF daily, g, c
<1>8. PurchaseSummary(receipts, today, today).period_total = SumFunctionOnSet(daily, Days)
  BY <1>3, <1>4 DEF Summary, SumFunction
<1>9. SumFunctionOnSet(g, Days) = SumFunctionOnSet(daily, Days) - SumFunctionOnSet(c, Days)
  BY <1>1, <1>6, SumMinus
<1>10. SumFunctionOnSet(daily, Days) \in Int /\ SumFunctionOnSet(c, Days) \in Int
  BY <1>1, <1>6, SumInt
<1>. QED BY <1>7, <1>8, <1>9, <1>10

\* Until a sale or a receipt is deleted or the books are closed, the sales
\* summary, the best sellers and the purchase summary agree with the journal over
\* the days, and the sales summary day by day while documents are decided on the
\* day they are made (reports/views.py, accounting/reports.py).
THEOREM ReportsAgreeWithTheJournal == MCDaysSpec => []PromptSalesMeetTheBooks
<1>1. MCDaysInit => ReportsOK
  BY ReportsStart
<1>2. ReportsOK /\ [MCDaysNext]_<<dayVars, history>> => ReportsOK'
  BY ReportsStep
<1>3. ReportsOK => PromptSalesMeetTheBooks
  <2> SUFFICES ASSUME ReportsOK, kept
               PROVE  /\ ReportsMeetTheBooks
                      /\ prompt => \A d \in Days : SalesSummary(documents, today, today).series[d]
                                                    = 0 - book[d]["revenue"] - book[d]["vat_payable"]
    BY DEF PromptSalesMeetTheBooks
  <2>1. ReportsMeetTheBooks
    BY BestSellersTotal, SalesSummaryTotal, PurchaseSummaryTotal DEF ReportsMeetTheBooks
  <2>2. ASSUME prompt, NEW d \in Days
        PROVE  SalesSummary(documents, today, today).series[d]
                 = 0 - book[d]["revenue"] - book[d]["vat_payable"]
    <3>1. SalesSummary(documents, today, today).series[d] = DaySales(documents, d)
      BY SalesSummaryTotal
    <3>. QED BY <2>2, <3>1 DEF ReportsOK, SalesBooked
  <2>. QED BY <2>1, <2>2
<1>. QED BY <1>1, <1>2, <1>3, PTL DEF MCDaysSpec
=============================================================================
