------------------------------ MODULE StockLocks ------------------------------
(***************************************************************************)
(* The stock operations of apps/inventory/services.py and the counters of  *)
(* apps/core/numbering.py one row lock at a time.                          *)
(*                                                                         *)
(* A request is a transaction that takes row after row, in the order its   *)
(* code selects them FOR UPDATE, changes a copy of each, and commits all   *)
(* of them at the end or none.  PostgreSQL makes it wait for a row that    *)
(* another one has taken, and ends one of those that wait for each other.  *)
(* A row that does not exist yet is inserted; whether two transactions can *)
(* both insert it depends on its unique constraint.                        *)
(*                                                                         *)
(* A product that tracks batches has one batch here.  Serial units are one *)
(* row of a product in a warehouse, the oldest unit there, which every     *)
(* draw that names no serials takes.  The rows that foreign keys share at  *)
(* commit are left out: only those that receive into a batch wait for one. *)
(***************************************************************************)
EXTENDS Integers, Sequences, FiniteSets, SequencesExt, TLC

CONSTANTS
    Goods,      \* the variants, and the products that have none
    Products, Warehouses,
    ProductOf,  \* the product of every good: its variants share batches and serials
    Tracked,    \* the products that track batches
    Serial,     \* the products that track serial numbers
    Varied,     \* the goods that are variants
    Counters,   \* the document types that NumberSequence counts
    Requests,   \* one transaction each (two, if it creates a document)
    Operations, \* what the requests may ask for, built with the operators below
    Stocked     \* the quantity of every good in every warehouse at first

ASSUME LockConstants ==
    /\ IsFiniteSet(Goods) /\ ProductOf \in [Goods -> Products] /\ Varied \subseteq Goods
    /\ Tracked \subseteq Products /\ Serial \subseteq Products
    /\ Stocked \in [Goods -> [Warehouses -> Nat]]

Item(g, w) == <<"StockItem", g, w>>
BatchStock(p, w) == <<"BatchStock", p, w>>
Batch(p) == <<"Batch", p>>
SerialUnits(p, w) == <<"SerialUnit", p, w>>
NumberSequence(k) == <<"NumberSequence", k>>

Items == {Item(g, w) : g \in Goods, w \in Warehouses}
Sequences == {NumberSequence(k) : k \in Counters}
Batches == {Batch(p) : p \in Tracked}
BatchStocks == {BatchStock(p, w) : p \in Tracked, w \in Warehouses}
Serials == {SerialUnits(p, w) : p \in Serial, w \in Warehouses}
Rows == Items \cup Sequences \cup Batches \cup BatchStocks \cup Serials

----------------------------------------------------------------------------
(* The rows of every operation in the order it takes them, each with the   *)
(* change it makes: a quantity, or one more number of a counter.           *)

Change(row, by) == <<[row |-> row, by |-> by, locks |-> TRUE]>>
Lock(row) == Change(row, 0)
\* A row that is read without a lock, and inserted if there is none.
FindOrMake(row) == <<[row |-> row, by |-> 0, locks |-> FALSE]>>

OfBatches(p, steps) == IF p \in Tracked THEN steps ELSE <<>>
OfSerials(p, steps) == IF p \in Serial THEN steps ELSE <<>>

\* The batch, its date if it has a new one, and its balance in the warehouse.
ReceiveBatch(p, w, n, dated) ==
    OfBatches(p, FindOrMake(Batch(p)) \o (IF dated THEN Lock(Batch(p)) ELSE <<>>)
                    \o Change(BatchStock(p, w), n))

\* FEFO selects the batch FOR UPDATE together with its balance.
Draw(p, w, n) ==
    OfBatches(p, Change(BatchStock(p, w), 0 - n) \o Lock(Batch(p)))
        \o OfSerials(p, Lock(SerialUnits(p, w)))

StockIn(g, w, n, dated) == ReceiveBatch(ProductOf[g], w, n, dated) \o Change(Item(g, w), n)
StockOut(g, w, n) == Change(Item(g, w), 0 - n) \o Draw(ProductOf[g], w, n)
Transfer(g, from, to, n) ==
    Change(Item(g, from), 0 - n) \o Draw(ProductOf[g], from, n)
        \o OfBatches(ProductOf[g], Change(BatchStock(ProductOf[g], to), n))
        \o Change(Item(g, to), n)

AdjustOf(g, w, by, dated) ==
    IF by > 0 THEN ReceiveBatch(ProductOf[g], w, by, dated) ELSE Draw(ProductOf[g], w, 0 - by)
AdjustBatchFirst(g, w, by, dated) ==                            \* faulty: order swapped
    AdjustOf(g, w, by, dated) \o Change(Item(g, w), by)
Adjust(g, w, by, dated) == Change(Item(g, w), by) \o AdjustOf(g, w, by, dated)

Number(k) == Change(NumberSequence(k), 1)

\* The lines of a document are moved in the order they were entered.
Lines(lines, Move(_)) == FlattenSeq([i \in 1..Len(lines) |-> Move(lines[i])])

Sale(lines, w) == Lines(lines, LAMBDA g : StockOut(g, w, 1))
Assemble(bundle, parts, w) == Sale(parts, w) \o StockIn(bundle, w, 1, FALSE)
ConfirmInvoice(lines, w) == Sale(lines, w) \o Number("journal_entry")
RingUp(lines, w) == Number("pos_transaction") \o Sale(lines, w) \o Number("journal_entry")
ReceiveGoods(lines, w, dated) ==
    Number("goods_receipt") \o Lines(lines, LAMBDA g : StockIn(g, w, 1, dated))
        \o Number("journal_entry")

\* A document whose serializer opens no transaction of its own.
Create(k) == Number(k)

NumbersOf(steps) == {steps[i].row : i \in {j \in 1..Len(steps) : steps[j].row \in Sequences}}

\* Only batches are read without a lock, and a transaction numbers at most one
\* document of a kind.
ASSUME OperationConstants ==
    /\ Operations \subseteq [steps : Seq([row : Rows, by : Int, locks : BOOLEAN]),
                             alone : BOOLEAN, mixes : BOOLEAN]
    /\ \A op \in Operations : \A i \in DOMAIN op.steps :
          /\ op.steps[i].locks \/ op.steps[i].row \in Batches
          /\ op.steps[i].row \in Sequences =>
              /\ op.steps[i].by = 1
              /\ \A j \in DOMAIN op.steps : op.steps[j].row = op.steps[i].row => j = i

\* What takes one line out, what has no batch, and numbers taken on their own.
OneLine(op) ==
    \E g \in Goods, w \in Warehouses, k \in Counters :
        \E by \in {op.steps[i].by : i \in DOMAIN op.steps} :
            \/ op.steps \in {StockOut(g, w, 0 - by), ConfirmInvoice(<<g>>, w),
                            RingUp(<<g>>, w), Create(k)}
            \/ by < 0 /\ op.steps = Adjust(g, w, by, FALSE)
            \/ /\ ProductOf[g] \notin Tracked
               /\ op.steps \in {StockIn(g, w, by, FALSE), Adjust(g, w, by, FALSE)}

\* The other operations take rows in an order of their own.
ASSUME MixedOperations == \A op \in Operations : op.mixes \/ OneLine(op)

----------------------------------------------------------------------------
VARIABLES
    table,    \* the committed rows of every key: the quantities they hold
    request,  \* the transaction of every request
    document  \* the committed documents: [sequence, number, by]

vars == <<table, request, document>>

Unsent == [state |-> "unsent"]
Ended == [state |-> "ended"]
Served == [state |-> "served"]

\* copy: the rows it has taken as it will write them; made: those it inserted.
Running(op, pc, copy, made) ==
    [state |-> "running", op |-> op, pc |-> pc, copy |-> copy, made |-> made]

Active(r) == request[r].state = "running"

\* unique_together does not take two NULL variants to be equal.
UniqueCounterOnly(row) == row[1] \notin {"StockItem", "BatchStock"}   \* faulty
Unique(row) == row \in Items => row[2] \in Varied

\* What there is of a product in a warehouse at first, over all its variants.
Held(p, w) ==
    LET its == {g \in Goods : ProductOf[g] = p}
    IN  SumFunctionOnSet([g \in its |-> Stocked[g][w]], its)

RowOf(quantity) == IF quantity > 0 THEN <<quantity>> ELSE <<>>

\* There is a row for everything in stock.
StartsWith(row) ==
    IF row \in Sequences THEN <<>>
    ELSE IF row \in Serials THEN <<0>>
    ELSE IF row \in Batches THEN IF \E w \in Warehouses : Held(row[2], w) > 0 THEN <<0>> ELSE <<>>
    ELSE IF row \in BatchStocks THEN RowOf(Held(row[2], row[3]))
    ELSE RowOf(Stocked[row[2]][row[3]])

Init ==
    /\ table = [row \in Rows |-> StartsWith(row)]
    /\ request = [r \in Requests |-> Unsent]
    /\ document = {}

Begin(r, op) ==
    /\ request[r] = Unsent
    /\ request' = [request EXCEPT ![r] = Running(op, 1, [row \in {} |-> 0], {})]
    /\ UNCHANGED <<table, document>>

----------------------------------------------------------------------------
(* One row of a transaction.                                               *)

Unfinished(r) == Active(r) /\ request[r].pc <= Len(request[r].op.steps)
Step(r) == request[r].op.steps[request[r].pc]

\* What its query finds: committed rows and its own.
Found(r) == Len(table[Step(r).row]) + (IF Step(r).row \in request[r].made THEN 1 ELSE 0)
Value(r) ==
    IF Step(r).row \in DOMAIN request[r].copy THEN request[r].copy[Step(r).row]
    ELSE IF table[Step(r).row] = <<>> THEN 0 ELSE Head(table[Step(r).row])

\* FEFO selects the balances above zero.
Selects(r) ==
    /\ Step(r).row \in BatchStocks /\ Step(r).by < 0 => Value(r) > 0
    /\ Step(r).locks \/ table[Step(r).row] = <<>>

\* Others wait for a row it changed, and for a key it inserted if the key is unique.
Holds(s, row) ==
    /\ Active(s) /\ row \in DOMAIN request[s].copy
    /\ row \in request[s].made => Unique(row)

WaitsForNobody(r) == {}                                         \* faulty: no FOR UPDATE
WaitsFor(r) == IF Unfinished(r) /\ Selects(r)
               THEN {s \in Requests \ {r} : Holds(s, Step(r).row)} ELSE {}

Take(r) ==
    /\ Unfinished(r) /\ WaitsFor(r) = {}
    /\ Found(r) <= 1 /\ Value(r) + Step(r).by >= 0
    /\ LET row  == Step(r).row
           copy == request[r].copy
           made == request[r].made
       IN  request' = [request EXCEPT ![r] =
               Running(@.op, @.pc + 1,
                       IF Selects(r)
                       THEN [x \in DOMAIN copy \cup {row} |->
                                IF x = row THEN Value(r) + Step(r).by ELSE copy[x]]
                       ELSE copy,
                       IF Found(r) = 0 THEN made \cup {row} ELSE made)]
    /\ UNCHANGED <<table, document>>

KeepWhatWasDone(r) ==                                           \* faulty: not atomic
    /\ request' = [request EXCEPT ![r] = Ended]
    /\ table' = [row \in Rows |-> IF row \in DOMAIN request[r].copy THEN <<request[r].copy[row]>> ELSE table[row]]
    /\ UNCHANGED document
Rollback(r) ==
    /\ request' = [request EXCEPT ![r] = Ended]
    /\ UNCHANGED <<table, document>>

\* Two rows where one is expected, or not enough of it.
Refuse(r) ==
    /\ Unfinished(r) /\ WaitsFor(r) = {}
    /\ Found(r) > 1 \/ Value(r) + Step(r).by < 0
    /\ Rollback(r)

\* The process dies, or something later in the request fails.
Fail(r) == Active(r) /\ Rollback(r)

\* Whom r waits for, whom they wait for, and so on; PostgreSQL ends one of the
\* transactions that wait for themselves.
Awaited(r) ==
    {s \in Requests : \A C \in SUBSET Requests :
        WaitsFor(r) \subseteq C /\ (\A q \in C : WaitsFor(q) \subseteq C) => s \in C}
Unnoticed(r) == FALSE                                           \* faulty
Deadlocked(r) == WaitsFor(r) # {} /\ r \in Awaited(r)
EndDeadlock(r) == Deadlocked(r) /\ Rollback(r)

----------------------------------------------------------------------------
(* Commit.                                                                 *)

Written(r) == [row \in Rows |->
    IF row \in request[r].made THEN Append(table[row], request[r].copy[row])
    ELSE IF row \in DOMAIN request[r].copy THEN [table[row] EXCEPT ![1] = request[r].copy[row]]
    ELSE table[row]]

Numbered(r) == {[sequence |-> row, number |-> request[r].copy[row], by |-> r] :
                    row \in NumbersOf(request[r].op.steps)}

\* The documents are rows of the transaction that took their numbers, unless the
\* number was all that the transaction was about.
Commit(r) ==
    /\ Active(r) /\ ~ Unfinished(r)
    /\ table' = Written(r)
    /\ IF request[r].op.alone
       THEN /\ request' = [request EXCEPT ![r] = [state |-> "numbered", numbers |-> Numbered(r)]]
            /\ UNCHANGED document
       ELSE /\ request' = [request EXCEPT ![r] = Served]
            /\ document' = document \cup Numbered(r)

\* The row of such a document, in a transaction of its own.
SaveDocument(r) ==
    /\ request[r].state = "numbered"
    /\ document' = document \cup request[r].numbers
    /\ request' = [request EXCEPT ![r] = Served]
    /\ UNCHANGED table

LoseDocument(r) ==
    /\ request[r].state = "numbered"
    /\ request' = [request EXCEPT ![r].state = "lost"]
    /\ UNCHANGED <<table, document>>

\* The server goes on with what it has begun, and the database looks for deadlocks.
Work(r) == Take(r) \/ Refuse(r) \/ EndDeadlock(r) \/ Commit(r) \/ SaveDocument(r)
Break(r) == Fail(r) \/ LoseDocument(r)

Next == \E r \in Requests : (\E op \in Operations : Begin(r, op)) \/ Work(r) \/ Break(r)

Fairness == \A r \in Requests : WF_vars(Work(r))

Spec == Init /\ [][Next]_vars /\ Fairness

----------------------------------------------------------------------------
(* Properties.                                                             *)

Total(row) == SumFunctionOnSet(table[row], DOMAIN table[row])

MovesOf(steps) ==
    [i \in {j \in DOMAIN steps : steps[j].row \in Items} |->
        [place |-> steps[i].row, by |-> steps[i].by]]

Deeds == {[moves |-> MovesOf(op.steps), documents |-> NumbersOf(op.steps)] : op \in Operations}

Promise == INSTANCE StockPromise WITH
    Places   <- Items,
    onHand   <- [row \in Items |-> Total(row)],
    numbered <- [row \in Sequences |-> Total(row)],
    served   <- {r \in Requests : request[r].state \in {"served", "numbered", "lost"}}

\* Every request is carried out whole or not at all, on the quantities the
\* others left: StockPromise, read off the committed rows.
StockIsPromised == Promise!Spec

\* "every numbered document type gets gap-free ... numbering": no number is on two
\* documents, and the ones that are numbered in the transaction that saves them
\* leave none out.
NumbersRunOn ==
    \A row \in Sequences :
        LET numbered == {d \in document : d.sequence = row}
            numbers  == {d.number : d \in numbered}
        IN  /\ Cardinality(numbers) = Cardinality(numbered)
            /\ \/ numbers = 1..Total(row)
               \/ \E r \in Requests : request[r].state \in {"numbered", "lost"}
                                        /\ \E d \in request[r].numbers : d.sequence = row

\* "get_or_create": no key is ever inserted twice, except the one without variant.
OneRowPerKey ==
    \A row \in Rows : (row \in Items => row[2] \in Varied) => Len(table[row]) <= 1

\* What takes one line out takes the stock row, the batch's balance, the batch and
\* the counters in one order: requests wait for each other in a circle only if one
\* of them receives into a batch, assembles, transfers or has several lines.
CirclesNeedTwoOrders ==
    \A r \in Requests : Deadlocked(r) => \E s \in Requests : Deadlocked(s) /\ request[s].op.mixes

\* Whoever waits for whom, a request that has begun ends.
RequestsEnd == \A r \in Requests :
    request[r].state \in {"running", "numbered"} ~> request[r].state \in {"served", "ended", "lost"}
=============================================================================
