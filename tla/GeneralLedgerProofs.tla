------------------------- MODULE GeneralLedgerProofs -------------------------
(***************************************************************************)
(* Proofs about GeneralLedger: its type invariant, and that the accounts   *)
(* balance whatever is posted, closed, edited, lost or switched off, as    *)
(* long as every amount that enters is a whole number of cents.            *)
(*                                                                         *)
(* The check of create_journal_entry sums the lines before the columns     *)
(* round them.  So the invariant is that nothing an entry can be made from *)
(* has parts of a cent: not a total, not a cost, not an expense, not an    *)
(* account, nor a sum a closing request has read.  Rounding then changes   *)
(* nothing, and the checked entry is the one that is stored.               *)
(***************************************************************************)
EXTENDS MCGeneralLedger, SumTheorems, TLAPS

LEMMA AccountsFinite == IsFiniteSet(Accounts)
<1>1. IsFiniteSet(Assets)
  <2>1. IsFiniteSet({}) BY FS_EmptySet
  <2>2. IsFiniteSet({} \cup {"cash"}) BY <2>1, FS_AddElement
  <2>3. IsFiniteSet(({} \cup {"cash"}) \cup {"receivable"}) BY <2>2, FS_AddElement
  <2>4. IsFiniteSet((({} \cup {"cash"}) \cup {"receivable"}) \cup {"inventory"})
    BY <2>3, FS_AddElement
  <2>5. IsFiniteSet(((({} \cup {"cash"}) \cup {"receivable"}) \cup {"inventory"}) \cup {"vatReceivable"})
    BY <2>4, FS_AddElement
  <2>6. Assets = ((({} \cup {"cash"}) \cup {"receivable"}) \cup {"inventory"}) \cup {"vatReceivable"}
    BY DEF Assets
  <2>. QED BY <2>5, <2>6
<1>2. Accounts = ((((((Assets \cup {"payable"}) \cup {"vatPayable"}) \cup {"retained"})
                     \cup {"revenue"}) \cup {"cogs"}) \cup {"expenses"})
  BY DEF Accounts, Liabilities, Equity, Income, Spending
<1>3. IsFiniteSet(Assets \cup {"payable"}) BY <1>1, FS_AddElement
<1>4. IsFiniteSet((Assets \cup {"payable"}) \cup {"vatPayable"}) BY <1>3, FS_AddElement
<1>5. IsFiniteSet(((Assets \cup {"payable"}) \cup {"vatPayable"}) \cup {"retained"})
  BY <1>4, FS_AddElement
<1>6. IsFiniteSet((((Assets \cup {"payable"}) \cup {"vatPayable"}) \cup {"retained"}) \cup {"revenue"})
  BY <1>5, FS_AddElement
<1>7. IsFiniteSet(((((Assets \cup {"payable"}) \cup {"vatPayable"}) \cup {"retained"})
                     \cup {"revenue"}) \cup {"cogs"})
  BY <1>6, FS_AddElement
<1>. QED BY <1>2, <1>7, FS_AddElement

----------------------------------------------------------------------------
(* Whole cents.                                                            *)

InCents(x) == \E k \in Int : x = Cent * k

LEMMA CentsInt == ASSUME NEW x, InCents(x) PROVE x \in Int
BY LedgerConstants DEF InCents

LEMMA ZeroInCents == InCents(0)
BY LedgerConstants, 0 \in Int, Cent * 0 = 0 DEF InCents

\* Sums and differences of whole cents are whole cents.
LEMMA CentsClosed ==
    ASSUME NEW x, InCents(x), NEW y, InCents(y)
    PROVE  InCents(x + y) /\ InCents(x - y) /\ InCents(0 - x)
<1>1. PICK j \in Int : x = Cent * j
  BY DEF InCents
<1>2. PICK k \in Int : y = Cent * k
  BY DEF InCents
<1>3. Cent \in Int
  BY LedgerConstants
<1>4. Cent * (j + k) = Cent * j + Cent * k /\ Cent * (j - k) = Cent * j - Cent * k
      /\ Cent * (0 - j) = 0 - Cent * j
  BY <1>3
<1>5. j + k \in Int /\ j - k \in Int /\ 0 - j \in Int
  OBVIOUS
<1>. QED BY <1>1, <1>2, <1>4, <1>5 DEF InCents

LEMMA ToCentsInt == ASSUME NEW x \in Int PROVE ToCents(x) \in Int
<1>1. Cent \in Nat /\ Cent > 0
  BY LedgerConstants
<1>2. (2 * x + Cent) \div (2 * Cent) \in Int
  BY <1>1
<1>. QED BY <1>1, <1>2 DEF ToCents

\* Rounding leaves whole cents alone.
LEMMA CentsKept == ASSUME NEW x, InCents(x) PROVE ToCents(x) = x
<1>1. PICK k \in Int : x = Cent * k
  BY DEF InCents
<1>2. Cent \in Nat /\ Cent > 0
  BY LedgerConstants
<1>3. ASSUME NEW c \in Nat, c > 0, NEW p \in Int, p = c * k
      PROVE  (2 * p + c) \div (2 * c) = k
  <2> DEFINE q == (2 * p + c) \div (2 * c)
             m == (2 * p + c) % (2 * c)
  <2>1. 2 * c \in Nat /\ 2 * c > 0 /\ 2 * p + c \in Int
    BY <1>3
  <2>2. q \in Int /\ m \in Nat /\ m < 2 * c /\ 2 * p + c = (2 * c) * q + m
    BY <2>1
  <2>. HIDE DEF q, m
  <2>3. c * (2 * (k - q)) = m - c
    BY <2>2, <1>3
  <2>4. k = q
    <3>1. CASE k - q >= 1
      <4>1. c * (2 * (k - q)) >= 2 * c
        BY <1>3, <2>2, <3>1
      <4>. QED BY <4>1, <2>2, <2>3, <1>3
    <3>2. CASE k - q <= -1
      <4>1. c * (2 * (k - q)) <= -2 * c
        BY <1>3, <2>2, <3>2
      <4>. QED BY <4>1, <2>2, <2>3, <1>3
    <3>. QED BY <3>1, <3>2, <2>2
  <2>. QED BY <2>4 DEF q
<1>4. Cent * k \in Int
  BY <1>1, <1>2
<1>. QED BY <1>1, <1>2, <1>3, <1>4 DEF ToCents

\* A sum of whole cents is a whole number of cents.
LEMMA SumInCents ==
    ASSUME NEW S, IsFiniteSet(S), NEW f, \A x \in S : InCents(f[x])
    PROVE  InCents(SumFunctionOnSet(f, S))
<1> DEFINE T == {s \in SUBSET S : ~ InCents(SumFunctionOnSet(f, s))}
<1>1. SUFFICES ASSUME T # {} PROVE FALSE
  <2>1. S \in SUBSET S
    OBVIOUS
  <2>. QED BY <2>1
<1>2. PICK s \in T : \A x \in s : s \ {x} \notin T
  BY <1>1, SmallestSubset
<1>3. IsFiniteSet(s)
  BY FS_Subset
<1>4. s # {}
  BY SumEmpty, ZeroInCents
<1>5. Pick(s) \in s
  BY <1>4, PickInSet
<1>6. InCents(SumFunctionOnSet(f, s \ {Pick(s)})) /\ InCents(f[Pick(s)])
  BY <1>2, <1>5
<1>7. InCents(SumFunctionOnSet(f, s))
  BY <1>3, <1>4, <1>6, SumPick, CentsClosed
<1>. QED BY <1>7

LEMMA DivisibleInCents == ASSUME NEW x \in Nat, x % Cent = 0 PROVE InCents(x)
<1>1. Cent \in Nat /\ Cent > 0
  BY LedgerConstants
<1>2. ASSUME NEW c \in Nat, c > 0, x % c = 0 PROVE x = c * (x \div c) /\ x \div c \in Int
  BY <1>2
<1>. QED BY <1>1, <1>2 DEF InCents

----------------------------------------------------------------------------
(* Entries.                                                                *)

IntLines(lines) == \A l \in lines : l[2] \in Int
CentLines(lines) == \A l \in lines : InCents(l[2])

IntEntry(e) == \E debits, credits :
    e = Entry(debits, credits) /\ IntLines(debits) /\ IntLines(credits)
CentEntry(e) == \E debits, credits :
    e = Entry(debits, credits) /\ CentLines(debits) /\ CentLines(credits)

LEMMA CentEntryInt == ASSUME NEW e, CentEntry(e) PROVE IntEntry(e)
BY CentsInt DEF CentEntry, IntEntry, CentLines, IntLines

\* Every entry of a business event is made of the amounts of its row.
LEMMA IntEntries ==
    ASSUME NEW row, row.subtotal \in Int, row.tax \in Int, row.total \in Int, row.cogs \in Int,
           NEW n \in Int
    PROVE  /\ IntEntry(InvoiceEntry(row, n)) /\ IntEntry(SaleEntry(row))
           /\ IntEntry(RefundEntry(row)) /\ IntEntry(ReceiptEntry(row))
           /\ IntEntry(CollectionEntry(n)) /\ IntEntry(SupplierEntry(n))
           /\ IntEntry(ExpenseEntry(n))
<1>1. /\ row.subtotal \in Int /\ row.tax \in Int /\ row.total \in Int /\ row.cogs \in Int
      /\ n \in Int /\ row.subtotal + row.tax \in Int
  OBVIOUS
<1>2. ASSUME NEW debits, NEW credits, IntLines(debits), IntLines(credits)
      PROVE  IntEntry(Entry(debits, credits))
  BY <1>2 DEF IntEntry
<1>3. IntEntry(InvoiceEntry(row, n))
  <2>1. IntLines({<<"receivable", row.total>>, <<"cogs", n>>})
    BY <1>1 DEF IntLines
  <2>2. IntLines({<<"revenue", row.subtotal>>, <<"vatPayable", row.tax>>, <<"inventory", n>>})
    BY <1>1 DEF IntLines
  <2>. QED BY <2>1, <2>2, <1>2 DEF InvoiceEntry
<1>4. IntEntry(SaleEntry(row))
  <2>1. IntLines({<<"cash", row.total>>, <<"cogs", row.cogs>>})
    BY <1>1 DEF IntLines
  <2>2. IntLines({<<"revenue", row.subtotal>>, <<"vatPayable", row.tax>>, <<"inventory", row.cogs>>})
    BY <1>1 DEF IntLines
  <2>. QED BY <2>1, <2>2, <1>2 DEF SaleEntry
<1>5. IntEntry(RefundEntry(row))
  <2>1. IntLines({<<"revenue", row.subtotal>>, <<"vatPayable", row.tax>>, <<"inventory", row.cogs>>})
    BY <1>1 DEF IntLines
  <2>2. IntLines({<<"cash", row.total>>, <<"cogs", row.cogs>>})
    BY <1>1 DEF IntLines
  <2>. QED BY <2>1, <2>2, <1>2 DEF RefundEntry
<1>6. IntEntry(ReceiptEntry(row))
  <2>1. IntLines({<<"inventory", row.subtotal>>, <<"vatReceivable", row.tax>>})
    BY <1>1 DEF IntLines
  <2>2. IntLines({<<"payable", row.subtotal + row.tax>>})
    BY <1>1 DEF IntLines
  <2>. QED BY <2>1, <2>2, <1>2 DEF ReceiptEntry
<1>7. ASSUME NEW a PROVE IntLines({<<a, n>>})
  BY <1>1 DEF IntLines
<1>8. IntEntry(CollectionEntry(n)) /\ IntEntry(SupplierEntry(n)) /\ IntEntry(ExpenseEntry(n))
  BY <1>2, <1>7 DEF CollectionEntry, SupplierEntry, ExpenseEntry
<1>. QED BY <1>3, <1>4, <1>5, <1>6, <1>8

RowInCents(row) ==
    InCents(row.subtotal) /\ InCents(row.tax) /\ InCents(row.total) /\ InCents(row.cogs)

\* Out of whole cents only entries of whole cents are made.
LEMMA CentEntries ==
    ASSUME NEW row, RowInCents(row), NEW n, InCents(n)
    PROVE  /\ CentEntry(InvoiceEntry(row, n)) /\ CentEntry(SaleEntry(row))
           /\ CentEntry(RefundEntry(row)) /\ CentEntry(ReceiptEntry(row))
           /\ CentEntry(CollectionEntry(n)) /\ CentEntry(SupplierEntry(n))
           /\ CentEntry(ExpenseEntry(n))
<1>1. /\ InCents(row.subtotal) /\ InCents(row.tax) /\ InCents(row.total) /\ InCents(row.cogs)
      /\ InCents(n) /\ InCents(row.subtotal + row.tax)
  BY CentsClosed DEF RowInCents
<1>2. ASSUME NEW debits, NEW credits, CentLines(debits), CentLines(credits)
      PROVE  CentEntry(Entry(debits, credits))
  BY <1>2 DEF CentEntry
<1>3. CentEntry(InvoiceEntry(row, n))
  <2>1. CentLines({<<"receivable", row.total>>, <<"cogs", n>>})
    BY <1>1 DEF CentLines
  <2>2. CentLines({<<"revenue", row.subtotal>>, <<"vatPayable", row.tax>>, <<"inventory", n>>})
    BY <1>1 DEF CentLines
  <2>. QED BY <2>1, <2>2, <1>2 DEF InvoiceEntry
<1>4. CentEntry(SaleEntry(row))
  <2>1. CentLines({<<"cash", row.total>>, <<"cogs", row.cogs>>})
    BY <1>1 DEF CentLines
  <2>2. CentLines({<<"revenue", row.subtotal>>, <<"vatPayable", row.tax>>, <<"inventory", row.cogs>>})
    BY <1>1 DEF CentLines
  <2>. QED BY <2>1, <2>2, <1>2 DEF SaleEntry
<1>5. CentEntry(RefundEntry(row))
  <2>1. CentLines({<<"revenue", row.subtotal>>, <<"vatPayable", row.tax>>, <<"inventory", row.cogs>>})
    BY <1>1 DEF CentLines
  <2>2. CentLines({<<"cash", row.total>>, <<"cogs", row.cogs>>})
    BY <1>1 DEF CentLines
  <2>. QED BY <2>1, <2>2, <1>2 DEF RefundEntry
<1>6. CentEntry(ReceiptEntry(row))
  <2>1. CentLines({<<"inventory", row.subtotal>>, <<"vatReceivable", row.tax>>})
    BY <1>1 DEF CentLines
  <2>2. CentLines({<<"payable", row.subtotal + row.tax>>})
    BY <1>1 DEF CentLines
  <2>. QED BY <2>1, <2>2, <1>2 DEF ReceiptEntry
<1>7. ASSUME NEW a PROVE CentLines({<<a, n>>})
  BY <1>1 DEF CentLines
<1>8. CentEntry(CollectionEntry(n)) /\ CentEntry(SupplierEntry(n)) /\ CentEntry(ExpenseEntry(n))
  BY <1>2, <1>7 DEF CollectionEntry, SupplierEntry, ExpenseEntry
<1>. QED BY <1>3, <1>4, <1>5, <1>6, <1>8

LEMMA SideType ==
    ASSUME NEW lines, IntLines(lines) PROVE Side(lines) \in [Accounts -> Int]
<1>1. ASSUME NEW a \in Accounts PROVE Side(lines)[a] \in Int
  <2>1. CASE \E l \in lines : l[1] = a
    <3>1. (CHOOSE l \in lines : l[1] = a) \in lines
      BY <2>1
    <3>. QED BY <2>1, <3>1 DEF Side, IntLines
  <2>. QED BY <2>1 DEF Side
<1>. QED BY <1>1 DEF Side

LEMMA SideInCents ==
    ASSUME NEW lines, CentLines(lines), NEW a \in Accounts PROVE InCents(Side(lines)[a])
<1>1. CASE \E l \in lines : l[1] = a
  <2>1. (CHOOSE l \in lines : l[1] = a) \in lines
    BY <1>1
  <2>2. Side(lines)[a] = (CHOOSE l \in lines : l[1] = a)[2]
    BY <1>1 DEF Side
  <2>. QED BY <2>1, <2>2 DEF CentLines
<1>2. CASE ~ \E l \in lines : l[1] = a
  <2>1. Side(lines)[a] = 0
    BY <1>2 DEF Side
  <2>. QED BY <2>1, ZeroInCents
<1>. QED BY <1>1, <1>2

LEMMA PostedType ==
    ASSUME ledger \in [Accounts -> Int], NEW debits, NEW credits,
           IntLines(debits), IntLines(credits)
    PROVE  Posted(Entry(debits, credits)) \in [Accounts -> Int]
<1>1. Side(debits) \in [Accounts -> Int] /\ Side(credits) \in [Accounts -> Int]
  BY SideType
<1>2. \A a \in Accounts : ToCents(Side(debits)[a]) \in Int /\ ToCents(Side(credits)[a]) \in Int
  BY <1>1, ToCentsInt
<1>. QED BY <1>2 DEF Posted, Entry

\* An entry of whole cents that passes the check is stored as it was checked:
\* the accounts still balance.
LEMMA PostedBalances ==
    ASSUME ledger \in [Accounts -> Int], \A a \in Accounts : InCents(ledger[a]),
           NEW debits, NEW credits, CentLines(debits), CentLines(credits),
           Postable(Entry(debits, credits))
    PROVE  /\ \A a \in Accounts : InCents(Posted(Entry(debits, credits))[a])
           /\ Sum(Posted(Entry(debits, credits))) = Sum(ledger)
<1> DEFINE d == Side(debits)
           c == Side(credits)
           new == Posted(Entry(debits, credits))
           moved == [a \in Accounts |-> c[a] - d[a]]
<1>1. \A a \in Accounts : InCents(d[a]) /\ InCents(c[a])
  BY SideInCents
<1>2. \A a \in Accounts : d[a] \in Int /\ c[a] \in Int /\ ledger[a] \in Int
  BY <1>1, CentsInt
<1>3. \A a \in Accounts : new[a] = ledger[a] + d[a] - c[a]
  BY <1>1, CentsKept DEF Posted, Entry
<1>4. \A a \in Accounts : InCents(new[a])
  <2>1. ASSUME NEW a \in Accounts PROVE InCents(new[a])
    <3>1. InCents(ledger[a] + d[a])
      BY <1>1, CentsClosed
    <3>. QED BY <1>1, <1>3, <3>1, CentsClosed
  <2>. QED BY <2>1
<1>5. Sum(d) = Sum(c)
  BY DEF Postable, Entry
<1>6. \A a \in Accounts : moved[a] = c[a] - d[a] /\ moved[a] \in Int
  BY <1>2
<1>7. \A a \in Accounts : new[a] = ledger[a] - moved[a]
  BY <1>2, <1>3, <1>6
<1>8. Sum(d) \in Int /\ Sum(ledger) \in Int
  BY <1>2, AccountsFinite, SumInt DEF Sum
<1> HIDE DEF d, c, new, moved
<1>9. Sum(moved) = Sum(c) - Sum(d)
  BY <1>2, <1>6, AccountsFinite, SumMinus DEF Sum
<1>10. Sum(new) = Sum(ledger) - Sum(moved)
  BY <1>2, <1>6, <1>7, AccountsFinite, SumMinus DEF Sum
<1>11. Sum(new) = Sum(ledger)
  BY <1>5, <1>8, <1>9, <1>10
<1>. QED BY <1>4, <1>11 DEF new

----------------------------------------------------------------------------
(* Type correctness.                                                       *)

LEMMA BookType ==
    ASSUME TypeOK, NEW e, IntEntry(e), Book(e)
    PROVE  /\ ledger' \in [Accounts -> Int] /\ active' \in SUBSET Accounts
           /\ earned' \in Int /\ earnedAt' \subseteq Int
<1>1. ledger' \in [Accounts -> Int]
  BY PostedType DEF Book, TypeOK, IntEntry
<1>2. NetIncome(ledger) \in Int /\ NetIncome(ledger') \in Int
  <2>1. {"revenue", "cogs", "expenses"} \subseteq Accounts
    BY DEF Accounts, Income, Spending
  <2>. QED BY <1>1, <2>1 DEF NetIncome, TypeOK
<1>3. earned \in Int /\ earnedAt \subseteq Int /\ active \in SUBSET Accounts
  BY DEF TypeOK
<1>4. /\ earned' = earned + NetIncome(ledger') - NetIncome(ledger)
      /\ earnedAt' = earnedAt \cup {earned'}
      /\ active' = active
  BY DEF Book
<1>5. earned' \in Int
  BY <1>2, <1>3, <1>4
<1>. QED BY <1>1, <1>3, <1>4, <1>5

LEMMA RowType ==
    ASSUME NEW kind \in {"invoice", "sale", "receipt"},
           NEW status \in {"draft", "completed", "received"},
           NEW subtotal \in Int, NEW tax \in Int, NEW cogs \in Int
    PROVE  /\ Computed(kind, status, subtotal, tax, cogs) \in Row
           /\ Saved(Computed(kind, status, subtotal, tax, cogs)) \in Row
<1> DEFINE row == Computed(kind, status, subtotal, tax, cogs)
<1>1. row \in Row
  BY DEF Computed, Row
<1>2. row.subtotal \in Int /\ row.tax \in Int /\ row.total \in Int
  BY DEF Computed
<1>3. ToCents(row.subtotal) \in Int /\ ToCents(row.tax) \in Int /\ ToCents(row.total) \in Int
  BY <1>2, ToCentsInt
<1> HIDE DEF row
<1>4. Saved(row) \in Row
  BY <1>1, <1>3 DEF Saved, Row
<1>. QED BY <1>1, <1>4 DEF row

\* The lines of a close add up what the request has read.
LEMMA ClosingLines ==
    ASSUME NEW seen \in [Accounts -> Int], NEW open \in SUBSET Accounts
    PROVE  /\ IntEntry(ClosingEntry(seen, open))
           /\ (\A a \in Accounts : InCents(seen[a])) => CentEntry(ClosingEntry(seen, open))
<1> DEFINE accounts == Unclosed(seen, open)
           net == 0 - SumFunctionOnSet(seen, accounts)
           owed == IF net < 0 THEN 0 - net ELSE 0
           gained == IF net > 0 THEN net ELSE 0
           debits == {<<a, 0 - seen[a]>> : a \in accounts \cap Income} \cup {<<"retained", owed>>}
           credits == {<<a, seen[a]>> : a \in accounts \cap Spending} \cup {<<"retained", gained>>}
<1>1. accounts \subseteq Accounts
  BY DEF Unclosed, Accounts
<1>2. IsFiniteSet(accounts)
  BY <1>1, AccountsFinite, FS_Subset
<1>3. SumFunctionOnSet(seen, accounts) \in Int
  BY <1>1, <1>2, SumInt
<1>4. owed \in Int /\ gained \in Int
  BY <1>3
<1>5. IntLines(debits) /\ IntLines(credits)
  <2>1. \A a \in accounts : seen[a] \in Int /\ 0 - seen[a] \in Int
    BY <1>1
  <2>2. \A l \in debits : l[2] = owed \/ \E a \in accounts : l[2] = 0 - seen[a]
    OBVIOUS
  <2>3. \A l \in credits : l[2] = gained \/ \E a \in accounts : l[2] = seen[a]
    OBVIOUS
  <2> HIDE DEF accounts, owed, gained, debits, credits
  <2>. QED BY <1>4, <2>1, <2>2, <2>3 DEF IntLines
<1>6. ASSUME \A a \in Accounts : InCents(seen[a])
      PROVE  CentLines(debits) /\ CentLines(credits)
  <2>1. InCents(SumFunctionOnSet(seen, accounts))
    BY <1>1, <1>2, <1>6, SumInCents
  <2>2. InCents(net) /\ InCents(0 - net)
    BY <2>1, CentsClosed
  <2>3. InCents(owed) /\ InCents(gained)
    BY <2>2, ZeroInCents
  <2>4. \A a \in accounts : InCents(seen[a]) /\ InCents(0 - seen[a])
    BY <1>1, <1>6, CentsClosed
  <2>5. \A l \in debits : l[2] = owed \/ \E a \in accounts : l[2] = 0 - seen[a]
    OBVIOUS
  <2>6. \A l \in credits : l[2] = gained \/ \E a \in accounts : l[2] = seen[a]
    OBVIOUS
  <2> HIDE DEF accounts, owed, gained, debits, credits
  <2>. QED BY <2>3, <2>4, <2>5, <2>6 DEF CentLines
<1>7. ClosingEntry(seen, open) = Entry(debits, credits)
  BY DEF ClosingEntry, ClosingEntryOf
<1> HIDE DEF debits, credits
<1>. QED BY <1>5, <1>6, <1>7 DEF IntEntry, CentEntry

ExpenseRows == [exists : BOOLEAN, amount : Amounts \cup {0}, booked : Int]

LEMMA BookStep ==
    ASSUME TypeOK, NEW e, IntEntry(e), Book(e),
           doc' \in [Documents -> Row], expense' \in [Expenses -> ExpenseRows],
           handler' \in [Requests -> Handlers]
    PROVE  TypeOK'
BY BookType DEF TypeOK, ExpenseRows

LEMMA StatusType ==
    ASSUME NEW row \in Row, NEW status \in {"confirmed", "paid", "refunded"}
    PROVE  [row EXCEPT !.status = status] \in Row
BY DEF Row

LEMMA RowFields ==
    ASSUME NEW row \in Row
    PROVE  row.subtotal \in Int /\ row.tax \in Int /\ row.total \in Int /\ row.cogs \in Int
BY DEF Row

LEMMA BusinessType == ASSUME TypeOK, NEW d \in Documents, Business(d) PROVE TypeOK'
<1>1. doc \in [Documents -> Row] /\ expense \in [Expenses -> ExpenseRows]
      /\ handler \in [Requests -> Handlers]
  BY DEF TypeOK, ExpenseRows
<1>2. Subtotals \subseteq Int /\ Taxes \subseteq Int /\ Costs \subseteq Int
  BY LedgerConstants
<1>3. doc[d] \in Row /\ doc[d].total \in Int
  BY <1>1, RowFields
<1>4. ASSUME NEW row \in Row, doc' = [doc EXCEPT ![d] = row]
      PROVE  doc' \in [Documents -> Row]
  BY <1>1, <1>4
<1>5. ASSUME NEW status \in {"confirmed", "paid", "refunded"},
             doc' = [doc EXCEPT ![d].status = status]
      PROVE  doc' \in [Documents -> Row]
  <2>1. [doc[d] EXCEPT !.status = status] \in Row
    BY <1>3, StatusType
  <2>. QED BY <1>1, <1>5, <2>1
<1>6. ASSUME NEW s \in Subtotals, NEW t \in Taxes, CreateInvoice(d, s, t) PROVE TypeOK'
  <2>1. Saved(Computed("invoice", "draft", s, t, 0)) \in Row
    BY <1>2, RowType
  <2>2. doc' \in [Documents -> Row]
    BY <1>4, <1>6, <2>1 DEF CreateInvoice
  <2>. QED BY <1>6, <2>2 DEF CreateInvoice, TypeOK
<1>7. ASSUME NEW s \in Subtotals, NEW t \in Taxes, ReceiveGoods(d, s, t) PROVE TypeOK'
  <2> DEFINE row == Computed("receipt", "received", s, t, 0)
  <2>1. row \in Row /\ Saved(row) \in Row
    BY <1>2, RowType
  <2>2. Book(ReceiptEntry(row)) /\ doc' = [doc EXCEPT ![d] = Saved(row)]
        /\ expense' = expense /\ handler' = handler
    BY <1>7 DEF ReceiveGoods
  <2> HIDE DEF row
  <2>3. IntEntry(ReceiptEntry(row))
    BY <2>1, RowFields, IntEntries, 0 \in Int
  <2>. QED BY <1>1, <1>4, <2>1, <2>2, <2>3, BookStep
<1>8. ASSUME NEW cogs \in Costs, ConfirmInvoice(d, cogs) PROVE TypeOK'
  <2>1. IntEntry(InvoiceEntry(doc[d], cogs))
    BY <1>2, <1>3, RowFields, IntEntries
  <2>2. doc' \in [Documents -> Row]
    BY <1>5, <1>8 DEF ConfirmInvoice
  <2>. QED BY <1>1, <1>8, <2>1, <2>2, BookStep DEF ConfirmInvoice
<1>9. ASSUME NEW s \in Subtotals, NEW t \in Taxes, NEW cogs \in Costs, RingUp(d, s, t, cogs)
      PROVE  TypeOK'
  <2> DEFINE row == Computed("sale", "completed", s, t, cogs)
  <2>1. row \in Row /\ Saved(row) \in Row
    BY <1>2, RowType
  <2>2. Book(SaleEntry(row)) /\ doc' = [doc EXCEPT ![d] = Saved(row)]
        /\ expense' = expense /\ handler' = handler
    BY <1>9 DEF RingUp
  <2> HIDE DEF row
  <2>3. IntEntry(SaleEntry(row))
    BY <2>1, RowFields, IntEntries, 0 \in Int
  <2>. QED BY <1>1, <1>4, <2>1, <2>2, <2>3, BookStep
<1>10. ASSUME Pay(d) PROVE TypeOK'
  <2>1. IntEntry(CollectionEntry(doc[d].total)) /\ IntEntry(SupplierEntry(doc[d].total))
    BY <1>3, RowFields, IntEntries
  <2>2. doc' \in [Documents -> Row]
    BY <1>5, <1>10 DEF Pay
  <2>. QED BY <1>1, <1>10, <2>1, <2>2, BookStep DEF Pay
<1>11. ASSUME RefundSale(d) PROVE TypeOK'
  <2>1. IntEntry(RefundEntry(doc[d]))
    BY <1>3, RowFields, IntEntries, 0 \in Int
  <2>2. doc' \in [Documents -> Row]
    BY <1>5, <1>11 DEF RefundSale
  <2>. QED BY <1>1, <1>11, <2>1, <2>2, BookStep DEF RefundSale
<1>. QED BY <1>6, <1>7, <1>8, <1>9, <1>10, <1>11 DEF Business

LEMMA HandlerTypes ==
    ASSUME TypeOK
    PROVE  /\ Idle \in Handlers
           /\ \A x \in Expenses : [op |-> "expense", row |-> x] \in Handlers
           /\ [op |-> "close", seen |-> ledger, open |-> active] \in Handlers
           /\ \A r \in Requests : handler[r].op = "expense" => handler[r].row \in Expenses
           /\ \A r \in Requests : handler[r].op = "close" =>
                 handler[r].seen \in [Accounts -> Int] /\ handler[r].open \in SUBSET Accounts
BY DEF TypeOK, Handlers, Idle, None

LEMMA ServeType == ASSUME TypeOK, NEW r \in Requests, Serve(r) PROVE TypeOK'
<1>1. doc \in [Documents -> Row] /\ expense \in [Expenses -> ExpenseRows]
      /\ handler \in [Requests -> Handlers]
  BY DEF TypeOK, ExpenseRows
<1>2. ASSUME NEW h \in Handlers, handler' = [handler EXCEPT ![r] = h]
      PROVE  handler' \in [Requests -> Handlers]
  BY <1>1, <1>2
<1>3. ASSUME NEW x \in Expenses, NEW amount \in Amounts, SaveExpense(r, x, amount) PROVE TypeOK'
  <2>1. [exists |-> TRUE, amount |-> amount, booked |-> 0] \in ExpenseRows
    BY DEF ExpenseRows
  <2>2. expense' \in [Expenses -> ExpenseRows]
    BY <1>1, <1>3, <2>1 DEF SaveExpense
  <2>3. handler' \in [Requests -> Handlers]
    BY <1>2, <1>3, HandlerTypes DEF SaveExpense
  <2>. QED BY <1>3, <2>2, <2>3 DEF SaveExpense, TypeOK, ExpenseRows
<1>4. ASSUME PostExpense(r) PROVE TypeOK'
  <2> DEFINE x == handler[r].row
  <2>1. x \in Expenses
    BY <1>4, HandlerTypes DEF PostExpense
  <2>2. expense[x] \in ExpenseRows
    BY <1>1, <2>1
  <2>3. expense[x].amount \in Int
    <3>1. \A row \in ExpenseRows : row.amount \in Amounts \cup {0}
      BY DEF ExpenseRows
    <3>2. \A amount \in Amounts \cup {0} : amount \in Int
      <4>1. \A amount \in Amounts : amount \in Nat
        BY LedgerConstants
      <4>. QED BY <4>1
    <3>. QED BY <2>2, <3>1, <3>2
  <2>4. Booked(expense[x]) \in ExpenseRows
    BY <2>2, <2>3 DEF Booked, ExpenseRows
  <2>5. expense' \in [Expenses -> ExpenseRows]
    BY <1>1, <1>4, <2>4 DEF PostExpense
  <2>6. handler' \in [Requests -> Handlers]
    BY <1>2, <1>4, HandlerTypes DEF PostExpense
  <2>7. IntEntry(ExpenseEntry(expense[x].amount))
    <3>1. ASSUME NEW n \in Int PROVE IntEntry(ExpenseEntry(n))
      BY IntEntries, RowFields, NoRow \in Row DEF NoRow, Row
    <3>. QED BY <2>3, <3>1
  <2>8. Book(ExpenseEntry(expense[x].amount)) /\ doc' = doc
    BY <1>4 DEF PostExpense
  <2>. QED BY <1>1, <2>5, <2>6, <2>7, <2>8, BookStep
<1>5. ASSUME DropExpense(r) \/ RefuseClose(r) PROVE TypeOK'
  <2>1. handler' \in [Requests -> Handlers]
    BY <1>2, <1>5, HandlerTypes DEF DropExpense, RefuseClose
  <2>. QED BY <1>5, <2>1 DEF DropExpense, RefuseClose, TypeOK
<1>6. ASSUME LoadClose(r) PROVE TypeOK'
  <2>1. handler' \in [Requests -> Handlers]
    BY <1>2, <1>6, HandlerTypes DEF LoadClose
  <2>. QED BY <1>6, <2>1 DEF LoadClose, TypeOK
<1>7. ASSUME PostClose(r) PROVE TypeOK'
  <2>1. handler' \in [Requests -> Handlers]
    BY <1>2, <1>7, HandlerTypes DEF PostClose
  <2>2. IntEntry(ClosingEntry(handler[r].seen, handler[r].open))
    BY <1>7, HandlerTypes, ClosingLines DEF PostClose
  <2>3. ledger' \in [Accounts -> Int]
    BY <1>7, <2>2, PostedType DEF PostClose, IntEntry, TypeOK
  <2>. QED BY <1>7, <2>1, <2>3 DEF PostClose, TypeOK
<1>. QED BY <1>3, <1>4, <1>5, <1>6, <1>7 DEF Serve

LEMMA EditType ==
    ASSUME TypeOK, NEW x \in Expenses, NEW amount \in Amounts,
           \/ EditExpense(x, [expense[x] EXCEPT !.amount = amount])
           \/ EditExpense(x, [expense[x] EXCEPT !.amount = 0, !.exists = FALSE])
    PROVE  TypeOK'
<1>1. expense \in [Expenses -> ExpenseRows]
  BY DEF TypeOK, ExpenseRows
<1>2. [expense[x] EXCEPT !.amount = amount] \in ExpenseRows
      /\ [expense[x] EXCEPT !.amount = 0, !.exists = FALSE] \in ExpenseRows
  BY <1>1 DEF ExpenseRows
<1>3. ASSUME NEW row \in ExpenseRows, EditExpense(x, row) PROVE TypeOK'
  <2>1. expense' \in [Expenses -> ExpenseRows]
    BY <1>1, <1>3 DEF EditExpense
  <2>. QED BY <1>3, <2>1 DEF EditExpense, TypeOK, ExpenseRows
<1>. QED BY <1>2, <1>3

LEMMA InitType == Init => TypeOK
BY DEF Init, TypeOK, NoRow, Row, NoExpense, Idle, Handlers, None

LEMMA StepType == TypeOK /\ [Next]_vars => TypeOK'
<1> SUFFICES ASSUME TypeOK, [Next]_vars PROVE TypeOK'
  OBVIOUS
<1>1. ASSUME NEW a \in Accounts, SwitchAccount(a) PROVE TypeOK'
  BY <1>1 DEF SwitchAccount, TypeOK
<1>2. CASE UNCHANGED vars
  BY <1>2 DEF vars, TypeOK
<1>. QED BY <1>1, <1>2, BusinessType, ServeType, EditType DEF Next

\* Type correctness of the ledger: whatever is booked, rounded, closed or edited,
\* every account, row and request keeps the shape its column or variable has.
THEOREM TypeCorrect == Spec => []TypeOK
BY InitType, StepType, PTL DEF Spec

----------------------------------------------------------------------------
(* The accounts balance as long as amounts are whole cents.                *)

WholeCents == \A x \in Subtotals \cup Taxes \cup Costs : x % Cent = 0

\* What makes LedgerBalances inductive: everything an entry can be built from,
\* rows and the sums a close has read, is in whole cents.
InWholeCents ==
    /\ \A a \in Accounts : InCents(ledger[a])
    /\ \A d \in Documents : RowInCents(doc[d])
    /\ \A r \in Requests : handler[r].op = "close" =>
          \A a \in Accounts : InCents(handler[r].seen[a])

IInv == TypeOK /\ LedgerBalances /\ InWholeCents

LEMMA CentAmounts ==
    ASSUME WholeCents
    PROVE  \A x \in Subtotals \cup Taxes \cup Costs : InCents(x)
BY LedgerConstants, DivisibleInCents DEF WholeCents

LEMMA ComputedInCents ==
    ASSUME NEW kind, NEW status, NEW s, InCents(s), NEW t, InCents(t), NEW cogs, InCents(cogs)
    PROVE  /\ RowInCents(Computed(kind, status, s, t, cogs))
           /\ RowInCents(Saved(Computed(kind, status, s, t, cogs)))
<1>1. InCents(s + t)
  BY CentsClosed
<1>2. ToCents(s) = s /\ ToCents(t) = t /\ ToCents(s + t) = s + t
  BY <1>1, CentsKept
<1>. QED BY <1>1, <1>2 DEF RowInCents, Computed, Saved

\* Posting an entry of whole cents that the check accepts keeps the balance.
LEMMA PostStep ==
    ASSUME IInv, NEW e, CentEntry(e), Postable(e), ledger' = Posted(e)
    PROVE  LedgerBalances' /\ \A a \in Accounts : InCents(ledger'[a])
<1>1. PICK debits, credits :
        e = Entry(debits, credits) /\ CentLines(debits) /\ CentLines(credits)
  BY DEF CentEntry
<1>2. ledger \in [Accounts -> Int] /\ \A a \in Accounts : InCents(ledger[a])
  BY DEF IInv, TypeOK, InWholeCents
<1>3. /\ \A a \in Accounts : InCents(Posted(e)[a])
      /\ Sum(Posted(e)) = Sum(ledger)
  BY <1>1, <1>2, PostedBalances
<1>. QED BY <1>3 DEF IInv, LedgerBalances

LEMMA BookKeepsBalance ==
    ASSUME IInv, NEW e, CentEntry(e), Book(e), UNCHANGED handler,
           \A d \in Documents : RowInCents(doc'[d])
    PROVE  LedgerBalances' /\ InWholeCents'
<1>1. Postable(e) /\ ledger' = Posted(e)
  BY DEF Book
<1>. QED BY <1>1, PostStep DEF IInv, InWholeCents

LEMMA BusinessBalances ==
    ASSUME WholeCents, IInv, NEW d \in Documents, Business(d)
    PROVE  LedgerBalances' /\ InWholeCents'
<1>1. doc \in [Documents -> Row] /\ \A x \in Documents : RowInCents(doc[x])
  BY DEF IInv, TypeOK, InWholeCents
<1>2. RowInCents(doc[d]) /\ InCents(doc[d].total)
  BY <1>1 DEF RowInCents
<1>3. ASSUME NEW row, RowInCents(row), doc' = [doc EXCEPT ![d] = row]
      PROVE  \A x \in Documents : RowInCents(doc'[x])
  BY <1>1, <1>3
<1>4. ASSUME NEW status, doc' = [doc EXCEPT ![d].status = status]
      PROVE  \A x \in Documents : RowInCents(doc'[x])
  <2>1. RowInCents([doc[d] EXCEPT !.status = status])
    BY <1>1, <1>2 DEF RowInCents, Row
  <2>. QED BY <1>1, <1>4, <2>1
<1>5. ASSUME NEW s \in Subtotals, NEW t \in Taxes, CreateInvoice(d, s, t)
      PROVE  LedgerBalances' /\ InWholeCents'
  <2>1. InCents(s) /\ InCents(t)
    BY CentAmounts
  <2>2. RowInCents(Saved(Computed("invoice", "draft", s, t, 0)))
    BY <2>1, ZeroInCents, ComputedInCents
  <2>3. \A x \in Documents : RowInCents(doc'[x])
    BY <1>3, <1>5, <2>2 DEF CreateInvoice
  <2>4. ledger' = ledger /\ handler' = handler
    BY <1>5 DEF CreateInvoice
  <2>. QED BY <2>3, <2>4 DEF IInv, LedgerBalances, InWholeCents
<1>6. ASSUME NEW s \in Subtotals, NEW t \in Taxes, ReceiveGoods(d, s, t)
      PROVE  LedgerBalances' /\ InWholeCents'
  <2> DEFINE row == Computed("receipt", "received", s, t, 0)
  <2>1. InCents(s) /\ InCents(t)
    BY CentAmounts
  <2>2. RowInCents(row) /\ RowInCents(Saved(row))
    BY <2>1, ZeroInCents, ComputedInCents
  <2>3. Book(ReceiptEntry(row)) /\ doc' = [doc EXCEPT ![d] = Saved(row)] /\ handler' = handler
    BY <1>6 DEF ReceiveGoods
  <2> HIDE DEF row
  <2>4. \A x \in Documents : RowInCents(doc'[x])
    BY <1>3, <2>2, <2>3
  <2>. QED BY <2>2, <2>3, <2>4, ZeroInCents, CentEntries, BookKeepsBalance
<1>7. ASSUME NEW cogs \in Costs, ConfirmInvoice(d, cogs)
      PROVE  LedgerBalances' /\ InWholeCents'
  <2>1. InCents(cogs)
    BY CentAmounts
  <2>2. CentEntry(InvoiceEntry(doc[d], cogs))
    BY <1>2, <2>1, CentEntries
  <2>3. \A x \in Documents : RowInCents(doc'[x])
    BY <1>4, <1>7 DEF ConfirmInvoice
  <2>. QED BY <1>7, <2>2, <2>3, BookKeepsBalance DEF ConfirmInvoice
<1>8. ASSUME NEW s \in Subtotals, NEW t \in Taxes, NEW cogs \in Costs, RingUp(d, s, t, cogs)
      PROVE  LedgerBalances' /\ InWholeCents'
  <2> DEFINE row == Computed("sale", "completed", s, t, cogs)
  <2>1. RowInCents(row) /\ RowInCents(Saved(row))
    BY CentAmounts, ComputedInCents
  <2>2. Book(SaleEntry(row)) /\ doc' = [doc EXCEPT ![d] = Saved(row)] /\ handler' = handler
    BY <1>8 DEF RingUp
  <2> HIDE DEF row
  <2>3. \A x \in Documents : RowInCents(doc'[x])
    BY <1>3, <2>1, <2>2
  <2>. QED BY <2>1, <2>2, <2>3, ZeroInCents, CentEntries, BookKeepsBalance
<1>9. ASSUME Pay(d) PROVE LedgerBalances' /\ InWholeCents'
  <2>1. CentEntry(CollectionEntry(doc[d].total)) /\ CentEntry(SupplierEntry(doc[d].total))
    BY <1>2, CentEntries
  <2>2. \A x \in Documents : RowInCents(doc'[x])
    BY <1>4, <1>9 DEF Pay
  <2>. QED BY <1>9, <2>1, <2>2, BookKeepsBalance DEF Pay
<1>10. ASSUME RefundSale(d) PROVE LedgerBalances' /\ InWholeCents'
  <2>1. CentEntry(RefundEntry(doc[d]))
    BY <1>2, ZeroInCents, CentEntries
  <2>2. \A x \in Documents : RowInCents(doc'[x])
    BY <1>4, <1>10 DEF RefundSale
  <2>. QED BY <1>10, <2>1, <2>2, BookKeepsBalance DEF RefundSale
<1>. QED BY <1>5, <1>6, <1>7, <1>8, <1>9, <1>10 DEF Business

LEMMA ServeBalances ==
    ASSUME IInv, NEW r \in Requests, Serve(r)
    PROVE  LedgerBalances' /\ InWholeCents'
<1>1. handler \in [Requests -> Handlers] /\ TypeOK /\ LedgerBalances /\ InWholeCents
  BY DEF IInv, TypeOK
<1>2. ASSUME NEW h, h.op = "close" => \A a \in Accounts : InCents(h.seen[a]),
             handler' = [handler EXCEPT ![r] = h]
      PROVE  \A q \in Requests : handler'[q].op = "close" =>
                 \A a \in Accounts : InCents(handler'[q].seen[a])
  BY <1>1, <1>2 DEF InWholeCents
<1>3. Idle.op # "close"
  BY DEF Idle, None
<1>4. ASSUME NEW x \in Expenses, NEW amount \in Amounts, SaveExpense(r, x, amount)
      PROVE  LedgerBalances' /\ InWholeCents'
  <2>1. \A q \in Requests : handler'[q].op = "close" =>
            \A a \in Accounts : InCents(handler'[q].seen[a])
    BY <1>2, <1>4 DEF SaveExpense
  <2>. QED BY <1>1, <1>4, <2>1 DEF SaveExpense, LedgerBalances, InWholeCents
<1>5. ASSUME PostExpense(r) PROVE LedgerBalances' /\ InWholeCents'
  <2> DEFINE amount == expense[handler[r].row].amount
  <2>1. amount \in Amounts \cup {0}
    <3>1. handler[r].row \in Expenses
      BY <1>1, <1>5, HandlerTypes DEF PostExpense
    <3>2. expense \in [Expenses -> ExpenseRows]
      BY <1>1 DEF TypeOK, ExpenseRows
    <3>3. \A row \in ExpenseRows : row.amount \in Amounts \cup {0}
      BY DEF ExpenseRows
    <3>. QED BY <3>1, <3>2, <3>3
  <2>2. InCents(amount)
    BY <2>1, ZeroInCents, LedgerConstants, DivisibleInCents
  <2>3. Book(ExpenseEntry(amount)) /\ doc' = doc
    BY <1>5 DEF PostExpense
  <2> HIDE DEF amount
  <2>4. CentEntry(ExpenseEntry(amount))
    <3>1. RowInCents(NoRow)
      BY ZeroInCents DEF RowInCents, NoRow
    <3>. QED BY <2>2, <3>1, CentEntries
  <2>5. LedgerBalances' /\ \A a \in Accounts : InCents(ledger'[a])
    BY <2>3, <2>4, PostStep DEF Book
  <2>6. \A q \in Requests : handler'[q].op = "close" =>
            \A a \in Accounts : InCents(handler'[q].seen[a])
    BY <1>2, <1>3, <1>5 DEF PostExpense
  <2>. QED BY <1>1, <2>3, <2>5, <2>6 DEF InWholeCents
<1>6. ASSUME DropExpense(r) \/ RefuseClose(r) PROVE LedgerBalances' /\ InWholeCents'
  <2>1. \A q \in Requests : handler'[q].op = "close" =>
            \A a \in Accounts : InCents(handler'[q].seen[a])
    BY <1>2, <1>3, <1>6 DEF DropExpense, RefuseClose
  <2>. QED BY <1>1, <1>6, <2>1 DEF DropExpense, RefuseClose, LedgerBalances, InWholeCents
<1>7. ASSUME LoadClose(r) PROVE LedgerBalances' /\ InWholeCents'
  <2>1. \A a \in Accounts : InCents(ledger[a])
    BY <1>1 DEF InWholeCents
  <2>2. \A q \in Requests : handler'[q].op = "close" =>
            \A a \in Accounts : InCents(handler'[q].seen[a])
    BY <1>2, <1>7, <2>1 DEF LoadClose
  <2>. QED BY <1>1, <1>7, <2>2 DEF LoadClose, LedgerBalances, InWholeCents
<1>8. ASSUME PostClose(r) PROVE LedgerBalances' /\ InWholeCents'
  <2> DEFINE e == ClosingEntry(handler[r].seen, handler[r].open)
  <2>1. /\ handler[r].seen \in [Accounts -> Int] /\ handler[r].open \in SUBSET Accounts
        /\ \A a \in Accounts : InCents(handler[r].seen[a])
    BY <1>1, <1>8, HandlerTypes DEF PostClose, InWholeCents
  <2>2. CentEntry(e)
    BY <2>1, ClosingLines
  <2>3. Postable(e) /\ ledger' = Posted(e) /\ doc' = doc
    BY <1>8 DEF PostClose
  <2> HIDE DEF e
  <2>4. LedgerBalances' /\ \A a \in Accounts : InCents(ledger'[a])
    BY <2>2, <2>3, PostStep
  <2>5. \A q \in Requests : handler'[q].op = "close" =>
            \A a \in Accounts : InCents(handler'[q].seen[a])
    BY <1>2, <1>3, <1>8 DEF PostClose
  <2>. QED BY <1>1, <2>3, <2>4, <2>5 DEF InWholeCents
<1>. QED BY <1>4, <1>5, <1>6, <1>7, <1>8 DEF Serve

\* "An unbalanced entry simply can't be persisted" holds when every amount that
\* reaches an entry is a whole number of cents, whatever else goes wrong: lost
\* and edited expenses, two closes at once, accounts switched off.
THEOREM LedgerStaysBalanced == WholeCents => (Spec => []LedgerBalances)
<1> SUFFICES ASSUME WholeCents PROVE Spec => []LedgerBalances
  OBVIOUS
<1>1. Init => IInv
  <2>1. SUFFICES ASSUME Init PROVE IInv
    OBVIOUS
  <2>2. TypeOK
    BY <2>1 DEF Init, TypeOK, NoRow, Row, NoExpense, Idle, Handlers, None
  <2>3. \A a \in Accounts : ledger[a] = 0
    BY <2>1 DEF Init
  <2>4. Sum(ledger) = 0
    <3>1. Sum(ledger) \in Int
      BY <2>3, AccountsFinite, SumInt DEF Sum
    <3>2. Sum(ledger) = Sum(ledger) - Sum(ledger)
      <4>1. \A a \in Accounts : ledger[a] \in Int /\ ledger[a] = ledger[a] - ledger[a]
        BY <2>3
      <4>. QED BY <4>1, AccountsFinite, SumMinus DEF Sum
    <3>. QED BY <3>1, <3>2
  <2>5. RowInCents(NoRow)
    BY ZeroInCents DEF RowInCents, NoRow
  <2>6. InWholeCents
    BY <2>1, <2>3, <2>5, ZeroInCents DEF Init, InWholeCents, Idle, None
  <2>. QED BY <2>2, <2>4, <2>6 DEF IInv, LedgerBalances
<1>2. IInv /\ [Next]_vars => IInv'
  <2>1. SUFFICES ASSUME IInv, [Next]_vars PROVE IInv'
    OBVIOUS
  <2>2. TypeOK'
    <3>1. ASSUME NEW a \in Accounts, SwitchAccount(a) PROVE TypeOK'
      BY <2>1, <3>1 DEF SwitchAccount, TypeOK, IInv
    <3>2. CASE UNCHANGED vars
      BY <2>1, <3>2 DEF vars, TypeOK, IInv
    <3>. QED BY <2>1, <3>1, <3>2, BusinessType, ServeType, EditType DEF Next, IInv
  <2>3. ASSUME ledger' = ledger, doc' = doc, handler' = handler
        PROVE  LedgerBalances' /\ InWholeCents'
    BY <2>1, <2>3 DEF IInv, LedgerBalances, InWholeCents
  <2>4. ASSUME NEW a \in Accounts, SwitchAccount(a) PROVE LedgerBalances' /\ InWholeCents'
    BY <2>3, <2>4 DEF SwitchAccount
  <2>5. ASSUME NEW x \in Expenses, NEW row, EditExpense(x, row)
        PROVE  LedgerBalances' /\ InWholeCents'
    BY <2>3, <2>5 DEF EditExpense
  <2>6. ASSUME UNCHANGED vars PROVE LedgerBalances' /\ InWholeCents'
    BY <2>3, <2>6 DEF vars
  <2>7. ASSUME NEW d \in Documents, Business(d) PROVE LedgerBalances' /\ InWholeCents'
    BY <2>1, <2>7, BusinessBalances
  <2>8. ASSUME NEW r \in Requests, Serve(r) PROVE LedgerBalances' /\ InWholeCents'
    BY <2>1, <2>8, ServeBalances
  <2>9. LedgerBalances' /\ InWholeCents'
    BY <2>1, <2>4, <2>5, <2>6, <2>7, <2>8 DEF Next
  <2>. QED BY <2>2, <2>9 DEF IInv
<1>3. IInv => LedgerBalances
  BY DEF IInv
<1>. QED BY <1>1, <1>2, <1>3, PTL DEF Spec

----------------------------------------------------------------------------
(* The reports.                                                            *)

\* What a report shows of a group of accounts is the sum of their debits minus
\* credits, or its negation where credits are what increases them.
LEMMA TotalIsSum ==
    ASSUME NEW net \in [Accounts -> Int], NEW T \in SUBSET Accounts
    PROVE  /\ T \subseteq Assets \cup Spending =>
                  Reports!Total(net, Accounts, T) = SumFunctionOnSet(net, T)
           /\ T \cap (Assets \cup Spending) = {} =>
                  Reports!Total(net, Accounts, T) = 0 - SumFunctionOnSet(net, T)
<1> DEFINE shown == [a \in T |-> Reports!Balance(net, a)]
<1>1. IsFiniteSet(T)
  BY AccountsFinite, FS_Subset
<1>2. Accounts \cap T = T
  OBVIOUS
<1>3. Reports!Total(net, Accounts, T) = SumFunctionOnSet(shown, T)
  <2>1. Reports!Total(net, Accounts, T) = Reports!SumFunctionOnSet(shown, T)
    BY <1>2 DEF Reports!Total, Reports!AccountBalances
  <2>2. Reports!SumFunctionOnSet(shown, T) = SumFunctionOnSet(shown, T)
    BY DEF Reports!SumFunctionOnSet, Reports!FoldFunctionOnSet, Reports!MapThenFoldSet,
           SumFunctionOnSet, FoldFunctionOnSet, MapThenFoldSet
  <2>. QED BY <2>1, <2>2
<1>4. \A a \in T : net[a] \in Int
  OBVIOUS
<1>5. ASSUME T \subseteq Assets \cup Spending PROVE \A a \in T : shown[a] = net[a]
  BY <1>5 DEF Reports!Balance, Reports!DebitNormal
<1>6. ASSUME T \cap (Assets \cup Spending) = {} PROVE \A a \in T : shown[a] = 0 - net[a]
  BY <1>6 DEF Reports!Balance, Reports!DebitNormal
<1> HIDE DEF shown
<1>7. T \subseteq Assets \cup Spending => SumFunctionOnSet(shown, T) = SumFunctionOnSet(net, T)
  BY <1>1, <1>5, SumEqual
<1>8. T \cap (Assets \cup Spending) = {} =>
          SumFunctionOnSet(shown, T) = 0 - SumFunctionOnSet(net, T)
  BY <1>1, <1>4, <1>6, SumNegate
<1>. QED BY <1>3, <1>7, <1>8

\* Every account is of one type, so the five groups together are the ledger.
LEMMA SumByType ==
    ASSUME NEW net \in [Accounts -> Int]
    PROVE  SumFunctionOnSet(net, Accounts) =
               SumFunctionOnSet(net, Assets) + SumFunctionOnSet(net, Liabilities)
                 + SumFunctionOnSet(net, Equity) + SumFunctionOnSet(net, Income)
                 + SumFunctionOnSet(net, Spending)
<1> DEFINE two == Assets \cup Liabilities
           three == two \cup Equity
           four == three \cup Income
<1>1. \A a \in Accounts : net[a] \in Int
  OBVIOUS
<1>2. /\ Assets \in SUBSET Accounts /\ Liabilities \in SUBSET Accounts
      /\ Equity \in SUBSET Accounts /\ Income \in SUBSET Accounts
      /\ Spending \in SUBSET Accounts
      /\ two \in SUBSET Accounts /\ three \in SUBSET Accounts /\ four \in SUBSET Accounts
      /\ Accounts = four \cup Spending
  BY DEF Accounts
<1>3. /\ Assets \cap Liabilities = {} /\ two \cap Equity = {}
      /\ three \cap Income = {} /\ four \cap Spending = {}
  BY DEF Assets, Liabilities, Equity, Income, Spending
<1>4. SumFunctionOnSet(net, two) = SumFunctionOnSet(net, Assets) + SumFunctionOnSet(net, Liabilities)
  BY <1>1, <1>2, <1>3, AccountsFinite, SumUnion
<1>5. SumFunctionOnSet(net, three) = SumFunctionOnSet(net, two) + SumFunctionOnSet(net, Equity)
  <2> HIDE DEF two
  <2>. QED BY <1>1, <1>2, <1>3, AccountsFinite, SumUnion
<1>6. SumFunctionOnSet(net, four) = SumFunctionOnSet(net, three) + SumFunctionOnSet(net, Income)
  <2> HIDE DEF three
  <2>. QED BY <1>1, <1>2, <1>3, AccountsFinite, SumUnion
<1> HIDE DEF four
<1>7. SumFunctionOnSet(net, four \cup Spending)
          = SumFunctionOnSet(net, four) + SumFunctionOnSet(net, Spending)
  BY <1>1, <1>2, <1>3, AccountsFinite, SumUnion
<1>. QED BY <1>2, <1>4, <1>5, <1>6, <1>7

\* The balance sheet and the profit and loss report explain each other whenever
\* the ledger balances: with amounts in whole cents, always.
THEOREM ReportsAlwaysReconcile == WholeCents => (Spec => []ReportsReconcile)
<1> SUFFICES ASSUME WholeCents PROVE Spec => []ReportsReconcile
  OBVIOUS
<1>1. TypeOK /\ LedgerBalances => ReportsReconcile
  <2> SUFFICES ASSUME TypeOK, LedgerBalances, active = Accounts PROVE ReportsReconcile
    BY DEF ReportsReconcile
  <2>1. ledger \in [Accounts -> Int]
    BY DEF TypeOK
  <2>2. SumFunctionOnSet(ledger, Accounts) = 0
    BY DEF LedgerBalances, Sum
  <2>3. /\ Reports!Total(ledger, Accounts, Assets) = SumFunctionOnSet(ledger, Assets)
        /\ Reports!Total(ledger, Accounts, Spending) = SumFunctionOnSet(ledger, Spending)
    <3>1. Assets \in SUBSET Accounts /\ Spending \in SUBSET Accounts
      BY DEF Accounts
    <3>. QED BY <2>1, <3>1, TotalIsSum
  <2>4. /\ Reports!Total(ledger, Accounts, Liabilities) = 0 - SumFunctionOnSet(ledger, Liabilities)
        /\ Reports!Total(ledger, Accounts, Equity) = 0 - SumFunctionOnSet(ledger, Equity)
        /\ Reports!Total(ledger, Accounts, Income) = 0 - SumFunctionOnSet(ledger, Income)
    <3>1. /\ Liabilities \in SUBSET Accounts /\ Equity \in SUBSET Accounts
          /\ Income \in SUBSET Accounts
      BY DEF Accounts
    <3>2. /\ Liabilities \cap (Assets \cup Spending) = {}
          /\ Equity \cap (Assets \cup Spending) = {}
          /\ Income \cap (Assets \cup Spending) = {}
      BY DEF Assets, Liabilities, Equity, Income, Spending
    <3>. QED BY <2>1, <3>1, <3>2, TotalIsSum
  <2>5. /\ SumFunctionOnSet(ledger, Assets) \in Int /\ SumFunctionOnSet(ledger, Liabilities) \in Int
        /\ SumFunctionOnSet(ledger, Equity) \in Int /\ SumFunctionOnSet(ledger, Income) \in Int
        /\ SumFunctionOnSet(ledger, Spending) \in Int
    <3>1. ASSUME NEW T \in SUBSET Accounts PROVE SumFunctionOnSet(ledger, T) \in Int
      BY <2>1, AccountsFinite, FS_Subset, SumInt
    <3>. QED BY <3>1 DEF Accounts
  <2>. QED BY <2>1, <2>2, <2>3, <2>4, <2>5, SumByType
         DEF ReportsReconcile, Reports!BalanceSheet, Reports!ProfitAndLoss
<1>2. Spec => []TypeOK
  BY TypeCorrect
<1>3. Spec => []LedgerBalances
  BY LedgerStaysBalanced
<1>. QED BY <1>1, <1>2, <1>3, PTL

----------------------------------------------------------------------------
(* What a close retains.  Whatever is posted is rounded to cents first, so *)
(* the accounts are in cents even if the documents are not, and the lines  *)
(* of a close are stored exactly as they were built.                       *)

LEMMA RoundedIsCents == ASSUME NEW x \in Int PROVE InCents(ToCents(x))
<1>1. Cent \in Nat /\ Cent > 0
  BY LedgerConstants
<1>2. (2 * x + Cent) \div (2 * Cent) \in Int
  BY <1>1
<1>. QED BY <1>2 DEF ToCents, InCents

\* The amount of an account's line, and of an account without one.
LEMMA SideOf ==
    ASSUME NEW lines, NEW l \in lines, l[1] \in Accounts, \A k \in lines : k[1] = l[1] => k = l
    PROVE  Side(lines)[l[1]] = l[2]
<1>1. (CHOOSE k \in lines : k[1] = l[1]) = l
  OBVIOUS
<1>. QED BY <1>1 DEF Side

LEMMA SideWithout ==
    ASSUME NEW lines, NEW a \in Accounts, \A l \in lines : l[1] # a
    PROVE  Side(lines)[a] = 0
BY DEF Side

LEMMA PostedInCents ==
    ASSUME ledger \in [Accounts -> Int], \A a \in Accounts : InCents(ledger[a]),
           NEW e, IntEntry(e), NEW a \in Accounts
    PROVE  InCents(Posted(e)[a])
<1>1. PICK debits, credits : e = Entry(debits, credits) /\ IntLines(debits) /\ IntLines(credits)
  BY DEF IntEntry
<1>2. e.debit[a] \in Int /\ e.credit[a] \in Int
  BY <1>1, SideType DEF Entry
<1>3. InCents(ToCents(e.debit[a])) /\ InCents(ToCents(e.credit[a])) /\ InCents(ledger[a])
  BY <1>2, RoundedIsCents
<1>4. InCents(ledger[a] + ToCents(e.debit[a]))
  BY <1>3, CentsClosed
<1>. QED BY <1>3, <1>4, CentsClosed DEF Posted

\* No business entry has a line on retained earnings.
Apart(e) == e.debit["retained"] = 0 /\ e.credit["retained"] = 0

LEMMA BusinessApart ==
    ASSUME NEW row, NEW n
    PROVE  /\ Apart(InvoiceEntry(row, n)) /\ Apart(SaleEntry(row)) /\ Apart(RefundEntry(row))
           /\ Apart(ReceiptEntry(row)) /\ Apart(CollectionEntry(n)) /\ Apart(SupplierEntry(n))
           /\ Apart(ExpenseEntry(n))
<1>1. "retained" \in Accounts
  BY DEF Accounts, Equity
<1>2. ASSUME NEW debits, NEW credits, \A l \in debits \cup credits : l[1] # "retained"
      PROVE  Apart(Entry(debits, credits))
  BY <1>1, <1>2, SideWithout DEF Apart, Entry
<1>3. Apart(InvoiceEntry(row, n))
  <2>1. \A l \in {<<"receivable", row.total>>, <<"cogs", n>>}
                 \cup {<<"revenue", row.subtotal>>, <<"vatPayable", row.tax>>, <<"inventory", n>>} :
             l[1] # "retained"
    OBVIOUS
  <2>. QED BY <1>2, <2>1 DEF InvoiceEntry
<1>4. Apart(SaleEntry(row)) /\ Apart(RefundEntry(row))
  <2>1. \A l \in {<<"cash", row.total>>, <<"cogs", row.cogs>>}
                 \cup {<<"revenue", row.subtotal>>, <<"vatPayable", row.tax>>,
                       <<"inventory", row.cogs>>} :
             l[1] # "retained"
    OBVIOUS
  <2>. QED BY <1>2, <2>1 DEF SaleEntry, RefundEntry
<1>5. Apart(ReceiptEntry(row))
  <2>1. \A l \in {<<"inventory", row.subtotal>>, <<"vatReceivable", row.tax>>}
                 \cup {<<"payable", row.subtotal + row.tax>>} :
             l[1] # "retained"
    OBVIOUS
  <2>. QED BY <1>2, <2>1 DEF ReceiptEntry
<1>6. Apart(CollectionEntry(n)) /\ Apart(SupplierEntry(n)) /\ Apart(ExpenseEntry(n))
  <2>1. \A l \in {<<"cash", n>>, <<"receivable", n>>, <<"payable", n>>, <<"expenses", n>>} :
             l[1] # "retained"
    OBVIOUS
  <2>. QED BY <1>2, <2>1 DEF CollectionEntry, SupplierEntry, ExpenseEntry
<1>. QED BY <1>3, <1>4, <1>5, <1>6

\* The lines of a close take the seen income and costs off their accounts and add
\* what is left to retained earnings.
LEMMA ClosingExact ==
    ASSUME ledger \in [Accounts -> Int], NEW seen \in [Accounts -> Int],
           \A a \in Accounts : InCents(seen[a])
    PROVE  LET new == Posted(ClosingEntry(seen, Accounts))
           IN  /\ NetIncome(new) = NetIncome(ledger) - NetIncome(seen)
               /\ new["retained"] = ledger["retained"] - NetIncome(seen)
<1> DEFINE accounts == Unclosed(seen, Accounts)
           net == 0 - SumFunctionOnSet(seen, accounts)
           owed == IF net < 0 THEN 0 - net ELSE 0
           gained == IF net > 0 THEN net ELSE 0
           debits == {<<a, 0 - seen[a]>> : a \in accounts \cap Income} \cup {<<"retained", owed>>}
           credits == {<<a, seen[a]>> : a \in accounts \cap Spending} \cup {<<"retained", gained>>}
           d == Side(debits)
           c == Side(credits)
           new == Posted(ClosingEntry(seen, Accounts))
<1>1. {"revenue", "cogs", "expenses", "retained"} \subseteq Accounts
  BY DEF Accounts, Income, Spending, Equity
<1>2. /\ seen["revenue"] \in Int /\ seen["cogs"] \in Int /\ seen["expenses"] \in Int
      /\ ledger["revenue"] \in Int /\ ledger["cogs"] \in Int /\ ledger["expenses"] \in Int
      /\ ledger["retained"] \in Int
  BY <1>1
<1>3. net = NetIncome(seen)
  <2> DEFINE S == {"revenue", "cogs", "expenses"}
  <2>1. accounts \in SUBSET S /\ \A x \in S \ accounts : seen[x] = 0
    BY DEF Unclosed, Income, Spending, Accounts
  <2>2. IsFiniteSet(S) /\ \A x \in accounts : seen[x] \in Int
    BY <1>1, <1>2, <2>1, AccountsFinite, FS_Subset
  <2>3. SumFunctionOnSet(seen, S) = seen["revenue"] + seen["cogs"] + seen["expenses"]
    <3>1. S = {"revenue", "cogs", "expenses"}
      OBVIOUS
    <3> HIDE DEF S
    <3>. QED BY <1>2, <3>1, SumTriple
  <2> HIDE DEF S, accounts
  <2>4. SumFunctionOnSet(seen, S) = SumFunctionOnSet(seen, accounts)
    BY <2>1, <2>2, SumSupport
  <2>. QED BY <2>3, <2>4 DEF NetIncome
<1>4. net \in Int
  BY <1>2, <1>3 DEF NetIncome
<1>5. /\ d["retained"] = owed /\ c["retained"] = gained
  <2>1. \A a \in accounts : a # "retained"
    BY DEF Unclosed, Income, Spending
  <2>2. \A k \in debits : k[1] = "retained" => k = <<"retained", owed>>
    BY <2>1
  <2>3. \A k \in credits : k[1] = "retained" => k = <<"retained", gained>>
    BY <2>1
  <2>4. <<"retained", owed>> \in debits /\ <<"retained", gained>> \in credits
    OBVIOUS
  <2> HIDE DEF debits, credits, owed, gained
  <2>5. d[<<"retained", owed>>[1]] = owed
    BY <1>1, <2>2, <2>4, SideOf
  <2>6. c[<<"retained", gained>>[1]] = gained
    BY <1>1, <2>3, <2>4, SideOf
  <2>. QED BY <2>5, <2>6
<1>6. d["revenue"] = 0 - seen["revenue"] /\ c["revenue"] = 0
  <2>1. \A k \in credits : k[1] # "revenue"
    BY DEF Spending
  <2>2. \A k \in debits : k[1] = "revenue" => k = <<"revenue", 0 - seen["revenue"]>>
    OBVIOUS
  <2>3. seen["revenue"] # 0 => <<"revenue", 0 - seen["revenue"]>> \in debits
    BY <1>1 DEF Unclosed, Income
  <2>4. seen["revenue"] = 0 => \A k \in debits : k[1] # "revenue"
    BY DEF Unclosed
  <2> HIDE DEF debits, credits
  <2>5. c["revenue"] = 0
    BY <1>1, <2>1, SideWithout
  <2>6. CASE seen["revenue"] # 0
    <3>1. d[<<"revenue", 0 - seen["revenue"]>>[1]] = 0 - seen["revenue"]
      BY <1>1, <2>2, <2>3, <2>6, SideOf
    <3>. QED BY <2>5, <3>1
  <2>7. CASE seen["revenue"] = 0
    <3>1. d["revenue"] = 0
      BY <1>1, <2>4, <2>7, SideWithout
    <3>. QED BY <2>5, <2>7, <3>1
  <2>. QED BY <2>6, <2>7
<1>7. ASSUME NEW a \in Spending PROVE d[a] = 0 /\ c[a] = seen[a]
  <2>0. a \in Accounts /\ a # "retained"
    BY DEF Accounts, Spending
  <2>1. \A k \in debits : k[1] # a
    BY <2>0 DEF Income, Spending
  <2>2. \A k \in credits : k[1] = a => k = <<a, seen[a]>>
    BY <2>0
  <2>3. seen[a] # 0 => <<a, seen[a]>> \in credits
    BY <2>0 DEF Unclosed
  <2>4. seen[a] = 0 => \A k \in credits : k[1] # a
    BY <2>0 DEF Unclosed
  <2> HIDE DEF debits, credits
  <2>5. d[a] = 0
    BY <2>0, <2>1, SideWithout
  <2>6. CASE seen[a] # 0
    <3>1. c[<<a, seen[a]>>[1]] = seen[a]
      BY <2>0, <2>2, <2>3, <2>6, SideOf
    <3>. QED BY <2>5, <3>1
  <2>7. CASE seen[a] = 0
    BY <2>0, <2>4, <2>5, <2>7, SideWithout
  <2>. QED BY <2>6, <2>7
<1>8. \A a \in Accounts : new[a] = ledger[a] + ToCents(d[a]) - ToCents(c[a])
  BY DEF Posted, ClosingEntry, ClosingEntryOf, Entry
<1> HIDE DEF d, c, new, owed, gained, net
<1>9. ToCents(0) = 0
  BY ZeroInCents, CentsKept
<1>10. new["revenue"] = ledger["revenue"] - seen["revenue"]
  <2>1. InCents(0 - seen["revenue"])
    BY <1>1, CentsClosed, ZeroInCents
  <2>2. ToCents(0 - seen["revenue"]) = 0 - seen["revenue"]
    BY <2>1, CentsKept
  <2>. QED BY <1>1, <1>2, <1>6, <1>8, <1>9, <2>2
<1>11. ASSUME NEW a \in Spending PROVE new[a] = ledger[a] - seen[a]
  <2>1. a \in Accounts
    BY DEF Accounts
  <2>2. ToCents(seen[a]) = seen[a]
    BY <2>1, CentsKept
  <2>. QED BY <1>7, <1>8, <1>9, <2>1, <2>2
<1>12. new["retained"] = ledger["retained"] - net
  <2>1. InCents(net) /\ InCents(0 - net)
    <3>1. InCents(seen["revenue"] + seen["cogs"])
      BY <1>1, CentsClosed
    <3>2. InCents(seen["revenue"] + seen["cogs"] + seen["expenses"])
      BY <1>1, <3>1, CentsClosed
    <3>3. InCents(0 - (seen["revenue"] + seen["cogs"] + seen["expenses"]))
      BY <3>2, CentsClosed
    <3>4. InCents(net)
      BY <1>3, <3>3 DEF NetIncome
    <3>. QED BY <3>4, CentsClosed
  <2>2. ToCents(owed) = owed /\ ToCents(gained) = gained
    BY <2>1, CentsKept, ZeroInCents DEF owed, gained
  <2>3. owed - gained = 0 - net /\ owed \in Int /\ gained \in Int
    BY <1>4 DEF owed, gained
  <2>. QED BY <1>1, <1>2, <1>4, <1>5, <1>8, <2>2, <2>3
<1>13. new["cogs"] = ledger["cogs"] - seen["cogs"]
       /\ new["expenses"] = ledger["expenses"] - seen["expenses"]
  BY <1>11 DEF Spending
<1>14. NetIncome(new) = NetIncome(ledger) - NetIncome(seen)
  BY <1>2, <1>10, <1>13 DEF NetIncome
<1>. QED BY <1>3, <1>12, <1>14 DEF new

\* A business event leaves the books alone, or books one entry apart from retained
\* earnings.
Books(e) == IntEntry(e) /\ Apart(e) /\ Book(e)
BooksAside == UNCHANGED <<ledger, active, earned, earnedAt>>

LEMMA BusinessBooks ==
    ASSUME TypeOK, NEW d \in Documents, Business(d)
    PROVE  handler' = handler /\ (BooksAside \/ \E e : Books(e))
<1>1. doc[d] \in Row /\ Subtotals \subseteq Int /\ Taxes \subseteq Int /\ Costs \subseteq Int
  BY LedgerConstants DEF TypeOK
<1>2. ASSUME NEW row \in Row, NEW n \in Int
      PROVE  /\ IntEntry(InvoiceEntry(row, n)) /\ IntEntry(SaleEntry(row))
             /\ IntEntry(RefundEntry(row)) /\ IntEntry(ReceiptEntry(row))
             /\ IntEntry(CollectionEntry(n)) /\ IntEntry(SupplierEntry(n))
  BY RowFields, IntEntries
<1>3. ASSUME NEW s \in Subtotals, NEW t \in Taxes, CreateInvoice(d, s, t)
      PROVE  handler' = handler /\ BooksAside
  BY <1>3 DEF CreateInvoice, BooksAside
<1>4. ASSUME NEW s \in Subtotals, NEW t \in Taxes, ReceiveGoods(d, s, t)
      PROVE  handler' = handler /\ \E e : Books(e)
  <2> DEFINE row == Computed("receipt", "received", s, t, 0)
  <2>1. row \in Row
    BY <1>1, RowType
  <2>2. Book(ReceiptEntry(row)) /\ handler' = handler
    BY <1>4 DEF ReceiveGoods
  <2> HIDE DEF row
  <2>3. IntEntry(ReceiptEntry(row))
    BY <1>2, <2>1, 0 \in Int
  <2>. QED BY <2>2, <2>3, BusinessApart DEF Books
<1>5. ASSUME NEW cogs \in Costs, ConfirmInvoice(d, cogs)
      PROVE  handler' = handler /\ \E e : Books(e)
  <2>1. IntEntry(InvoiceEntry(doc[d], cogs)) /\ Apart(InvoiceEntry(doc[d], cogs))
    BY <1>1, <1>2, BusinessApart
  <2>. QED BY <1>5, <2>1 DEF ConfirmInvoice, Books
<1>6. ASSUME NEW s \in Subtotals, NEW t \in Taxes, NEW cogs \in Costs, RingUp(d, s, t, cogs)
      PROVE  handler' = handler /\ \E e : Books(e)
  <2> DEFINE row == Computed("sale", "completed", s, t, cogs)
  <2>1. row \in Row
    BY <1>1, RowType
  <2>2. Book(SaleEntry(row)) /\ handler' = handler
    BY <1>6 DEF RingUp
  <2> HIDE DEF row
  <2>3. IntEntry(SaleEntry(row))
    BY <1>2, <2>1, 0 \in Int
  <2>. QED BY <2>2, <2>3, BusinessApart DEF Books
<1>7. ASSUME Pay(d) PROVE handler' = handler /\ \E e : Books(e)
  <2> DEFINE n == doc[d].total
  <2>1. n \in Int
    BY <1>1, RowFields
  <2>2. handler' = handler /\ (Book(CollectionEntry(n)) \/ Book(SupplierEntry(n)))
    BY <1>7 DEF Pay
  <2> HIDE DEF n
  <2>3. /\ IntEntry(CollectionEntry(n)) /\ Apart(CollectionEntry(n))
        /\ IntEntry(SupplierEntry(n)) /\ Apart(SupplierEntry(n))
    BY <1>1, <1>2, <2>1, BusinessApart
  <2>. QED BY <2>2, <2>3 DEF Books
<1>8. ASSUME RefundSale(d) PROVE handler' = handler /\ \E e : Books(e)
  <2>1. IntEntry(RefundEntry(doc[d])) /\ Apart(RefundEntry(doc[d]))
    BY <1>1, <1>2, 0 \in Int, BusinessApart
  <2>. QED BY <1>8, <2>1 DEF RefundSale, Books
<1>. QED BY <1>3, <1>4, <1>5, <1>6, <1>7, <1>8 DEF Business

\* What a closing request h has read: no other close has come in between, and what
\* it will retain is what had been earned when it read.
Retaining(h, l, at) ==
    h.op = "close" =>
        /\ h.open = Accounts /\ h.seen["retained"] = l["retained"]
        /\ \A a \in Accounts : InCents(h.seen[a])
        /\ NetIncome(h.seen) - h.seen["retained"] \in at

Alone == \A r, s \in Requests : r # s => (handler[r] = Idle \/ handler[s] = Idle)
CalmFacts ==
    /\ active = Accounts /\ Alone
    /\ earned = NetIncome(ledger) - ledger["retained"]
    /\ 0 - ledger["retained"] \in earnedAt
    /\ \A r \in Requests : Retaining(handler[r], ledger, earnedAt)

AccountsInCents == \A a \in Accounts : InCents(ledger[a])
CalmInv == TypeOK /\ AccountsInCents /\ earned \in earnedAt /\ (calm => CalmFacts)

LEMMA BooksKeep ==
    ASSUME TypeOK, AccountsInCents, NEW e, Books(e)
    PROVE  /\ AccountsInCents' /\ earned' \in earnedAt' /\ earnedAt \subseteq earnedAt'
           /\ active' = active /\ ledger'["retained"] = ledger["retained"]
           /\ earned' - NetIncome(ledger') = earned - NetIncome(ledger)
<1>1. IntEntry(e) /\ Apart(e) /\ ledger' = Posted(e) /\ earnedAt' = earnedAt \cup {earned'}
      /\ earned' = earned + NetIncome(ledger') - NetIncome(ledger) /\ active' = active
  BY DEF Books, Book
<1>2. ledger \in [Accounts -> Int] /\ earned \in Int
  BY DEF TypeOK
<1>3. AccountsInCents'
  BY <1>1, <1>2, PostedInCents DEF AccountsInCents
<1>4. {"revenue", "cogs", "expenses", "retained"} \subseteq Accounts
  BY DEF Accounts, Income, Spending, Equity
<1>5. ledger'["retained"] = ledger["retained"]
  <2>1. ToCents(0) = 0
    BY ZeroInCents, CentsKept
  <2>. QED BY <1>1, <1>2, <1>4, <2>1 DEF Posted, Apart
<1>6. \A a \in Accounts : ledger[a] \in Int /\ ledger'[a] \in Int
  BY <1>2, <1>3, CentsInt DEF AccountsInCents
<1>7. NetIncome(ledger) \in Int /\ NetIncome(ledger') \in Int
  BY <1>4, <1>6 DEF NetIncome
<1>. QED BY <1>1, <1>2, <1>3, <1>5, <1>7

\* A step that books an entry or none, and begins no close, keeps what was retained.
LEMMA CalmBooks ==
    ASSUME CalmInv, TypeOK', calm' => calm /\ Alone',
           \A r \in Requests : handler'[r].op = "close" => handler'[r] = handler[r],
           BooksAside \/ \E e : Books(e)
    PROVE  CalmInv'
<1>1. TypeOK /\ AccountsInCents /\ earned \in earnedAt
  BY DEF CalmInv
<1>2. /\ AccountsInCents' /\ earned' \in earnedAt' /\ earnedAt \subseteq earnedAt'
      /\ active' = active /\ ledger'["retained"] = ledger["retained"]
      /\ earned' - NetIncome(ledger') = earned - NetIncome(ledger)
  <2>1. CASE BooksAside
    BY <1>1, <2>1 DEF BooksAside, AccountsInCents
  <2>2. CASE \E e : Books(e)
    BY <1>1, <2>2, BooksKeep
  <2>. QED BY <2>1, <2>2
<1>3. /\ earned \in Int /\ earned' \in Int
      /\ NetIncome(ledger) \in Int /\ NetIncome(ledger') \in Int /\ ledger["retained"] \in Int
  BY DEF CalmInv, TypeOK, NetIncome, Accounts, Income, Spending, Equity
<1>4. ASSUME calm' PROVE CalmFacts'
  <2>1. CalmFacts /\ Alone'
    BY <1>4 DEF CalmInv
  <2>2. earned' = NetIncome(ledger') - ledger'["retained"]
    BY <1>2, <1>3, <2>1 DEF CalmFacts
  <2>3. \A r \in Requests : Retaining(handler'[r], ledger', earnedAt')
    BY <1>2, <2>1 DEF CalmFacts, Retaining
  <2>. QED BY <1>2, <2>1, <2>2, <2>3 DEF CalmFacts
<1>. QED BY <1>2, <1>4 DEF CalmInv

LEMMA CalmServe ==
    ASSUME CalmInv, TypeOK', calm' => calm /\ Alone', NEW r \in Requests, Serve(r)
    PROVE  CalmInv'
<1>1. TypeOK /\ AccountsInCents /\ earned \in earnedAt /\ handler \in [Requests -> Handlers]
      /\ ledger \in [Accounts -> Int]
  BY DEF CalmInv, TypeOK
<1>2. Idle.op # "close"
  BY DEF Idle, None
<1>3. ASSUME NEW x \in Expenses, NEW amount \in Amounts, SaveExpense(r, x, amount) PROVE CalmInv'
  <2>1. /\ handler' = [handler EXCEPT ![r] = [op |-> "expense", row |-> x]] /\ BooksAside
    BY <1>3 DEF SaveExpense, BooksAside
  <2>2. \A q \in Requests : handler'[q].op = "close" => handler'[q] = handler[q]
    BY <1>1, <2>1
  <2>. QED BY <2>1, <2>2, CalmBooks
<1>4. ASSUME DropExpense(r) \/ RefuseClose(r) PROVE CalmInv'
  <2>1. /\ handler' = [handler EXCEPT ![r] = Idle] /\ BooksAside
    BY <1>4 DEF DropExpense, RefuseClose, BooksAside
  <2>2. \A q \in Requests : handler'[q].op = "close" => handler'[q] = handler[q]
    BY <1>1, <1>2, <2>1
  <2>. QED BY <2>1, <2>2, CalmBooks
<1>5. ASSUME PostExpense(r) PROVE CalmInv'
  <2> DEFINE n == expense[handler[r].row].amount
  <2>1. handler' = [handler EXCEPT ![r] = Idle] /\ Book(ExpenseEntry(n))
    BY <1>5 DEF PostExpense
  <2>2. \A q \in Requests : handler'[q].op = "close" => handler'[q] = handler[q]
    BY <1>1, <1>2, <2>1
  <2>3. n \in Int
    <3>1. handler[r].row \in Expenses
      BY <1>1, <1>5, HandlerTypes DEF PostExpense
    <3>2. n \in Amounts \cup {0}
      BY <1>1, <3>1 DEF TypeOK
    <3>3. \A amount \in Amounts : amount \in Nat
      BY LedgerConstants
    <3> HIDE DEF n
    <3>. QED BY <3>2, <3>3
  <2> HIDE DEF n
  <2>4. IntEntry(ExpenseEntry(n))
    <3>1. /\ NoRow.subtotal \in Int /\ NoRow.tax \in Int /\ NoRow.total \in Int
          /\ NoRow.cogs \in Int
      BY DEF NoRow
    <3>. QED BY <2>3, <3>1, IntEntries
  <2>5. Books(ExpenseEntry(n))
    BY <2>1, <2>4, BusinessApart DEF Books
  <2>. QED BY <2>2, <2>5, CalmBooks
<1>6. ASSUME LoadClose(r) PROVE CalmInv'
  <2> DEFINE h == [op |-> "close", seen |-> ledger, open |-> active]
  <2>1. handler' = [handler EXCEPT ![r] = h] /\ UNCHANGED <<ledger, active, earned, earnedAt>>
    BY <1>6 DEF LoadClose
  <2>2. ASSUME calm' PROVE CalmFacts'
    <3>1. CalmFacts /\ Alone'
      BY <2>2 DEF CalmInv
    <3>2. Retaining(h, ledger, earnedAt)
      BY <1>1, <3>1 DEF Retaining, CalmFacts, AccountsInCents
    <3>3. \A q \in Requests : Retaining(handler'[q], ledger', earnedAt')
      BY <1>1, <2>1, <3>1, <3>2 DEF CalmFacts
    <3>. QED BY <2>1, <3>1, <3>3 DEF CalmFacts
  <2>. QED BY <1>1, <2>1, <2>2 DEF CalmInv, AccountsInCents
<1>7. ASSUME PostClose(r) PROVE CalmInv'
  <2> DEFINE h == handler[r]
             e == ClosingEntry(h.seen, h.open)
  <2>1. /\ h.op = "close" /\ ledger' = Posted(e) /\ handler' = [handler EXCEPT ![r] = Idle]
        /\ UNCHANGED <<active, earned, earnedAt>>
    BY <1>7 DEF PostClose
  <2>2. h.seen \in [Accounts -> Int] /\ h.open \in SUBSET Accounts
    BY <1>1, <2>1, HandlerTypes
  <2>3. AccountsInCents'
    <3>1. IntEntry(e)
      BY <2>2, ClosingLines
    <3> HIDE DEF e
    <3>. QED BY <1>1, <2>1, <3>1, PostedInCents DEF AccountsInCents
  <2>4. ASSUME calm' PROVE CalmFacts'
    <3>1. CalmFacts /\ Alone'
      BY <2>4 DEF CalmInv
    <3>2. /\ h.open = Accounts /\ h.seen["retained"] = ledger["retained"]
          /\ \A a \in Accounts : InCents(h.seen[a])
          /\ NetIncome(h.seen) - h.seen["retained"] \in earnedAt
      BY <2>1, <3>1 DEF CalmFacts, Retaining
    <3>3. /\ NetIncome(ledger') = NetIncome(ledger) - NetIncome(h.seen)
          /\ ledger'["retained"] = ledger["retained"] - NetIncome(h.seen)
      BY <1>1, <2>1, <2>2, <3>2, ClosingExact
    <3>4. /\ NetIncome(h.seen) \in Int /\ NetIncome(ledger) \in Int /\ ledger["retained"] \in Int
          /\ h.seen["retained"] \in Int
      BY <1>1, <2>2 DEF NetIncome, Accounts, Income, Spending, Equity
    <3>5. earned' = NetIncome(ledger') - ledger'["retained"]
      BY <2>1, <3>1, <3>3, <3>4 DEF CalmFacts
    <3>6. 0 - ledger'["retained"] \in earnedAt'
      <4>1. 0 - ledger'["retained"] = NetIncome(h.seen) - h.seen["retained"]
        BY <3>2, <3>3, <3>4
      <4>. QED BY <2>1, <3>2, <4>1
    <3>7. ASSUME NEW q \in Requests PROVE handler'[q].op # "close"
      <4>1. CASE q = r
        BY <1>1, <1>2, <2>1, <4>1
      <4>2. CASE q # r
        <5>1. handler[r] # Idle
          BY <1>2, <2>1
        <5>2. handler[q] = Idle
          BY <3>1, <4>2, <5>1 DEF CalmFacts, Alone
        <5>. QED BY <1>1, <1>2, <2>1, <4>2, <5>2
      <4>. QED BY <4>1, <4>2
    <3>8. \A q \in Requests : Retaining(handler'[q], ledger', earnedAt')
      BY <3>7 DEF Retaining
    <3>. QED BY <2>1, <3>1, <3>5, <3>6, <3>8 DEF CalmFacts
  <2>. QED BY <1>1, <2>1, <2>3, <2>4 DEF CalmInv
<1>. QED BY <1>3, <1>4, <1>5, <1>6, <1>7 DEF Serve

\* As long as requests are served one at a time and no account is switched off, what
\* closing has put into retained earnings is the net income of all business up to some
\* moment, even if business goes on between what a close reads and what it posts and
\* whatever is rounded (close_period and create_journal_entry).
THEOREM CalmClosesRetain == MCSpec => []CalmRetainedWasEarned
<1>1. MCInit => CalmInv
  <2> SUFFICES ASSUME MCInit PROVE CalmInv
    OBVIOUS
  <2>1. Init /\ TypeOK
    BY InitType DEF MCInit
  <2>2. \A a \in Accounts : ledger[a] = 0
    BY <2>1 DEF Init
  <2>3. AccountsInCents
    BY <2>2, ZeroInCents DEF AccountsInCents
  <2>4. NetIncome(ledger) = 0 /\ ledger["retained"] = 0
    BY <2>2 DEF NetIncome, Accounts, Income, Spending, Equity
  <2>5. CalmFacts
    BY <2>1, <2>4 DEF Init, CalmFacts, Alone, Retaining, Idle, None
  <2>. QED BY <2>1, <2>3, <2>5 DEF CalmInv, Init
<1>2. CalmInv /\ [MCNext]_<<vars, calm>> => CalmInv'
  <2> SUFFICES ASSUME CalmInv, [MCNext]_<<vars, calm>> PROVE CalmInv'
    OBVIOUS
  <2>1. CASE UNCHANGED <<vars, calm>>
    BY <2>1 DEF vars, CalmInv, TypeOK, AccountsInCents, CalmFacts, Alone
  <2>2. CASE MCNext
    <3>1. TypeOK'
      BY <2>2, StepType DEF CalmInv, MCNext
    <3>2. calm' => calm /\ Alone' /\ active' = active
      BY <2>2 DEF MCNext, Overlap, Alone
    <3>3. ASSUME NEW d \in Documents, Business(d) PROVE CalmInv'
      BY <3>1, <3>2, <3>3, BusinessBooks, CalmBooks DEF CalmInv
    <3>4. ASSUME NEW x, NEW row, EditExpense(x, row) PROVE CalmInv'
      <4>1. handler' = handler /\ BooksAside
        BY <3>4 DEF EditExpense, BooksAside
      <4>. QED BY <3>1, <3>2, <4>1, CalmBooks
    <3>5. ASSUME NEW a \in Accounts, SwitchAccount(a) PROVE CalmInv'
      <4>1. UNCHANGED <<ledger, earned, earnedAt, handler>>
        BY <3>5 DEF SwitchAccount
      <4>. QED BY <3>1, <3>2, <4>1 DEF CalmInv, CalmFacts, AccountsInCents
    <3>. QED BY <2>2, <3>1, <3>2, <3>3, <3>4, <3>5, CalmServe DEF MCNext, Next
  <2>. QED BY <2>1, <2>2
<1>3. CalmInv => CalmRetainedWasEarned
  BY DEF CalmInv, CalmFacts, CalmRetainedWasEarned, RetainedWasEarned
<1>. QED BY <1>1, <1>2, <1>3, PTL DEF MCSpec

----------------------------------------------------------------------------
(* Documents.  With amounts in whole cents a document is saved as it was   *)
(* computed, and the entry made from its row has two equal sides.          *)

LEMMA SideOfTwo ==
    ASSUME NEW a \in Accounts, NEW b \in Accounts, a # b, NEW x \in Int, NEW y \in Int
    PROVE  Sum(Side({<<a, x>>, <<b, y>>})) = x + y
<1> DEFINE lines == {<<a, x>>, <<b, y>>}
           f == Side(lines)
           T == {a, b}
<1>1. \A k \in lines : (k[1] = a => k = <<a, x>>) /\ (k[1] = b => k = <<b, y>>) /\ k[1] \in T
  OBVIOUS
<1>2. <<a, x>> \in lines /\ <<b, y>> \in lines /\ <<a, x>>[1] = a /\ <<b, y>>[1] = b
      /\ <<a, x>>[2] = x /\ <<b, y>>[2] = y
  OBVIOUS
<1>3. T \in SUBSET Accounts
  OBVIOUS
<1> HIDE DEF lines, T
<1>4. f[a] = x /\ f[b] = y
  <2>1. f[<<a, x>>[1]] = <<a, x>>[2] /\ f[<<b, y>>[1]] = <<b, y>>[2]
    BY <1>1, <1>2, SideOf
  <2>. QED BY <1>2, <2>1
<1>5. \A z \in Accounts \ T : f[z] = 0
  BY <1>1, SideWithout
<1> HIDE DEF f
<1>6. \A z \in T : f[z] \in Int
  BY <1>4 DEF T
<1>7. SumFunctionOnSet(f, Accounts) = SumFunctionOnSet(f, T)
  BY <1>3, <1>5, <1>6, AccountsFinite, SumSupport
<1>8. SumFunctionOnSet(f, {a, b}) = f[a] + f[b]
  BY <1>4, SumPair
<1>. QED BY <1>4, <1>7, <1>8 DEF Sum, f, lines, T

LEMMA SideOfThree ==
    ASSUME NEW a \in Accounts, NEW b \in Accounts, NEW c \in Accounts, a # b, a # c, b # c,
           NEW x \in Int, NEW y \in Int, NEW w \in Int
    PROVE  Sum(Side({<<a, x>>, <<b, y>>, <<c, w>>})) = x + y + w
<1> DEFINE lines == {<<a, x>>, <<b, y>>, <<c, w>>}
           f == Side(lines)
           T == {a, b, c}
<1>1. \A k \in lines : /\ k[1] = a => k = <<a, x>>
                       /\ k[1] = b => k = <<b, y>>
                       /\ k[1] = c => k = <<c, w>>
                       /\ k[1] \in T
  OBVIOUS
<1>2. /\ <<a, x>> \in lines /\ <<b, y>> \in lines /\ <<c, w>> \in lines
      /\ <<a, x>>[1] = a /\ <<b, y>>[1] = b /\ <<c, w>>[1] = c
      /\ <<a, x>>[2] = x /\ <<b, y>>[2] = y /\ <<c, w>>[2] = w
  OBVIOUS
<1>3. T \in SUBSET Accounts
  OBVIOUS
<1> HIDE DEF lines, T
<1>4. f[a] = x /\ f[b] = y /\ f[c] = w
  <2>1. /\ f[<<a, x>>[1]] = <<a, x>>[2] /\ f[<<b, y>>[1]] = <<b, y>>[2]
        /\ f[<<c, w>>[1]] = <<c, w>>[2]
    BY <1>1, <1>2, SideOf
  <2>. QED BY <1>2, <2>1
<1>5. \A z \in Accounts \ T : f[z] = 0
  BY <1>1, SideWithout
<1> HIDE DEF f
<1>6. \A z \in T : f[z] \in Int
  BY <1>4 DEF T
<1>7. SumFunctionOnSet(f, Accounts) = SumFunctionOnSet(f, T)
  BY <1>3, <1>5, <1>6, AccountsFinite, SumSupport
<1>8. SumFunctionOnSet(f, T) = f[a] + f[b] + f[c]
  <2>1. IsFiniteSet(T) /\ c \in T /\ T \ {c} = {a, b}
    BY <1>3, AccountsFinite, FS_Subset DEF T
  <2>2. SumFunctionOnSet(f, T) = f[c] + SumFunctionOnSet(f, T \ {c})
    BY <1>6, <2>1, SumRemove
  <2>3. SumFunctionOnSet(f, T \ {c}) = SumFunctionOnSet(f, {a, b})
    BY <2>1, Zenon
  <2>4. SumFunctionOnSet(f, {a, b}) = f[a] + f[b]
    BY <1>4, SumPair
  <2>. QED BY <1>4, <2>2, <2>3, <2>4
<1>. QED BY <1>4, <1>7, <1>8 DEF Sum, f, lines

\* The two sides of the entries made from a row.
LEMMA EntrySums ==
    ASSUME NEW row \in Row, NEW cogs \in Int
    PROVE  /\ Sum(InvoiceEntry(row, cogs).debit) = row.total + cogs
           /\ Sum(InvoiceEntry(row, cogs).credit) = row.subtotal + row.tax + cogs
           /\ Sum(SaleEntry(row).debit) = row.total + row.cogs
           /\ Sum(RefundEntry(row).debit) = row.subtotal + row.tax + row.cogs
           /\ Sum(RefundEntry(row).credit) = row.total + row.cogs
<1>1. row.subtotal \in Int /\ row.tax \in Int /\ row.total \in Int /\ row.cogs \in Int
  BY RowFields
<1>2. {"receivable", "cash", "cogs", "revenue", "vatPayable", "inventory"} \subseteq Accounts
  BY DEF Accounts, Assets, Liabilities, Income, Spending
<1>3. ASSUME NEW n \in Int
      PROVE  /\ Sum(Side({<<"receivable", row.total>>, <<"cogs", n>>})) = row.total + n
             /\ Sum(Side({<<"cash", row.total>>, <<"cogs", n>>})) = row.total + n
  BY <1>1, <1>2, SideOfTwo
<1>4. ASSUME NEW n \in Int
      PROVE  Sum(Side({<<"revenue", row.subtotal>>, <<"vatPayable", row.tax>>, <<"inventory", n>>}))
                 = row.subtotal + row.tax + n
  <2>1. /\ "revenue" \in Accounts /\ "vatPayable" \in Accounts /\ "inventory" \in Accounts
        /\ "revenue" # "vatPayable" /\ "revenue" # "inventory" /\ "vatPayable" # "inventory"
    BY <1>2
  <2>2. ASSUME NEW x \in Int, NEW y \in Int, NEW w \in Int
        PROVE  Sum(Side({<<"revenue", x>>, <<"vatPayable", y>>, <<"inventory", w>>})) = x + y + w
    BY <2>1, SideOfThree
  <2>. QED BY <1>1, <1>4, <2>2
<1>. QED BY <1>1, <1>3, <1>4 DEF InvoiceEntry, SaleEntry, RefundEntry, Entry

\* What documents come to: whole cents, and not for nothing.
Priced == WholeCents /\ 0 \notin Subtotals

Worth(row) ==
    /\ row.subtotal \in Nat /\ row.tax \in Nat /\ row.cogs \in Nat
    /\ row.total = row.subtotal + row.tax
    /\ row.status = "draft" => row.total # 0
    /\ row.status = "completed" => row.total + row.cogs # 0

DocumentsInv == TypeOK /\ \A d \in Documents : Worth(doc[d])

LEMMA SavedAsComputed ==
    ASSUME WholeCents, NEW kind, NEW status, NEW s \in Subtotals, NEW t \in Taxes, NEW cogs
    PROVE  LET row == Saved(Computed(kind, status, s, t, cogs))
           IN  /\ row.subtotal = s /\ row.tax = t /\ row.total = s + t
               /\ row.cogs = cogs /\ row.status = status
<1>1. InCents(s) /\ InCents(t)
  BY CentAmounts
<1>2. InCents(s + t)
  BY <1>1, CentsClosed
<1>3. ToCents(s) = s /\ ToCents(t) = t /\ ToCents(s + t) = s + t
  BY <1>1, <1>2, CentsKept
<1>. QED BY <1>3 DEF Saved, Computed

LEMMA DocumentStep ==
    ASSUME Priced, DocumentsInv, NEW d \in Documents, Business(d)
    PROVE  \A x \in Documents : Worth(doc'[x])
<1>1. /\ doc \in [Documents -> Row] /\ doc[d] \in Row /\ Worth(doc[d])
      /\ \A x \in Documents : Worth(doc[x])
  BY DEF DocumentsInv, TypeOK
<1>2. ASSUME NEW row, Worth(row), doc' = [doc EXCEPT ![d] = row]
      PROVE  \A x \in Documents : Worth(doc'[x])
  BY <1>1, <1>2
<1>3. ASSUME NEW status \in {"confirmed", "paid", "refunded"},
             doc' = [doc EXCEPT ![d].status = status]
      PROVE  \A x \in Documents : Worth(doc'[x])
  <2> DEFINE row == [doc[d] EXCEPT !.status = status]
  <2>1. /\ row.subtotal = doc[d].subtotal /\ row.tax = doc[d].tax /\ row.total = doc[d].total
        /\ row.cogs = doc[d].cogs /\ row.status = status
    BY <1>1 DEF Row
  <2>2. doc' = [doc EXCEPT ![d] = row]
    BY <1>3
  <2> HIDE DEF row
  <2>3. Worth(row)
    BY <1>1, <2>1 DEF Worth
  <2>. QED BY <1>2, <2>2, <2>3
<1>4. ASSUME NEW kind, NEW status, NEW s \in Subtotals, NEW t \in Taxes, NEW cogs \in Nat,
             doc' = [doc EXCEPT ![d] = Saved(Computed(kind, status, s, t, cogs))]
      PROVE  \A x \in Documents : Worth(doc'[x])
  <2> DEFINE row == Saved(Computed(kind, status, s, t, cogs))
  <2>1. s \in Nat \ {0} /\ t \in Nat
    BY LedgerConstants DEF Priced
  <2>2. /\ row.subtotal = s /\ row.tax = t /\ row.total = s + t
        /\ row.cogs = cogs
    BY SavedAsComputed DEF Priced
  <2>3. doc' = [doc EXCEPT ![d] = row]
    BY <1>4
  <2> HIDE DEF row
  <2>4. Worth(row)
    BY <2>1, <2>2 DEF Worth
  <2>. QED BY <1>2, <2>3, <2>4
<1>5. \A n \in Costs : n \in Nat
  BY LedgerConstants
<1>6. ASSUME NEW s \in Subtotals, NEW t \in Taxes, CreateInvoice(d, s, t) \/ ReceiveGoods(d, s, t)
      PROVE  \A x \in Documents : Worth(doc'[x])
  BY <1>4, <1>6, 0 \in Nat DEF CreateInvoice, ReceiveGoods
<1>7. ASSUME NEW s \in Subtotals, NEW t \in Taxes, NEW n \in Costs, RingUp(d, s, t, n)
      PROVE  \A x \in Documents : Worth(doc'[x])
  BY <1>4, <1>5, <1>7 DEF RingUp
<1>. QED BY <1>3, <1>6, <1>7 DEF Business, ConfirmInvoice, Pay, RefundSale

\* As long as amounts are whole cents and no document comes to nothing, the entry that a
\* draft invoice or a completed sale has still to post is one the ledger accepts: its
\* sides are equal and not zero (record_invoice_confirmed, record_pos_refund and the
\* check of create_journal_entry).
THEOREM DocumentsStayPostable ==
    ASSUME Priced
    PROVE  Spec => []DocumentsPostable
<1>1. Init => DocumentsInv
  <2> SUFFICES ASSUME Init PROVE DocumentsInv
    OBVIOUS
  <2>1. \A d \in Documents : doc[d] = NoRow
    BY DEF Init
  <2>. QED BY <2>1, InitType DEF DocumentsInv, Worth, NoRow, None
<1>2. DocumentsInv /\ [Next]_vars => DocumentsInv'
  <2> SUFFICES ASSUME DocumentsInv, [Next]_vars PROVE DocumentsInv'
    OBVIOUS
  <2>1. TypeOK'
    BY StepType DEF DocumentsInv
  <2>2. CASE \E d \in Documents : Business(d)
    BY <2>1, <2>2, DocumentStep DEF DocumentsInv
  <2>3. CASE doc' = doc
    BY <2>1, <2>3 DEF DocumentsInv
  <2>4. doc' = doc \/ \E d \in Documents : Business(d)
    BY DEF Next, vars, Serve, SaveExpense, PostExpense, DropExpense, LoadClose, PostClose,
           RefuseClose, EditExpense, SwitchAccount
  <2>. QED BY <2>2, <2>3, <2>4
<1>3. DocumentsInv => DocumentsPostable
  <2> SUFFICES ASSUME DocumentsInv, NEW d \in Documents
               PROVE  /\ doc[d].status = "draft" =>
                            \A cogs \in Costs : Postable(InvoiceEntry(doc[d], cogs))
                      /\ doc[d].status = "completed" => Postable(RefundEntry(doc[d]))
    BY DEF DocumentsPostable
  <2>1. doc[d] \in Row /\ Worth(doc[d])
    BY DEF DocumentsInv, TypeOK
  <2>2. ASSUME NEW cogs \in Costs, doc[d].status = "draft"
        PROVE  Postable(InvoiceEntry(doc[d], cogs))
    <3>1. cogs \in Nat
      BY LedgerConstants
    <3>. QED BY <2>1, <2>2, <3>1, EntrySums DEF Worth, Postable
  <2>3. ASSUME doc[d].status = "completed" PROVE Postable(RefundEntry(doc[d]))
    BY <2>1, <2>3, EntrySums, 0 \in Int DEF Worth, Postable
  <2>. QED BY <2>2, <2>3
<1>. QED BY <1>1, <1>2, <1>3, PTL DEF Spec
=============================================================================
