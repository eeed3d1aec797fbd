---------------------------- MODULE GeneralLedger ----------------------------
(***************************************************************************)
(* The double-entry ledger of apps/accounting: the journal entries that    *)
(* invoices, payments, goods receipts, till sales, refunds and expenses    *)
(* post, and the closing of a period.                                      *)
(*                                                                         *)
(* Money is an integer number of parts of a cent, because a line total may *)
(* have more decimals than the two a column keeps: what is saved is        *)
(* rounded (ToCents), what is still in memory is not.  The ledger is kept  *)
(* as one number per account, its debits minus its credits.                *)
(***************************************************************************)
EXTENDS Integers, FiniteSets, Functions

CONSTANTS
    Documents,  \* invoices, till sales and goods receipts
    Expenses,   \* Expense rows
    Requests,   \* the requests that close a period or book an expense
    Cent,       \* the parts a cent is divided into
    Subtotals, Taxes, Costs, Amounts,  \* the money explored
    Irregular   \* which of "deactivate", "edit", "crash" to explore

Assets == {"cash", "receivable", "inventory", "vatReceivable"}
Liabilities == {"payable", "vatPayable"}
Equity == {"retained"}
Income == {"revenue"}
Spending == {"cogs", "expenses"}
Accounts == Assets \cup Liabilities \cup Equity \cup Income \cup Spending

\* Every entry carries the day it is posted: up to today is all of them.
Reports == INSTANCE FinancialReports

ASSUME LedgerConstants ==
    /\ Cent \in Nat \ {0}
    /\ Subtotals \subseteq Nat /\ Taxes \subseteq Nat /\ Costs \subseteq Nat
    /\ Amounts \subseteq Nat /\ \A amount \in Amounts : amount % Cent = 0
    /\ Irregular \subseteq {"deactivate", "edit", "crash"}

None == "none"

VARIABLES
    ledger,   \* debits minus credits of every account
    active,   \* the accounts whose is_active is set
    doc,      \* the documents, their totals as the columns hold them
    expense,  \* the Expense rows and what their journal entries booked
    earned,   \* the net income of all business entries so far (no column)
    earnedAt, \* all the values earned has had (no column)
    handler   \* what each request has read

vars == <<ledger, active, doc, expense, earned, earnedAt, handler>>

Row == [kind : {None, "invoice", "sale", "receipt"},
        status : {None, "draft", "confirmed", "paid", "completed", "refunded", "received"},
        subtotal : Int, tax : Int, total : Int, cogs : Int]
NoRow == [kind |-> None, status |-> None, subtotal |-> 0, tax |-> 0, total |-> 0, cogs |-> 0]
NoExpense == [exists |-> FALSE, amount |-> 0, booked |-> 0]
Idle == [op |-> None]

Handlers == {Idle} \cup [op : {"close"}, seen : [Accounts -> Int], open : SUBSET Accounts]
                   \cup [op : {"expense"}, row : Expenses]

TypeOK ==
    /\ ledger \in [Accounts -> Int]
    /\ active \in SUBSET Accounts
    /\ doc \in [Documents -> Row]
    /\ expense \in [Expenses -> [exists : BOOLEAN, amount : Amounts \cup {0}, booked : Int]]
    /\ earned \in Int /\ earnedAt \subseteq Int
    /\ handler \in [Requests -> Handlers]

Init ==
    /\ ledger = [a \in Accounts |-> 0]
    /\ active = Accounts
    /\ doc = [d \in Documents |-> NoRow]
    /\ expense = [x \in Expenses |-> NoExpense]
    /\ earned = 0 /\ earnedAt = {0}
    /\ handler = [r \in Requests |-> Idle]

----------------------------------------------------------------------------
(* Entries.  One side of an entry is the set of its <<account, amount>>.   *)

\* PostgreSQL rounds to the column's two decimals half away from zero; the only
\* negative amounts here, those of a close, are whole cents already.
ToCents(x) == Cent * ((2 * x + Cent) \div (2 * Cent))

Side(lines) == [a \in Accounts |->
    IF \E l \in lines : l[1] = a THEN (CHOOSE l \in lines : l[1] = a)[2] ELSE 0]
Entry(debits, credits) == [debit |-> Side(debits), credit |-> Side(credits)]

Sum(f) == SumFunctionOnSet(f, Accounts)

Postable(e) == Sum(e.debit) = Sum(e.credit) /\ Sum(e.debit) # 0

\* The check is made before, the rounding after the lines are handed to the database.
Posted(e) == [a \in Accounts |-> ledger[a] + ToCents(e.debit[a]) - ToCents(e.credit[a])]

NetIncome(l) == 0 - (l["revenue"] + l["cogs"] + l["expenses"])

\* create_journal_entry on a business event.
Book(e) ==
    /\ Postable(e)
    /\ ledger' = Posted(e)
    /\ earned' = earned + NetIncome(ledger') - NetIncome(ledger)
    /\ earnedAt' = earnedAt \cup {earned'}
    /\ UNCHANGED active

InvoiceEntryGross(row, cogs) ==                                 \* faulty: revenue with VAT
    Entry({<<"receivable", row.total>>, <<"cogs", cogs>>},
          {<<"revenue", row.total>>, <<"vatPayable", row.tax>>, <<"inventory", cogs>>})
InvoiceEntry(row, cogs) ==
    Entry({<<"receivable", row.total>>, <<"cogs", cogs>>},
          {<<"revenue", row.subtotal>>, <<"vatPayable", row.tax>>, <<"inventory", cogs>>})

SaleEntry(row) ==
    Entry({<<"cash", row.total>>, <<"cogs", row.cogs>>},
          {<<"revenue", row.subtotal>>, <<"vatPayable", row.tax>>, <<"inventory", row.cogs>>})
RefundEntry(row) ==
    Entry({<<"revenue", row.subtotal>>, <<"vatPayable", row.tax>>, <<"inventory", row.cogs>>},
          {<<"cash", row.total>>, <<"cogs", row.cogs>>})
ReceiptEntry(row) ==
    Entry({<<"inventory", row.subtotal>>, <<"vatReceivable", row.tax>>},
          {<<"payable", row.subtotal + row.tax>>})
CollectionEntry(amount) == Entry({<<"cash", amount>>}, {<<"receivable", amount>>})
SupplierEntry(amount) == Entry({<<"payable", amount>>}, {<<"cash", amount>>})
ExpenseEntry(amount) == Entry({<<"expenses", amount>>}, {<<"cash", amount>>})

----------------------------------------------------------------------------
(* Business events; what each of them guards besides is modelled where its *)
(* document is.                                                            *)

\* Every total of a document is rounded on its own when the row is saved.
Computed(kind, status, subtotal, tax, cogs) ==
    [kind |-> kind, status |-> status, subtotal |-> subtotal, tax |-> tax,
     total |-> subtotal + tax, cogs |-> cogs]
Saved(row) == [row EXCEPT !.subtotal = ToCents(@), !.tax = ToCents(@), !.total = ToCents(@)]

CreateInvoice(d, subtotal, tax) ==
    /\ doc[d] = NoRow
    /\ doc' = [doc EXCEPT ![d] = Saved(Computed("invoice", "draft", subtotal, tax, 0))]
    /\ UNCHANGED <<ledger, active, expense, earned, earnedAt, handler>>

ConfirmInvoice(d, cogs) ==
    /\ doc[d].kind = "invoice" /\ doc[d].status = "draft"
    /\ Book(InvoiceEntry(doc[d], cogs))
    /\ doc' = [doc EXCEPT ![d].status = "confirmed"]
    /\ UNCHANGED <<expense, handler>>

\* The whole of a document is paid at once.
Pay(d) ==
    /\ \/ doc[d].status = "confirmed" /\ Book(CollectionEntry(doc[d].total))
       \/ doc[d].status = "received" /\ Book(SupplierEntry(doc[d].total))
    /\ doc' = [doc EXCEPT ![d].status = "paid"]
    /\ UNCHANGED <<expense, handler>>

\* The entry of a till sale is made from the totals still in memory.
RingUp(d, subtotal, tax, cogs) ==
    LET row == Computed("sale", "completed", subtotal, tax, cogs)
    IN  /\ doc[d] = NoRow
        /\ Book(SaleEntry(row))
        /\ doc' = [doc EXCEPT ![d] = Saved(row)]
        /\ UNCHANGED <<expense, handler>>

\* The entry of its refund is made from the row.
RefundSale(d) ==
    /\ doc[d].status = "completed"
    /\ Book(RefundEntry(doc[d]))
    /\ doc' = [doc EXCEPT ![d].status = "refunded"]
    /\ UNCHANGED <<expense, handler>>

ReceiveGoods(d, subtotal, tax) ==
    LET row == Computed("receipt", "received", subtotal, tax, 0)
    IN  /\ doc[d] = NoRow
        /\ Book(ReceiptEntry(row))
        /\ doc' = [doc EXCEPT ![d] = Saved(row)]
        /\ UNCHANGED <<expense, handler>>

----------------------------------------------------------------------------
(* Expenses: the row is committed first, its entry in a transaction of its *)
(* own.                                                                    *)

SaveExpense(r, x, amount) ==
    /\ handler[r] = Idle
    /\ expense[x] = NoExpense
    /\ expense' = [expense EXCEPT ![x] = [exists |-> TRUE, amount |-> amount, booked |-> 0]]
    /\ handler' = [handler EXCEPT ![r] = [op |-> "expense", row |-> x]]
    /\ UNCHANGED <<ledger, active, doc, earned, earnedAt>>

Booked(row) == [row EXCEPT !.booked = row.amount]
PostExpense(r) ==
    /\ handler[r].op = "expense"
    /\ LET x == handler[r].row
       IN  /\ Book(ExpenseEntry(expense[x].amount))
           /\ expense' = [expense EXCEPT ![x] = Booked(expense[x])]
    /\ handler' = [handler EXCEPT ![r] = Idle]
    /\ UNCHANGED doc

\* The entry is refused, or the process dies before it is made: the row stays.
DropExpense(r) ==
    /\ handler[r].op = "expense"
    /\ "crash" \notin Irregular => ~ Postable(ExpenseEntry(expense[handler[r].row].amount))
    /\ handler' = [handler EXCEPT ![r] = Idle]
    /\ UNCHANGED <<ledger, active, doc, expense, earned, earnedAt>>

\* PATCH of the amount, and DELETE, once the request that made the row is over.
EditExpense(x, row) ==
    /\ "edit" \in Irregular
    /\ expense[x].exists
    /\ \A r \in Requests : handler[r].op = "expense" => handler[r].row # x
    /\ expense' = [expense EXCEPT ![x] = row]
    /\ UNCHANGED <<ledger, active, doc, earned, earnedAt, handler>>

----------------------------------------------------------------------------
(* Closing.                                                                *)

LoadClose(r) ==
    /\ handler[r] = Idle
    /\ handler' = [handler EXCEPT ![r] = [op |-> "close", seen |-> ledger, open |-> active]]
    /\ UNCHANGED <<ledger, active, doc, expense, earned, earnedAt>>

\* The lines are built from the sums read; retained earnings take up the rest.
ClosingEntryOf(seen, accounts) ==
    LET net == 0 - SumFunctionOnSet(seen, accounts)
    IN  Entry({<<a, 0 - seen[a]>> : a \in accounts \cap Income}
                  \cup {<<"retained", IF net < 0 THEN 0 - net ELSE 0>>},
              {<<a, seen[a]>> : a \in accounts \cap Spending}
                  \cup {<<"retained", IF net > 0 THEN net ELSE 0>>})
Unclosed(seen, open) == {a \in (Income \cup Spending) \cap open : seen[a] # 0}
ClosingGrossEntry(seen, open) ==                                \* faulty: forgets the costs
    ClosingEntryOf(seen, Unclosed(seen, open) \cap Income)
ClosingEntry(seen, open) == ClosingEntryOf(seen, Unclosed(seen, open))

PostClose(r) ==
    LET e == ClosingEntry(handler[r].seen, handler[r].open)
    IN  /\ handler[r].op = "close"
        /\ Postable(e)
        /\ ledger' = Posted(e)
        /\ handler' = [handler EXCEPT ![r] = Idle]
        /\ UNCHANGED <<active, doc, expense, earned, earnedAt>>

\* There is nothing to close, or create_journal_entry refuses the entry.
RefuseClose(r) ==
    /\ handler[r].op = "close"
    /\ ~ Postable(ClosingEntry(handler[r].seen, handler[r].open))
    /\ handler' = [handler EXCEPT ![r] = Idle]
    /\ UNCHANGED <<ledger, active, doc, expense, earned, earnedAt>>

\* PATCH of an account's is_active.
SwitchAccount(a) ==
    /\ "deactivate" \in Irregular
    /\ active' = IF a \in active THEN active \ {a} ELSE active \cup {a}
    /\ UNCHANGED <<ledger, doc, expense, earned, earnedAt, handler>>

Business(d) ==
    \/ \E s \in Subtotals, t \in Taxes : CreateInvoice(d, s, t) \/ ReceiveGoods(d, s, t)
    \/ \E cogs \in Costs : ConfirmInvoice(d, cogs)
    \/ \E s \in Subtotals, t \in Taxes, cogs \in Costs : RingUp(d, s, t, cogs)
    \/ Pay(d) \/ RefundSale(d)

Serve(r) ==
    \/ \E x \in Expenses, amount \in Amounts : SaveExpense(r, x, amount)
    \/ PostExpense(r) \/ DropExpense(r)
    \/ LoadClose(r) \/ PostClose(r) \/ RefuseClose(r)

Next ==
    \/ \E d \in Documents : Business(d)
    \/ \E r \in Requests : Serve(r)
    \/ \E x \in Expenses, amount \in Amounts :
          \/ EditExpense(x, [expense[x] EXCEPT !.amount = amount])
          \/ EditExpense(x, [expense[x] EXCEPT !.amount = 0, !.exists = FALSE])
    \/ \E a \in Accounts : SwitchAccount(a)

Spec == Init /\ [][Next]_vars

----------------------------------------------------------------------------
(* Properties.                                                             *)

\* Whatever is posted, closed, edited or lost, the accounts together balance.
LedgerBalances == Sum(ledger) = 0

\* The trial balance: "Debit and credit totals must match by construction" over
\* the accounts it lists, the active ones.
TrialBalances == Reports!TrialBalance(ledger, active) = 0

\* "Every one of the following posts a balanced journal entry": the entry that a
\* draft invoice or a completed sale has still to post is one the ledger accepts.
DocumentsPostable ==
    \A d \in Documents :
        /\ doc[d].status = "draft" =>
              \A cogs \in Costs : Postable(InvoiceEntry(doc[d], cogs))
        /\ doc[d].status = "completed" => Postable(RefundEntry(doc[d]))

\* Every expense that no request is working on is in the books with its amount.
ExpensesBooked ==
    \A x \in Expenses :
        (\A r \in Requests : handler[r].op = "expense" => handler[r].row # x) =>
            expense[x].booked = expense[x].amount /\ (expense[x].exists => expense[x].amount # 0)

\* What closing put into retained earnings is the net income of all business up
\* to some moment: a close counts no activity twice and leaves none of it out.
RetainedWasEarned == 0 - ledger["retained"] \in earnedAt

\* "current-period net income sits implicitly in the Income/Expense accounts": a
\* balance sheet over all the accounts differs from Assets = Liabilities + Equity
\* by what the profit and loss report shows, whatever was closed, lost or edited.
ReportsReconcile ==
    LET sheet == Reports!BalanceSheet(ledger, active)
    IN  active = Accounts =>
            sheet.assets = sheet.liabilities + sheet.equity + Reports!ProfitAndLoss(ledger, active)
=============================================================================
