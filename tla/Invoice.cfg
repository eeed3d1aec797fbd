SPECIFICATION MCSpec
CONSTANTS
    Invoices = {i1}
    Intents = {n1, n2}
    Requests = {r1, r2}
    Total <- TotalOfTwo
    Amounts = {1, 2}
    Mutations = {"edit", "delete"}
    MaxConfirmations = 2
    MaxCollected = 4
SYMMETRY Interchangeable
ACTION_CONSTRAINT OneTrouble
INVARIANTS CreditedIsCollected AloneBooksMatchInvoice AloneOnePaymentPerIntent
CHECK_DEADLOCK FALSE
