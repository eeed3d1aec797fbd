SPECIFICATION MCSpec
CONSTANTS
    l1 = l1
    l2 = l2
    Quotations = {q1}
    Orders = {o1, o2}
    Invoices = {b1, b2}
    Lines = {l1, l2}
    Quantity <- TwoAndOne
    Requests = {r1, r2}
    MaxEntries = 1
    Mutations = {"edit", "delete"}
    MaxAnswers = 2
SYMMETRY Interchangeable
ACTION_CONSTRAINT OneTrouble
INVARIANTS StatusIsBacked AloneBilledIsCounted AloneDecidedOnce KeptCountedIsBilled
CHECK_DEADLOCK FALSE
