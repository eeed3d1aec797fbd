SPECIFICATION MCSpec
CONSTANTS
    Cashiers = {c1}
    Tills = {s1, s2}
    Sales = {t1, t2}
    Requests = {r1, r2}
    Floats = {0, 1}
    Price = 2
    Quantities = {1}
    Stock = 2
    Irregular = {"edit", "delete"}
SYMMETRY Interchangeable
ACTION_CONSTRAINT OneSale
INVARIANTS RefundedIsReturned PlainTillAddsUp AloneOneOpenSession
PROPERTIES AloneClosedForGood
CHECK_DEADLOCK FALSE
