SPECIFICATION MCSpec
CONSTANTS
    i1 = i1
    i2 = i2
    i3 = i3
    o1 = o1
    o2 = o2
    Demands = {d1}
    Orders = {o1, o2}
    Items = {i1, i2}
    Owner <- OwnerOf
    Quantity <- TwoThenOne
    Total = 2
    Requests = {r1, r2}
    MaxEntries = 2
    MaxQty = 2
    Amounts = {1}
    Irregular = {"edit", "crash", "delete", "swap"}
    MaxPayments = 3
    MaxStocked = 3
    MaxDecisions = 2
SYMMETRY Interchangeable
ACTION_CONSTRAINT Bounds
INVARIANTS ReceivedIsStocked ClaimedIsPaid OrderedWasApproved CalmPaperworkAddsUp
CHECK_DEADLOCK FALSE
