SPECIFICATION MCSpec
CONSTANTS
    Warehouses = {w1, w2}
    Products = {Kit, Part}
    Variants = {plain}
    NoVariant = plain
    Serials = {}
    Batches = {b1, b2}
    Dates = {1}
    NoDate = NoDate
    Quantities = {1, 2}
    Costs = {2, 5}
    Whole = 2
    Bom <- WholeParts
    Reorder <- ReorderAtOne
    InitTracking <- PartsBatched
    MaxOnHand = 2
    Kit = Kit
    Part = Part
ACTION_CONSTRAINT KitsOrDates
SYMMETRY Interchangeable
INVARIANTS LedgerExplainsOnHand KeptBatchesMirrorOnHand
PROPERTIES NothingAppearsUncounted
CHECK_DEADLOCK FALSE
