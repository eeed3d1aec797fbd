SPECIFICATION MCSpec
CONSTANTS
    Warehouses = {w1, w2}
    Products = {phone}
    Variants = {plain, blue}
    NoVariant = plain
    Serials = {s1, s2}
    Batches = {b1}
    Dates = {}
    NoDate = NoDate
    Quantities = {1, 2, 4}
    Costs = {2, 5}
    Whole = 2
    Bom <- NoBundles
    Reorder <- ReorderAtOne
    InitTracking <- SerialTracked
    MaxOnHand = 4
    Kit = Kit
    Part = Part
ACTION_CONSTRAINT SerialOrNone
SYMMETRY Interchangeable
INVARIANTS KeptSerialsMirrorOnHand AverageWithinPaid
PROPERTIES SoldUnitsStayOut
CHECK_DEADLOCK FALSE
