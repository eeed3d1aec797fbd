SPECIFICATION MCSpec
CONSTANTS
    Documents = {d1, d2}
    Expenses = {x1}
    Requests = {r1, r2}
    Cent = 2
    Subtotals = {4, 6}
    Taxes = {0, 2}
    Costs = {2}
    Amounts = {2}
    Irregular = {"deactivate", "edit", "crash"}
SYMMETRY Interchangeable
ACTION_CONSTRAINT OneDocument
INVARIANTS ReportsReconcile DocumentsPostable CalmRetainedWasEarned
