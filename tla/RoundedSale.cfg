SPECIFICATION MCSpec
CONSTANTS
    Documents = {d1}
    Expenses = {}
    Requests = {r1}
    Cent = 2
    Subtotals = {5}
    Taxes = {1}
    Costs = {2}
    Amounts = {}
    Irregular = {}
INVARIANT TrialBalances
