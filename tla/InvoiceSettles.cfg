SPECIFICATION MCFairSpec
CONSTANTS
    Invoices = {i1}
    Intents = {n1, n2}
    Requests = {r1}
    Total <- TotalOfTwo
    Amounts = {1, 2}
    Mutations = {}
    MaxConfirmations = 2
    MaxCollected = 4
PROPERTIES SettledOrBlocked
CHECK_DEADLOCK FALSE
