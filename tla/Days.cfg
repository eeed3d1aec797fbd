SPECIFICATION MCDaysSpec
CONSTANTS
    p1 = p1
    p2 = p2
    Products = {p1, p2}
    Price <- OwnPrice
    TaxPercent = 10
    NewMonth = 2
    Orders <- AnyOrders
    Deliveries <- AnyDeliveries
    Corrections <- AnyCorrections
    ana = ana
    Themes = {"sales", "stock", "notices"}
    Users = {ana, ben}
    Everyone = everyone
    Scanners = {s1, s2}
    LastDay = 2
    ReorderLevel = 1
    SafetyStock = 2
    ReorderHistoryDays = 3
    LeadTimeDays = 2
    ForecastHistoryDays = 5
    TrendDays = 2
    AnomalyHistoryDays = 3
    MinHistoryPoints = 5
    ZThreshold = 2
    Quantities = {0, 1, 2, 9}
    MaxDocuments = 2
    MaxOuts = 3
    MaxReceipts = 2
    MaxNotices = 2
SYMMETRY LikeScanners
ACTION_CONSTRAINT InBounds
INVARIANTS PromptSalesMeetTheBooks PlainWorthIsInventory DeadStockIsIdle AloneRemindedOnce HeardIsListed
CHECK_DEADLOCK FALSE
