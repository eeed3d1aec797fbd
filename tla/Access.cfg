SPECIFICATION MCSpec
CONSTANTS
    n1 = n1
    o1 = o1
    o2 = o2
    e1 = e1
    f1 = f1
    E1 = E1
    Names = {n1}
    SlugNumbers = {1, 2}
    Plans = {trial, pro}
    Trial = trial
    Users = {u1, u2}
    Roles = {"Owner", "Cashier"}
    Regrants <- Stripped
    Statuses = {"trialing", "active", "suspended"}
    Caps <- TwoCaps
    TrialCaps <- RoomForTwo
    Secrets = {k1, k2}
    Workers = {r1, r2}
    MaxIds = 2
    MaxHeld = 2
    Owners = {o1, o2}
    EmployerOf <- TwoOwners
    Emails = {e1, E1}
    Folded <- CaseTwins
    MaxAccounts = 2
SYMMETRY Interchangeable
ACTION_CONSTRAINT InTheme
INVARIANTS OwnerNeverLockedOut AloneLastWordStands PassesStayWithOwner
PROPERTIES AloneGrowsWithinPlan NobodyEntersWhileBlocked
CHECK_DEADLOCK FALSE
