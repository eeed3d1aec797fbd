--------------------------- MODULE PlatformProofs ---------------------------
(***************************************************************************)
(* Theorems of what every component stands on.                             *)
(*                                                                         *)
(* Part one, Tenancy and Sessions: who is let in.  For any companies,      *)
(* plans, users, customers and workers, owners are never locked out,       *)
(* nobody enters a blocked company, a portal token speaks for the one it   *)
(* was issued to; and served one at a time, requests keep companies within *)
(* their plans and everybody's last word.                                  *)
(*                                                                         *)
(* Part two, StockLocks: in which order transactions take rows.  For any   *)
(* requests and operations, rows are inserted once, numbers run on, and    *)
(* the stock is what StockPromise promises.                                *)
(***************************************************************************)
EXTENDS MCAccess, StockLocks, SumTheorems, SequenceTheorems

----------------------------------------------------------------------------
(* Part one: Tenancy and Sessions.                                         *)


----------------------------------------------------------------------------
(* Type correctness.                                                       *)

LEMMA NullsDiffer ==
    /\ NoSlug \notin Slugs
    /\ NoCompany \notin CompanyRows /\ NoUser \notin UserRows
    /\ \A x \in Slugs \X Roles : x # NoRole
BY TenancyConstants DEF NoSlug, Slugs, NoCompany, CompanyRows, NoUser, UserRows, NoRole

LEMMA LiveUser ==
    ASSUME TenancyTypeOK, NEW u \in Users, user[u] # NoUser
    PROVE  /\ user[u] \in UserRows /\ user[u].id \in Nat \ {0} /\ user[u].company \in Slugs
           /\ user[u].role \in (Slugs \X Roles) \cup {NoRole} /\ user[u].secret \in Secrets
BY DEF TenancyTypeOK, UserRows

\* What a request in flight works on follows from its operation.
LEMMA HandlerRows ==
    ASSUME TenancyTypeOK, NEW r \in Workers
    PROVE  LET h == handler[r] IN
           /\ h.op = "signup" => h.slug \in Slugs /\ h.user \in Users
           /\ h.op = "grow" => h.slug \in Slugs /\ h.res \in Resources
           /\ h.op \in {"settings", "tenant"} => h.slug \in Slugs /\ h.row \in CompanyRows
           /\ h.op = "plan" => h.slug \in Slugs /\ h.plan \in Plans
           /\ h.op = "user" => h.user \in Users /\ h.row \in UserRows
           /\ h.op = "password" => h.user \in Users /\ h.id \in Nat \ {0}
<1>1. handler[r] \in HandlerStates
  BY DEF TenancyTypeOK
<1>. QED BY <1>1 DEF HandlerStates, Idle

\* The slug tried next is one of the company's name, and free.
LEMMA FreeSlugType ==
    ASSUME NEW name \in Names, \E k \in SlugNumbers : company[<<name, k>>] = NoCompany
    PROVE  FreeSlug(name) \in Slugs /\ company[FreeSlug(name)] = NoCompany
<1> DEFINE T == {k \in SlugNumbers : company[<<name, k>>] = NoCompany}
<1>1. T \subseteq Nat /\ T # {}
  BY TenancyConstants
<1> DEFINE Less == {ss \in Nat \X Nat : ss[1] < ss[2]}
<1>2. IsWellFoundedOn(Less, Nat)
  BY NatLessThanWellFounded, Zenon DEF OpToRel
<1> HIDE DEF T
<1>3. PICK m \in T : \A k \in T : ~ (<<k, m>> \in Less)
  BY <1>1, <1>2, WFMin
<1>6. \A k \in T : ~ (k < m)
  BY <1>1, <1>3
<1>4. m \in SlugNumbers /\ company[<<name, m>>] = NoCompany
      /\ \A k \in SlugNumbers : k < m => company[<<name, k>>] # NoCompany
  BY <1>3, <1>6 DEF T
<1>5. \E s \in {name} \X SlugNumbers :
         /\ company[s] = NoCompany
         /\ \A k \in SlugNumbers : k < s[2] => company[<<name, k>>] # NoCompany
  <2>1. <<name, m>> \in {name} \X SlugNumbers
    BY <1>4
  <2>. QED BY <1>4, <2>1
<1>7. FreeSlug(name) \in {name} \X SlugNumbers /\ company[FreeSlug(name)] = NoCompany
  BY <1>5, Zenon DEF FreeSlug
<1>. QED BY <1>7 DEF Slugs

LEMMA LoadType ==
    ASSUME TenancyTypeOK, NEW r \in Workers, NEW state \in HandlerStates, Load(r, state), OnlyLoads
    PROVE  TenancyTypeOK'
BY DEF TenancyTypeOK, Load, OnlyLoads

LEMMA AnswerType ==
    ASSUME TenancyTypeOK, NEW r \in Workers, Answer(r)
    PROVE  handler' \in [Workers -> HandlerStates]
BY DEF TenancyTypeOK, Answer, HandlerStates

LEMMA WrittenUser ==
    ASSUME TenancyTypeOK, NEW v \in Users, NEW row \in UserRows \cup {NoUser},
           user' = [user EXCEPT ![v] = row]
    PROVE  user' \in [Users -> UserRows \cup {NoUser}]
BY DEF TenancyTypeOK

LEMMA SignupType ==
    ASSUME TenancyTypeOK, NEW r \in Workers, Signup(r) PROVE TenancyTypeOK'
<1> DEFINE h == handler[r]
<1>1. h.slug \in Slugs /\ h.user \in Users
  BY HandlerRows DEF Signup
<1>2. handler' \in [Workers -> HandlerStates]
  BY AnswerType DEF Signup
<1>3. CASE Taken(h)
  BY <1>2, <1>3 DEF Signup, TenancyTypeOK, OnlyLoads
<1>4. CASE ~ Taken(h)
  <2>1. plan' \in [Plans -> PlanRows]
    <3>1. TrialRow \in PlanRows
      BY TenancyConstants DEF TrialRow, TenancyTypeOK, PlanRows
    <3>. QED BY <1>4, <3>1 DEF Signup, TenancyTypeOK
  <2>2. company' \in [Slugs -> CompanyRows \cup {NoCompany}]
    <3>1. [status |-> "trialing", active |-> TRUE, plan |-> Trial] \in CompanyRows
      BY TenancyConstants DEF CompanyRows
    <3>. QED BY <1>1, <1>4, <3>1 DEF Signup, TenancyTypeOK
  <2>3. role' \in [Slugs -> [Roles -> [there : BOOLEAN, codes : SUBSET all_permission_codes]]]
    <3>1. seed_default_roles \in [Roles -> [there : BOOLEAN, codes : SUBSET all_permission_codes]]
      BY DEF seed_default_roles, SeededCodes
    <3>. QED BY <1>1, <1>4, <3>1 DEF Signup, TenancyTypeOK
  <2>4. user' \in [Users -> UserRows \cup {NoUser}]
    <3>1. PICK secret \in Secrets : user' = [user EXCEPT ![h.user] = OwnerRow(h.slug, secret)]
      BY <1>4 DEF Signup
    <3>2. OwnerRow(h.slug, secret) \in UserRows
      BY <1>1, TenancyConstants DEF OwnerRow, UserRows, TenancyTypeOK
    <3>. QED BY <1>1, <3>1, <3>2 DEF TenancyTypeOK
  <2>. QED BY <1>2, <1>4, <2>1, <2>2, <2>3, <2>4 DEF Signup, TenancyTypeOK
<1>. QED BY <1>3, <1>4

LEMMA CheckSignupType ==
    ASSUME TenancyTypeOK, NEW r \in Workers, NEW name \in Names, NEW u \in Users, CheckSignup(r, name, u)
    PROVE  TenancyTypeOK'
<1>1. FreeSlug(name) \in Slugs
  BY FreeSlugType DEF CheckSignup
<1>2. [op |-> "signup", slug |-> FreeSlug(name), user |-> u] \in HandlerStates
  BY <1>1 DEF HandlerStates
<1>. QED BY <1>2, LoadType DEF CheckSignup

LEMMA GrowType ==
    ASSUME TenancyTypeOK, NEW r \in Workers
    PROVE  /\ \A u \in Users, res \in Resources : enforce_plan_limit(r, u, res) => TenancyTypeOK'
           /\ \A v \in Users : Invite(r, v) => TenancyTypeOK'
           /\ Establish(r) => TenancyTypeOK'
<1>1. ASSUME NEW u \in Users, NEW res \in Resources, enforce_plan_limit(r, u, res) PROVE TenancyTypeOK'
  <2>1. user[u].company \in Slugs
    BY <1>1, LiveUser DEF enforce_plan_limit, Admitted
  <2>2. [op |-> "grow", slug |-> user[u].company, res |-> res] \in HandlerStates
    BY <2>1 DEF HandlerStates
  <2>. QED BY <1>1, <2>2, LoadType DEF enforce_plan_limit
<1>2. ASSUME NEW v \in Users, Invite(r, v) PROVE TenancyTypeOK'
  <2>1. handler[r].slug \in Slugs
    BY <1>2, HandlerRows DEF Invite
  <2>2. ASSUME NEW x \in RolesThere \cup {NoRole}, NEW secret \in Secrets
        PROVE  InvitedRow(handler[r].slug, x, secret) \in UserRows
    BY <2>1 DEF InvitedRow, UserRows, TenancyTypeOK, RolesThere
  <2>3. \/ user' = user /\ lastId' = lastId
        \/ /\ lastId' = lastId + 1
           /\ \E x \in RolesThere \cup {NoRole}, secret \in Secrets :
                 user' = [user EXCEPT ![v] = InvitedRow(handler[r].slug, x, secret)]
    BY <1>2 DEF Invite
  <2>5. lastId' \in Nat
    BY <2>3 DEF TenancyTypeOK
  <2>4. user' \in [Users -> UserRows \cup {NoUser}]
    BY <2>2, <2>3, WrittenUser, Zenon DEF TenancyTypeOK
  <2>. QED BY <1>2, <2>4, <2>5, AnswerType DEF Invite, TenancyTypeOK
<1>3. ASSUME Establish(r) PROVE TenancyTypeOK'
  <2>1. handler[r].slug \in Slugs /\ handler[r].res \in {"branches", "warehouses"}
    BY <1>3, HandlerRows DEF Establish, Resources
  <2>2. held' \in [Slugs -> [{"branches", "warehouses"} -> Nat]]
    BY <1>3, <2>1 DEF Establish, TenancyTypeOK
  <2>. QED BY <1>3, <2>2, AnswerType DEF Establish, TenancyTypeOK
<1>. QED BY <1>1, <1>2, <1>3

LEMMA CloseType ==
    ASSUME TenancyTypeOK, NEW u \in Users
    PROVE  /\ \A k \in 0..MaxHeld : CloseBranch(u, k) => TenancyTypeOK'
           /\ CloseWarehouse(u) => TenancyTypeOK'
<1>1. ASSUME NEW k \in 0..MaxHeld, CloseBranch(u, k) PROVE TenancyTypeOK'
  <2> DEFINE s == user[u].company
  <2>1. s \in Slugs /\ k \in Nat
    BY <1>1, LiveUser, TenancyConstants DEF CloseBranch, Admitted
  <2>2. held[s]["branches"] - 1 \in Nat /\ held[s]["warehouses"] - k \in Nat
    BY <1>1, <2>1 DEF CloseBranch, TenancyTypeOK
  <2>3. held' \in [Slugs -> [{"branches", "warehouses"} -> Nat]]
    BY <1>1, <2>1, <2>2 DEF CloseBranch, TenancyTypeOK
  <2>. QED BY <1>1, <2>3 DEF CloseBranch, TenancyTypeOK
<1>2. ASSUME CloseWarehouse(u) PROVE TenancyTypeOK'
  <2>1. user[u].company \in Slugs
    BY <1>2, LiveUser DEF CloseWarehouse, Admitted
  <2>2. held' \in [Slugs -> [{"branches", "warehouses"} -> Nat]]
    BY <1>2, <2>1 DEF CloseWarehouse, TenancyTypeOK
  <2>. QED BY <1>2, <2>2 DEF CloseWarehouse, TenancyTypeOK
<1>. QED BY <1>1, <1>2

LEMMA DeleteUserType ==
    ASSUME TenancyTypeOK, NEW u \in Users, NEW v \in Users, DeleteUser(u, v) PROVE TenancyTypeOK'
BY DEF DeleteUser, TenancyTypeOK

LEMMA UserType ==
    ASSUME TenancyTypeOK, NEW r \in Workers
    PROVE  /\ \A u, v \in Users : OpenUser(r, u, v) => TenancyTypeOK'
           /\ \A u \in Users, old \in Secrets : OpenPassword(r, u, old) => TenancyTypeOK'
           /\ SaveUser(r) => TenancyTypeOK'
           /\ \A new \in Secrets : SavePassword(r, new) => TenancyTypeOK'
<1>1. ASSUME NEW u \in Users, NEW v \in Users, OpenUser(r, u, v) PROVE TenancyTypeOK'
  <2>1. user[v] \in UserRows
    BY <1>1, LiveUser DEF OpenUser, Staff
  <2>2. [op |-> "user", user |-> v, row |-> user[v]] \in HandlerStates
    BY <2>1 DEF HandlerStates
  <2>. QED BY <1>1, <2>2, LoadType DEF OpenUser
<1>2. ASSUME NEW u \in Users, NEW old \in Secrets, OpenPassword(r, u, old) PROVE TenancyTypeOK'
  <2>1. user[u].id \in Nat \ {0}
    BY <1>2, LiveUser DEF OpenPassword, Admitted
  <2>2. [op |-> "password", user |-> u, id |-> user[u].id] \in HandlerStates
    BY <2>1 DEF HandlerStates
  <2>. QED BY <1>2, <2>2, LoadType DEF OpenPassword
<1>3. ASSUME SaveUser(r) PROVE TenancyTypeOK'
  <2> DEFINE h == handler[r]
  <2>1. h.user \in Users /\ h.row \in UserRows
    BY <1>3, HandlerRows DEF SaveUser
  <2>2. PICK a \in BOOLEAN, x \in RolesThere \cup {NoRole, h.row.role} :
           LET row == [h.row EXCEPT !.active = a, !.role = x]
           IN  user' = IF Storable(h.user, row) THEN [user EXCEPT ![h.user] = row] ELSE user
    BY <1>3 DEF SaveUser
  <2>3. [h.row EXCEPT !.active = a, !.role = x] \in UserRows
    BY <2>1, <2>2 DEF UserRows, RolesThere
  <2> HIDE DEF h
  <2>4. user' \in [Users -> UserRows \cup {NoUser}]
    BY <2>1, <2>2, <2>3 DEF TenancyTypeOK
  <2>. QED BY <1>3, <2>4, AnswerType DEF SaveUser, TenancyTypeOK
<1>4. ASSUME NEW new \in Secrets, SavePassword(r, new) PROVE TenancyTypeOK'
  <2> DEFINE h == handler[r]
  <2>1. h.user \in Users /\ h.id \in Nat \ {0}
    BY <1>4, HandlerRows DEF SavePassword
  <2>2. CASE user[h.user].id = h.id
    <3>1. user[h.user] # NoUser
      BY <2>1, <2>2 DEF NoUser
    <3>2. [user[h.user] EXCEPT !.secret = new] \in UserRows
      BY <2>1, <3>1, LiveUser DEF UserRows
    <3>3. user' = [user EXCEPT ![h.user] = [user[h.user] EXCEPT !.secret = new]]
      BY <1>4, <2>1, <2>2 DEF SavePassword, TenancyTypeOK
    <3>4. user' \in [Users -> UserRows \cup {NoUser}]
      BY <2>1, <3>2, <3>3, WrittenUser
    <3>. QED BY <1>4, <3>4, AnswerType DEF SavePassword, TenancyTypeOK
  <2>3. CASE user[h.user].id # h.id
    BY <1>4, <2>3, AnswerType DEF SavePassword, TenancyTypeOK
  <2>. QED BY <2>2, <2>3
<1>. QED BY <1>1, <1>2, <1>3, <1>4

LEMMA RoleType ==
    ASSUME TenancyTypeOK, NEW u \in Users, NEW name \in Roles
    PROVE  /\ \A codes \in Regrants : RegrantRole(u, name, codes) => TenancyTypeOK'
           /\ DeleteRole(u, name) => TenancyTypeOK'
<1>1. ASSUME NEW codes \in Regrants, RegrantRole(u, name, codes) PROVE TenancyTypeOK'
  <2>1. user[u].company \in Slugs /\ codes \in SUBSET all_permission_codes
    BY <1>1, LiveUser, TenancyConstants DEF RegrantRole, Admitted
  <2>2. role' \in [Slugs -> [Roles -> [there : BOOLEAN, codes : SUBSET all_permission_codes]]]
    BY <1>1, <2>1 DEF RegrantRole, TenancyTypeOK
  <2>. QED BY <1>1, <2>2 DEF RegrantRole, TenancyTypeOK
<1>2. ASSUME DeleteRole(u, name) PROVE TenancyTypeOK'
  <2>1. user[u].company \in Slugs
    BY <1>2, LiveUser DEF DeleteRole, Admitted
  <2>2. NoCodes \in [there : BOOLEAN, codes : SUBSET all_permission_codes]
    BY DEF NoCodes
  <2>3. role' \in [Slugs -> [Roles -> [there : BOOLEAN, codes : SUBSET all_permission_codes]]]
    BY <1>2, <2>1, <2>2 DEF DeleteRole, TenancyTypeOK
  <2>4. ASSUME NEW v \in Users, user[v].role = <<user[u].company, name>>
        PROVE  [user[v] EXCEPT !.role = NoRole] \in UserRows
    <3>1. user[v] # NoUser
      BY <2>1, <2>4, NullsDiffer DEF NoUser
    <3>. QED BY <3>1, LiveUser DEF UserRows
  <2>5. user' \in [Users -> UserRows \cup {NoUser}]
    BY <1>2, <2>4 DEF DeleteRole, TenancyTypeOK
  <2>. QED BY <1>2, <2>3, <2>5 DEF DeleteRole, TenancyTypeOK
<1>. QED BY <1>1, <1>2

LEMMA OpenType ==
    ASSUME TenancyTypeOK, NEW r \in Workers
    PROVE  /\ \A u \in Users : OpenSettings(r, u) => TenancyTypeOK'
           /\ \A s \in Slugs : OpenTenant(r, s) => TenancyTypeOK'
           /\ \A s \in Slugs, p \in Plans : AskPlan(r, s, p) => TenancyTypeOK'
<1>1. ASSUME NEW op \in {"settings", "tenant"}, NEW s \in Slugs, company[s] # NoCompany,
             Load(r, [op |-> op, slug |-> s, row |-> company[s]]), OnlyLoads
      PROVE  TenancyTypeOK'
  <2>1. company[s] \in CompanyRows
    BY <1>1 DEF TenancyTypeOK
  <2>2. [op |-> op, slug |-> s, row |-> company[s]] \in HandlerStates
    BY <2>1 DEF HandlerStates
  <2>. QED BY <1>1, <2>2, LoadType
<1>2. ASSUME NEW u \in Users, OpenSettings(r, u) PROVE TenancyTypeOK'
  <2>1. user[u].company \in Slugs
    BY <1>2, LiveUser DEF OpenSettings, Admitted
  <2>2. company[user[u].company] # NoCompany
    BY <1>2 DEF OpenSettings, Admitted, company_is_blocked, NoCompany
  <2>. QED BY <1>1, <1>2, <2>1, <2>2 DEF OpenSettings
<1>3. ASSUME NEW s \in Slugs, OpenTenant(r, s) PROVE TenancyTypeOK'
  BY <1>1, <1>3 DEF OpenTenant, Companies
<1>4. ASSUME NEW s \in Slugs, NEW p \in Plans, AskPlan(r, s, p) PROVE TenancyTypeOK'
  <2>1. [op |-> "plan", slug |-> s, plan |-> p] \in HandlerStates
    BY DEF HandlerStates
  <2>. QED BY <1>4, <2>1, LoadType DEF AskPlan
<1>. QED BY <1>2, <1>3, <1>4

LEMMA CompanyType ==
    ASSUME TenancyTypeOK, NEW s \in Slugs, NEW row \in CompanyRows, SaveCompany(s, row)
    PROVE  company' \in [Slugs -> CompanyRows \cup {NoCompany}]
BY DEF TenancyTypeOK, SaveCompany

\* Companies stay: what a request loaded of one is about a company that is there.
Founded == \A r \in Workers :
    handler[r].op \in {"grow", "settings", "tenant", "plan"} => handler[r].slug \in Companies

LEMMA SavedCompany ==
    ASSUME TenancyTypeOK, Founded, NEW r \in Workers,
           SaveSettings(r) \/ SaveTenant(r) \/ change_plan(r)
    PROVE  /\ handler[r].slug \in Slugs
           /\ \E row \in CompanyRows : SaveCompany(handler[r].slug, row)
<1> DEFINE h == handler[r]
<1>1. CASE SaveSettings(r)
  <2>1. h.slug \in Slugs /\ h.row \in CompanyRows
    BY <1>1, HandlerRows DEF SaveSettings
  <2>2. PICK a \in BOOLEAN : SaveCompany(h.slug, [h.row EXCEPT !.active = a])
    BY <1>1 DEF SaveSettings
  <2>3. [h.row EXCEPT !.active = a] \in CompanyRows
    BY <2>1 DEF CompanyRows
  <2>. QED BY <2>1, <2>2, <2>3
<1>2. CASE SaveTenant(r)
  <2>1. h.slug \in Slugs /\ h.row \in CompanyRows
    BY <1>2, HandlerRows DEF SaveTenant
  <2>2. PICK st \in Statuses, a \in BOOLEAN,
             p \in {None, h.row.plan} \cup {q \in Plans : plan[q].exists} :
                SaveCompany(h.slug, [status |-> st, active |-> a, plan |-> p])
    BY <1>2 DEF SaveTenant
  <2>3. [status |-> st, active |-> a, plan |-> p] \in CompanyRows
    BY <2>1, <2>2 DEF CompanyRows
  <2>. QED BY <2>1, <2>2, <2>3
<1>3. CASE change_plan(r)
  <2>1. h.slug \in Slugs /\ h.plan \in Plans
    BY <1>3, HandlerRows DEF change_plan
  <2>2. company[h.slug] \in CompanyRows
    BY <1>3, <2>1 DEF change_plan, Founded, Companies, TenancyTypeOK
  <2>3. [company[h.slug] EXCEPT !.plan = h.plan] \in CompanyRows
    BY <2>1, <2>2 DEF CompanyRows
  <2>. QED BY <1>3, <2>1, <2>3 DEF change_plan
<1>. QED BY <1>1, <1>2, <1>3

LEMMA SaveCompanyType ==
    ASSUME TenancyTypeOK, Founded, NEW r \in Workers,
           SaveSettings(r) \/ SaveTenant(r) \/ change_plan(r)
    PROVE  TenancyTypeOK'
<1>1. company' \in [Slugs -> CompanyRows \cup {NoCompany}]
  BY SavedCompany, CompanyType
<1>. QED BY <1>1, AnswerType DEF SaveSettings, SaveTenant, change_plan, TenancyTypeOK

LEMMA PlatformType ==
    ASSUME TenancyTypeOK, Founded, OperatorStep
    PROVE  TenancyTypeOK'
<1>1. ASSUME NEW s \in Slugs, NEW status \in {"suspended", "active"}, s \in Companies,
             company' = [company EXCEPT ![s].status = status]
      PROVE  company' \in [Slugs -> CompanyRows \cup {NoCompany}]
  <2>1. company[s] \in CompanyRows
    BY <1>1 DEF Companies, TenancyTypeOK
  <2>2. [company[s] EXCEPT !.status = status] \in CompanyRows
    BY <2>1, TenancyConstants DEF CompanyRows
  <2>. QED BY <1>1, <2>2 DEF TenancyTypeOK
<1>2. CASE \E s \in Slugs : suspend(s)
  BY <1>1, <1>2 DEF suspend, TenancyTypeOK
<1>3. CASE \E s \in Slugs : activate(s)
  BY <1>1, <1>3 DEF activate, TenancyTypeOK
<1>4. CASE \E p \in Plans, active \in BOOLEAN, cap \in Caps : WritePlan(p, active, cap)
  BY <1>4 DEF WritePlan, TenancyTypeOK, PlanRows
<1>5. CASE \E p \in Plans : DeletePlan(p)
  <2>1. NoPlan \in PlanRows
    BY TenancyConstants DEF NoPlan, PlanRows
  <2>. QED BY <1>5, <2>1 DEF DeletePlan, TenancyTypeOK
<1>6. CASE \E cap \in [Plans -> Caps] : seed_plans(cap)
  BY <1>6 DEF seed_plans, TenancyTypeOK, PlanRows
<1>7. CASE \E r \in Workers, s \in Slugs : OpenTenant(r, s)
  BY <1>7, OpenType
<1>8. CASE \E r \in Workers, s \in Slugs, p \in Plans : AskPlan(r, s, p)
  BY <1>8, OpenType
<1>. QED BY <1>2, <1>3, <1>4, <1>5, <1>6, <1>7, <1>8 DEF OperatorStep

LEMMA StaffType ==
    ASSUME TenancyTypeOK, NEW u \in Users, StaffStep(u)
    PROVE  TenancyTypeOK'
<1>1. CASE \E r \in Workers, res \in Resources : enforce_plan_limit(r, u, res)
  BY <1>1, GrowType
<1>2. CASE \/ \E k \in 0..MaxHeld : CloseBranch(u, k)
           \/ CloseWarehouse(u)
  BY <1>2, CloseType
<1>3. CASE \/ \E v \in Users : DeleteUser(u, v)
           \/ \E r \in Workers, v \in Users : OpenUser(r, u, v)
           \/ \E r \in Workers, old \in Secrets : OpenPassword(r, u, old)
  BY <1>3, DeleteUserType, UserType
<1>4. CASE \/ \E name \in Roles, codes \in Regrants : RegrantRole(u, name, codes)
           \/ \E name \in Roles : DeleteRole(u, name)
  BY <1>4, RoleType
<1>5. CASE \E r \in Workers : OpenSettings(r, u)
  BY <1>5, OpenType
<1>. QED BY <1>1, <1>2, <1>3, <1>4, <1>5 DEF StaffStep

LEMMA CommitType ==
    ASSUME TenancyTypeOK, Founded, CommitStep
    PROVE  TenancyTypeOK'
<1>1. CASE \/ \E r \in Workers, v \in Users : Invite(r, v)
           \/ \E r \in Workers : Establish(r)
  BY <1>1, GrowType
<1>2. CASE \/ \E r \in Workers : SaveUser(r)
           \/ \E r \in Workers, new \in Secrets : SavePassword(r, new)
  BY <1>2, UserType
<1>3. CASE \E r \in Workers : SaveSettings(r) \/ SaveTenant(r) \/ change_plan(r)
  BY <1>3, SaveCompanyType
<1>. QED BY <1>1, <1>2, <1>3 DEF CommitStep

LEMMA InitType == TenancyInit => TenancyTypeOK
BY TenancyConstants DEF TenancyInit, TenancyTypeOK, PlanRows, NoPlan, NoCodes, HandlerStates

----------------------------------------------------------------------------
(* What a step may change.                                                 *)

\* The steps that write users, and those that only load or write the rest.
LEMMA UserSteps ==
    ASSUME [TenancyNext]_tenancyVars
    PROVE  \/ UNCHANGED <<user, lastId>>
           \/ \E r \in Workers : Signup(r) /\ ~ Taken(handler[r])
           \/ \E r \in Workers, v \in Users : Invite(r, v)
           \/ \E u, v \in Users : DeleteUser(u, v)
           \/ \E r \in Workers : SaveUser(r)
           \/ \E r \in Workers, new \in Secrets : SavePassword(r, new)
           \/ \E u \in Users, name \in Roles : DeleteRole(u, name)
<1>1. CASE UNCHANGED tenancyVars
  BY <1>1 DEF tenancyVars
<1>2. CASE \E u \in Users : StaffStep(u)
  BY <1>2 DEF StaffStep, enforce_plan_limit, CloseBranch, CloseWarehouse, OpenUser, OpenPassword,
              RegrantRole, OpenSettings, OnlyLoads
<1>3. CASE OperatorStep \/ CheckStep
  BY <1>3 DEF OperatorStep, CheckStep, CheckSignup, OpenTenant, suspend, activate, AskPlan,
              WritePlan, DeletePlan, seed_plans, OnlyLoads
<1>4. CASE \E r \in Workers : Signup(r)
  BY <1>4 DEF Signup, OnlyLoads
<1>5. CASE CommitStep
  BY <1>5 DEF CommitStep, Establish, SaveSettings, SaveTenant, change_plan
<1>. QED BY <1>1, <1>2, <1>3, <1>4, <1>5 DEF TenancyNext

\* The steps that write roles.
LEMMA RoleSteps ==
    ASSUME [TenancyNext]_tenancyVars
    PROVE  \/ UNCHANGED role
           \/ \E r \in Workers : Signup(r) /\ ~ Taken(handler[r])
           \/ \E u \in Users, name \in Roles, codes \in Regrants : RegrantRole(u, name, codes)
           \/ \E u \in Users, name \in Roles : DeleteRole(u, name)
<1>1. CASE UNCHANGED tenancyVars
  BY <1>1 DEF tenancyVars
<1>2. CASE \E u \in Users : StaffStep(u)
  BY <1>2 DEF StaffStep, enforce_plan_limit, CloseBranch, CloseWarehouse, DeleteUser, OpenUser,
              OpenPassword, OpenSettings, OnlyLoads
<1>3. CASE OperatorStep \/ CheckStep
  BY <1>3 DEF OperatorStep, CheckStep, CheckSignup, OpenTenant, suspend, activate, AskPlan,
              WritePlan, DeletePlan, seed_plans, OnlyLoads
<1>4. CASE \E r \in Workers : Signup(r)
  BY <1>4 DEF Signup, OnlyLoads
<1>5. CASE CommitStep
  BY <1>5 DEF CommitStep, Invite, Establish, SaveUser, SavePassword, SaveSettings, SaveTenant,
              change_plan
<1>. QED BY <1>1, <1>2, <1>3, <1>4, <1>5 DEF TenancyNext

\* The steps that write companies.
LEMMA CompanySteps ==
    ASSUME [TenancyNext]_tenancyVars
    PROVE  \/ UNCHANGED company
           \/ \E r \in Workers : Signup(r) /\ ~ Taken(handler[r])
           \/ \E r \in Workers : SaveSettings(r) \/ SaveTenant(r) \/ change_plan(r)
           \/ \E s \in Slugs : suspend(s) \/ activate(s)
<1>1. CASE UNCHANGED tenancyVars
  BY <1>1 DEF tenancyVars
<1>2. CASE \E u \in Users : StaffStep(u)
  BY <1>2 DEF StaffStep, enforce_plan_limit, CloseBranch, CloseWarehouse, DeleteUser, OpenUser,
              OpenPassword, RegrantRole, DeleteRole, OpenSettings, OnlyLoads
<1>3. CASE OperatorStep \/ CheckStep
  BY <1>3 DEF OperatorStep, CheckStep, CheckSignup, OpenTenant, AskPlan,
              WritePlan, DeletePlan, seed_plans, OnlyLoads
<1>4. CASE \E r \in Workers : Signup(r)
  BY <1>4 DEF Signup, OnlyLoads
<1>5. CASE CommitStep
  BY <1>5 DEF CommitStep, Invite, Establish, SaveUser, SavePassword
<1>. QED BY <1>1, <1>2, <1>3, <1>4, <1>5 DEF TenancyNext

\* A step leaves every worker as it is, or one of them loads, or one answers.
Loads(r) ==
    \/ \E u \in Users, res \in Resources : enforce_plan_limit(r, u, res)
    \/ \E u, v \in Users : OpenUser(r, u, v)
    \/ \E u \in Users, old \in Secrets : OpenPassword(r, u, old)
    \/ \E u \in Users : OpenSettings(r, u)
    \/ \E s \in Slugs : OpenTenant(r, s)
    \/ \E s \in Slugs, p \in Plans : AskPlan(r, s, p)
    \/ \E name \in Names, u \in Users : CheckSignup(r, name, u)

LEMMA HandlerSteps ==
    ASSUME [TenancyNext]_tenancyVars
    PROVE  \/ UNCHANGED handler
           \/ \E r \in Workers : Loads(r)
           \/ \E r \in Workers : Answer(r) /\ handler[r].op # "idle"
<1>1. CASE UNCHANGED tenancyVars
  BY <1>1 DEF tenancyVars
<1>2. CASE \E u \in Users : StaffStep(u)
  BY <1>2 DEF StaffStep, Loads, CloseBranch, CloseWarehouse, DeleteUser, RegrantRole, DeleteRole
<1>3. CASE OperatorStep
  BY <1>3 DEF OperatorStep, Loads, suspend, activate, WritePlan, DeletePlan, seed_plans
<1>4. CASE CheckStep
  BY <1>4 DEF CheckStep, Loads
<1>5. CASE \E r \in Workers : Signup(r)
  BY <1>5 DEF Signup
<1>6. CASE CommitStep
  BY <1>6 DEF CommitStep, Invite, Establish, SaveUser, SavePassword, SaveSettings, SaveTenant,
              change_plan
<1>. QED BY <1>1, <1>2, <1>3, <1>4, <1>5, <1>6 DEF TenancyNext

LEMMA CompaniesStay ==
    ASSUME TenancyTypeOK, Founded, [TenancyNext]_tenancyVars, NEW s \in Companies
    PROVE  s \in Companies'
<1>. s \in Slugs /\ company[s] \in CompanyRows /\ company[s] # NoCompany
  BY DEF Companies, TenancyTypeOK
<1>. SUFFICES company'[s] # NoCompany
  BY DEF Companies
<1>1. CASE UNCHANGED company
  BY <1>1
<1>2. ASSUME NEW r \in Workers, Signup(r), ~ Taken(handler[r]) PROVE company'[s] # NoCompany
  BY <1>2 DEF Signup, Taken, TenancyTypeOK
<1>3. ASSUME NEW r \in Workers, SaveSettings(r) \/ SaveTenant(r) \/ change_plan(r)
      PROVE  company'[s] # NoCompany
  BY <1>3, SavedCompany, NullsDiffer DEF SaveCompany, TenancyTypeOK
<1>4. ASSUME NEW t \in Slugs, suspend(t) \/ activate(t) PROVE company'[s] # NoCompany
  <2>1. company'[s] = company[s] \/ company'[s].status \in {"suspended", "active"}
    BY <1>4 DEF suspend, activate, TenancyTypeOK, CompanyRows
  <2>. QED BY <2>1, TenancyConstants DEF NoCompany
<1>. QED BY <1>1, <1>2, <1>3, <1>4, CompanySteps

LEMMA FoundedStays ==
    ASSUME TenancyTypeOK, Founded, [TenancyNext]_tenancyVars
    PROVE  Founded'
<1>. SUFFICES ASSUME NEW q \in Workers, handler'[q].op \in {"grow", "settings", "tenant", "plan"}
              PROVE  handler'[q].slug \in Companies'
  BY DEF Founded
<1>1. CASE handler'[q] = handler[q]
  BY <1>1, CompaniesStay DEF Founded
<1>2. CASE handler'[q] # handler[q]
  <2>1. ASSUME NEW r \in Workers, Answer(r) PROVE FALSE
    BY <1>2, <2>1 DEF Answer, TenancyTypeOK, Idle
  <2>2. ASSUME NEW r \in Workers, Loads(r) PROVE handler'[q].slug \in Companies
    <3>1. r = q
      BY <1>2, <2>2 DEF Loads, enforce_plan_limit, OpenUser, OpenPassword, OpenSettings, OpenTenant,
                        AskPlan, CheckSignup, Load, TenancyTypeOK
    <3>2. CASE \E u \in Users, res \in Resources : enforce_plan_limit(r, u, res)
      BY <3>1, <3>2, LiveUser DEF enforce_plan_limit, Load, TenancyTypeOK, Admitted,
                                  company_is_blocked, Companies, NoCompany
    <3>3. CASE \E u \in Users : OpenSettings(r, u)
      BY <3>1, <3>3, LiveUser DEF OpenSettings, Load, TenancyTypeOK, Admitted,
                                  company_is_blocked, Companies, NoCompany
    <3>4. CASE \/ \E s \in Slugs : OpenTenant(r, s)
               \/ \E s \in Slugs, p \in Plans : AskPlan(r, s, p)
      BY <3>1, <3>4 DEF OpenTenant, AskPlan, Load, TenancyTypeOK
    <3>5. CASE \/ \E u, v \in Users : OpenUser(r, u, v)
               \/ \E u \in Users, old \in Secrets : OpenPassword(r, u, old)
               \/ \E name \in Names, u \in Users : CheckSignup(r, name, u)
      BY <3>1, <3>5 DEF OpenUser, OpenPassword, CheckSignup, Load, TenancyTypeOK
    <3>. QED BY <2>2, <3>2, <3>3, <3>4, <3>5 DEF Loads
  <2>. QED BY <1>2, <2>1, <2>2, HandlerSteps, CompaniesStay
<1>. QED BY <1>1, <1>2

LEMMA TenancyType ==
    ASSUME TenancyTypeOK, Founded, [TenancyNext]_tenancyVars PROVE TenancyTypeOK'
<1>1. CASE UNCHANGED tenancyVars
  BY <1>1 DEF tenancyVars, TenancyTypeOK
<1>2. CASE CheckStep
  BY <1>2, CheckSignupType DEF CheckStep
<1>. QED BY <1>1, <1>2, StaffType, PlatformType, SignupType, CommitType DEF TenancyNext

TypeInv == TenancyTypeOK /\ Founded

LEMMA InitTypeInv == TenancyInit => TypeInv
BY InitType DEF TypeInv, Founded, TenancyInit, Idle

LEMMA NextTypeInv == TypeInv /\ [TenancyNext]_tenancyVars => TypeInv'
BY TenancyType, FoundedStays DEF TypeInv

LEMMA AlwaysTypeInv == TenancySpec => []TypeInv
BY InitTypeInv, NextTypeInv, PTL DEF TenancySpec

\* Whatever is saved over it, every plan, company, role, user and request in
\* flight of Tenancy has the columns of its table.
THEOREM TenancyTypeCorrect == TenancySpec => []TenancyTypeOK
BY AlwaysTypeInv, PTL DEF TypeInv

----------------------------------------------------------------------------
(* Owners.  A role that is there has the codes it was seeded with or that  *)
(* somebody gave it, and nobody has a role that is not there.              *)

RolesKnown ==
    /\ \A s \in Slugs, n \in Roles :
          role[s][n].there => role[s][n].codes \in {SeededCodes(n)} \cup Regrants
    /\ \A u \in Users : user[u] # NoUser /\ user[u].role # NoRole => RoleOf(u).there

LEMMA InitRolesKnown == TenancyInit => RolesKnown
BY DEF TenancyInit, RolesKnown, NoCodes

LEMMA RoleIsThere ==
    ASSUME TenancyTypeOK, NEW x \in RolesThere
    PROVE  x[1] \in Slugs /\ x[2] \in Roles /\ x = <<x[1], x[2]>> /\ role[x[1]][x[2]].there
BY DEF RolesThere

LEMMA SignupKnowsRoles ==
    ASSUME TypeInv, RolesKnown, NEW r \in Workers, Signup(r), ~ Taken(handler[r])
    PROVE  RolesKnown'
<1> DEFINE h == handler[r]
<1>1. /\ h.slug \in Slugs /\ h.user \in Users
      /\ role' = [role EXCEPT ![h.slug] = seed_default_roles]
      /\ \E secret \in Secrets : user' = [user EXCEPT ![h.user] = OwnerRow(h.slug, secret)]
  BY HandlerRows DEF Signup, TypeInv
<1> HIDE DEF h
<1>2. \A s \in Slugs, n \in Roles :
         \/ role'[s][n] = role[s][n]
         \/ role'[s][n] = [there |-> TRUE, codes |-> SeededCodes(n)]
  BY <1>1 DEF seed_default_roles, TypeInv, TenancyTypeOK
<1>3. ASSUME NEW s \in Slugs, NEW n \in Roles, role[s][n].there PROVE role'[s][n].there
  <2>1. CASE role'[s][n] = role[s][n]
    BY <1>3, <2>1, Zenon
  <2>2. CASE role'[s][n] = [there |-> TRUE, codes |-> SeededCodes(n)]
    BY <2>2
  <2>. QED BY <1>2, <2>1, <2>2
<1>4. role'[h.slug]["Owner"].there
  <2>1. role'[h.slug] = seed_default_roles
    BY <1>1 DEF TypeInv, TenancyTypeOK
  <2>2. seed_default_roles["Owner"] = [there |-> TRUE, codes |-> SeededCodes("Owner")]
    BY TenancyConstants DEF seed_default_roles
  <2>. QED BY <2>1, <2>2
<1>5. ASSUME NEW u \in Users, user'[u] # NoUser, user'[u].role # NoRole
      PROVE  role'[user'[u].role[1]][user'[u].role[2]].there
  <2>1. CASE u = h.user
    <3>1. user'[u].role = <<h.slug, "Owner">>
      BY <1>1, <2>1 DEF OwnerRow, TypeInv, TenancyTypeOK
    <3>. QED BY <1>4, <3>1
  <2>2. CASE u # h.user
    <3>1. user'[u] = user[u]
      BY <1>1, <2>2 DEF TypeInv, TenancyTypeOK
    <3>2. user[u].role \in Slugs \X Roles
      BY <1>5, <3>1, LiveUser DEF TypeInv
    <3>. QED BY <1>3, <1>5, <3>1, <3>2 DEF RolesKnown, RoleOf
  <2>. QED BY <2>1, <2>2
<1>6. ASSUME NEW s \in Slugs, NEW n \in Roles, role'[s][n].there
      PROVE  role'[s][n].codes \in {SeededCodes(n)} \cup Regrants
  <2>1. CASE role'[s][n] = role[s][n]
    BY <1>6, <2>1 DEF RolesKnown
  <2>2. CASE role'[s][n] = [there |-> TRUE, codes |-> SeededCodes(n)]
    BY <2>2
  <2>. QED BY <1>2, <2>1, <2>2
<1>. QED BY <1>5, <1>6 DEF RolesKnown, RoleOf

\* The steps that write users only give them a role that is there, or none.
LEMMA GivenRoles ==
    ASSUME TypeInv, RolesKnown, UNCHANGED role,
           \A u \in Users : user'[u].role \in {user[u].role, NoRole} \cup RolesThere,
           \A u \in Users : user[u] = NoUser => user'[u].role \in {NoRole} \cup RolesThere
    PROVE  RolesKnown'
<1>1. ASSUME NEW u \in Users, user'[u] # NoUser, user'[u].role # NoRole
      PROVE  role[user'[u].role[1]][user'[u].role[2]].there
  <2>1. CASE user'[u].role \in RolesThere
    BY <2>1 DEF RolesThere
  <2>2. CASE user'[u].role \notin RolesThere
    BY <1>1, <2>2 DEF RolesKnown, RoleOf
  <2>. QED BY <2>1, <2>2
<1>. QED BY <1>1 DEF RolesKnown, RoleOf

LEMMA WritesKnowRoles ==
    ASSUME TypeInv, RolesKnown
    PROVE  /\ \A r \in Workers, v \in Users : Invite(r, v) => RolesKnown'
           /\ \A u, v \in Users : DeleteUser(u, v) => RolesKnown'
           /\ \A r \in Workers : SaveUser(r) => RolesKnown'
           /\ \A r \in Workers, new \in Secrets : SavePassword(r, new) => RolesKnown'
<1>1. ASSUME NEW r \in Workers, NEW v \in Users, Invite(r, v) PROVE RolesKnown'
  <2>1. /\ UNCHANGED role
        /\ \A u \in Users : \/ user'[u] = user[u]
                            \/ user'[u].role \in {NoRole} \cup RolesThere
    BY <1>1 DEF Invite, InvitedRow, TypeInv, TenancyTypeOK
  <2>. QED BY <2>1, GivenRoles DEF NoUser
<1>2. ASSUME NEW u \in Users, NEW v \in Users, DeleteUser(u, v) PROVE RolesKnown'
  <2>1. UNCHANGED role /\ \A w \in Users : user'[w] = user[w] \/ user'[w] = NoUser
    BY <1>2 DEF DeleteUser, TypeInv, TenancyTypeOK
  <2>. QED BY <2>1, GivenRoles DEF NoUser
<1>3. ASSUME NEW r \in Workers, SaveUser(r) PROVE RolesKnown'
  <2>1. handler[r].row \in UserRows /\ handler[r].user \in Users
    BY <1>3, HandlerRows DEF SaveUser, TypeInv
  <2>2. /\ UNCHANGED role
        /\ \A u \in Users : \/ user'[u] = user[u]
                            \/ user'[u].role \in {NoRole} \cup RolesThere
    <3>1. PICK a \in BOOLEAN, x \in RolesThere \cup {NoRole, handler[r].row.role} :
             LET row == [handler[r].row EXCEPT !.active = a, !.role = x]
             IN  user' = IF Storable(handler[r].user, row) THEN [user EXCEPT ![handler[r].user] = row]
                                                           ELSE user
      BY <1>3 DEF SaveUser
    <3>. DEFINE row == [handler[r].row EXCEPT !.active = a, !.role = x]
    <3>2. row.role = x
      BY <2>1 DEF UserRows
    <3>. HIDE DEF row
    <3>3. user' = IF Storable(handler[r].user, row) THEN [user EXCEPT ![handler[r].user] = row] ELSE user
      BY <3>1 DEF row
    <3>4. Storable(handler[r].user, row) => x \in {NoRole} \cup RolesThere
      BY <3>2 DEF Storable
    <3>. QED BY <1>3, <2>1, <3>2, <3>3, <3>4 DEF SaveUser, TypeInv, TenancyTypeOK
  <2>. QED BY <2>2, GivenRoles DEF NoUser
<1>4. ASSUME NEW r \in Workers, NEW new \in Secrets, SavePassword(r, new) PROVE RolesKnown'
  <2>1. handler[r].user \in Users /\ handler[r].id # 0
    BY <1>4, HandlerRows DEF SavePassword, TypeInv
  <2>2. UNCHANGED role /\ \A u \in Users : user'[u].role = user[u].role
    <3>1. \A u \in Users : user[u] = NoUser \/ user[u] \in UserRows
      BY DEF TypeInv, TenancyTypeOK
    <3>2. \A row \in UserRows \cup {NoUser} : [row EXCEPT !.secret = new].role = row.role
      BY DEF UserRows, NoUser
    <3>3. \/ user' = user
          \/ user' = [user EXCEPT ![handler[r].user] = [user[handler[r].user] EXCEPT !.secret = new]]
      BY <1>4, <2>1 DEF SavePassword, TypeInv, TenancyTypeOK
    <3>. QED BY <1>4, <2>1, <3>1, <3>2, <3>3 DEF SavePassword, TypeInv, TenancyTypeOK
  <2>. QED BY <2>2, GivenRoles DEF NoUser
<1>. QED BY <1>1, <1>2, <1>3, <1>4

LEMMA RoleWritesKnowRoles ==
    ASSUME TypeInv, RolesKnown, NEW u \in Users, NEW name \in Roles
    PROVE  /\ \A codes \in Regrants : RegrantRole(u, name, codes) => RolesKnown'
           /\ DeleteRole(u, name) => RolesKnown'
<1> DEFINE s == user[u].company
<1>1. ASSUME NEW codes \in Regrants, RegrantRole(u, name, codes) PROVE RolesKnown'
  <2>1. s \in Slugs
    BY <1>1, LiveUser DEF RegrantRole, Admitted, TypeInv
  <2>2. /\ UNCHANGED user
        /\ \A t \in Slugs, n \in Roles :
              /\ role'[t][n].there = role[t][n].there
              /\ role'[t][n].codes \in {role[t][n].codes, codes}
    BY <1>1, <2>1 DEF RegrantRole, TypeInv, TenancyTypeOK
  <2>3. \A v \in Users : user[v] # NoUser /\ user[v].role # NoRole => user[v].role \in Slugs \X Roles
    BY LiveUser DEF TypeInv
  <2>. QED BY <1>1, <2>2, <2>3 DEF RolesKnown, RoleOf
<1>2. ASSUME DeleteRole(u, name) PROVE RolesKnown'
  <2>1. s \in Slugs
    BY <1>2, LiveUser DEF DeleteRole, Admitted, TypeInv
  <2>2. \A t \in Slugs, n \in Roles :
           role'[t][n] = IF t = s /\ n = name THEN NoCodes ELSE role[t][n]
    BY <1>2, <2>1 DEF DeleteRole, TypeInv, TenancyTypeOK
  <2>3. ASSUME NEW v \in Users, user'[v] # NoUser, user'[v].role # NoRole
        PROVE  role'[user'[v].role[1]][user'[v].role[2]].there
    <3>1. user[v].role # <<s, name>> /\ user'[v] = user[v]
      <4>1. user'[v] = IF user[v].role = <<s, name>> THEN [user[v] EXCEPT !.role = NoRole] ELSE user[v]
        BY <1>2 DEF DeleteRole
      <4>2. CASE user[v].role = <<s, name>>
        <5>1. user[v] # NoUser
          BY <2>1, <4>2, NullsDiffer DEF NoUser
        <5>2. user'[v].role = NoRole
          BY <4>1, <4>2, <5>1, LiveUser DEF TypeInv, UserRows
        <5>. QED BY <2>3, <5>2
      <4>. QED BY <4>1, <4>2
    <3>2. user[v].role \in Slugs \X Roles /\ RoleOf(v).there
      BY <2>3, <3>1, LiveUser DEF TypeInv, RolesKnown
    <3>. QED BY <2>2, <3>1, <3>2 DEF RoleOf
  <2>4. \A t \in Slugs, n \in Roles : role'[t][n].there => role'[t][n] = role[t][n]
    BY <2>2 DEF NoCodes
  <2>. QED BY <2>3, <2>4 DEF RolesKnown, RoleOf
<1>. QED BY <1>1, <1>2

LEMMA NextRolesKnown ==
    ASSUME TypeInv, RolesKnown, [TenancyNext]_tenancyVars PROVE RolesKnown'
<1>1. CASE \/ \E r \in Workers : Signup(r) /\ ~ Taken(handler[r])
           \/ \E u \in Users, name \in Roles : DeleteRole(u, name)
  BY <1>1, SignupKnowsRoles, RoleWritesKnowRoles
<1>2. CASE \E u \in Users, name \in Roles, codes \in Regrants : RegrantRole(u, name, codes)
  BY <1>2, RoleWritesKnowRoles
<1>3. CASE UNCHANGED <<user, role>>
  BY <1>3 DEF RolesKnown, RoleOf
<1>4. CASE \/ \E r \in Workers, v \in Users : Invite(r, v)
           \/ \E u, v \in Users : DeleteUser(u, v)
           \/ \E r \in Workers : SaveUser(r)
           \/ \E r \in Workers, new \in Secrets : SavePassword(r, new)
  BY <1>4, WritesKnowRoles
<1>. QED BY <1>1, <1>2, <1>3, <1>4, UserSteps, RoleSteps, Zenon

\* The catalogue gives an owner every code there is.
LEMMA OwnerHoldsAll == SeededCodes("Owner") = all_permission_codes
<1>1. ROLE_TEMPLATES["Owner"] = {<<m, {"*"}>> : m \in Modules}
  BY Zenon DEF ROLE_TEMPLATES, RoleNames
<1>2. all_permission_codes \subseteq resolve_codes_for_role({<<m, {"*"}>> : m \in Modules})
  <2>1. ASSUME NEW m \in Modules, NEW a \in Actions
        PROVE  permission_code(m, a) \in resolve_codes_for_role({<<n, {"*"}>> : n \in Modules})
    <3> DEFINE template == {<<n, {"*"}>> : n \in Modules}
               Granted1(grant1) == {permission_code(grant1[1], b) :
                                   b \in IF grant1[2] = {"*"} THEN Actions ELSE grant1[2]}
    <3>1. <<m, {"*"}>> \in template
      OBVIOUS
    <3>2. permission_code(m, a) \in Granted1(<<m, {"*"}>>)
      OBVIOUS
    <3>3. resolve_codes_for_role(template) = UNION {Granted1(g) : g \in template}
      BY DEF resolve_codes_for_role
    <3>. HIDE DEF template, Granted1
    <3>4. \A x \in Granted1(<<m, {"*"}>>) : x \in UNION {Granted1(g) : g \in template}
      BY <3>1
    <3>. QED BY <3>2, <3>3, <3>4 DEF template
  <2>. QED BY <2>1 DEF all_permission_codes
<1>. QED BY <1>1, <1>2 DEF SeededCodes

\* Every guard asks for a code of the catalogue.
LEMMA GuardsInCatalogue ==
    ASSUME NEW g \in Guards
    PROVE  permission_code(g[1], CatalogAction(g[2], g[3], g[4])) \in all_permission_codes
BY DEF Guards, GuardedModules, MethodAction, Overrides, CatalogAction, all_permission_codes,
       permission_code, Modules, Actions

LEMMA OwnersPass ==
    ASSUME TypeInv, RolesKnown PROVE OwnerNeverLockedOut
<1>. SUFFICES ASSUME NEW u \in Users, UntouchedOwner(u), RoleOf(u).codes \notin Regrants,
                     NEW g \in Guards
              PROVE  Permitted(u, g[1], g[2], g[3], g[4])
  BY DEF OwnerNeverLockedOut
<1>1. user[u].role \in Slugs \X Roles /\ user[u].role[2] = "Owner" /\ RoleOf(u).there
  BY LiveUser DEF UntouchedOwner, TypeInv, RolesKnown
<1>2. RoleOf(u).codes = SeededCodes("Owner")
  BY <1>1 DEF RoleOf, RolesKnown
<1>3. permission_code(g[1], CatalogAction(g[2], g[3], g[4])) \in RoleOf(u).codes
  BY <1>2, OwnerHoldsAll, GuardsInCatalogue
<1>4. user[u].role # NoRole
  BY DEF UntouchedOwner
<1>. QED BY <1>3, <1>4, Zenon DEF Permitted, HasModulePermission

LEMMA AlwaysRolesKnown == TenancySpec => [](TypeInv /\ RolesKnown)
<1>1. TenancyInit => TypeInv /\ RolesKnown
  BY InitTypeInv, InitRolesKnown
<1>2. TypeInv /\ RolesKnown /\ [TenancyNext]_tenancyVars => (TypeInv /\ RolesKnown)'
  BY NextTypeInv, NextRolesKnown
<1>. QED BY <1>1, <1>2, PTL DEF TenancySpec

\* Whoever has the Owner role as sign-up seeded it passes every guard of the
\* API: of however many companies, after any saves, deletions and grants of
\* other roles (HasModulePermission against the catalogue).
THEOREM OwnersAlwaysPass == TenancySpec => []OwnerNeverLockedOut
<1>1. TypeInv /\ RolesKnown => OwnerNeverLockedOut
  BY OwnersPass
<1>. QED BY <1>1, AlwaysRolesKnown, PTL

----------------------------------------------------------------------------
(* Sessions puts doors before Tenancy: a step of it is a step of Tenancy   *)
(* that the door let through, or leaves Tenancy alone.                     *)

\* What each kind of step of Sessions does to Tenancy and to the doors.
LEMMA SessionsSteps ==
    ASSUME [SessionsNext]_allVars
    PROVE  \/ UNCHANGED allVars
           \/ [TenancyNext]_tenancyVars /\ UNCHANGED sessionVars
           \/ /\ [TenancyNext]_tenancyVars /\ jwt' \subseteq jwt \cup Pair(lastId')
              /\ UNCHANGED <<sockets, account, lastAccount, pass, grant>>
           \/ UNCHANGED tenancyVars /\ (StaffDoor \/ PortalDoor)
<1>1. CASE UNCHANGED allVars
  BY <1>1
<1>2. CASE \E u \in Users : Api(u)
  BY <1>2 DEF Api, TenancyNext
<1>3. CASE Behind(OperatorStep) \/ Behind(CheckStep) \/ Behind(CommitStep)
  BY <1>3 DEF Behind, TenancyNext
<1>4. CASE \E r \in Workers : SignupAnswer(r)
  BY <1>4 DEF SignupAnswer, TenancyNext
<1>5. CASE StaffDoor
  BY <1>5 DEF StaffDoor, Login, Refresh, ExpireToken, ConnectSocket, Disconnect
<1>6. CASE PortalDoor
  BY <1>6 DEF PortalDoor, grant_portal_access, SetPortalPassword, GrantDies, revoke_portal_access,
              PortalLogin, ExpirePass
<1>. QED BY <1>1, <1>2, <1>3, <1>4, <1>5, <1>6 DEF SessionsNext

\* The doors take nothing away from what Tenancy promises: behind them, it
\* behaves as it would alone.
THEOREM DoorsOnlyRestrict == SessionsSpec => TenancySpec
<1>1. SessionsInit => TenancyInit
  BY DEF SessionsInit
<1>2. [SessionsNext]_allVars => [TenancyNext]_tenancyVars
  BY SessionsSteps DEF allVars
<1>. QED BY <1>1, <1>2, PTL DEF SessionsSpec, TenancySpec

----------------------------------------------------------------------------
(* Primary keys.  An id names one user, even while a worker holds a copy   *)
(* of a row that has been deleted since; portal accounts likewise.         *)

Bears(u, id) == \/ user[u] # NoUser /\ user[u].id = id
                \/ \E r \in Workers : /\ handler[r].op = "user" /\ handler[r].user = u
                                      /\ handler[r].row.id = id

UserIds ==
    /\ \A u \in Users, id \in Nat : Bears(u, id) => id <= lastId
    /\ \A u, v \in Users, id \in Nat : Bears(u, id) /\ Bears(v, id) => u = v

LEMMA InitUserIds == TenancyInit => UserIds
BY DEF TenancyInit, UserIds, Bears, Idle

\* One user at most gets an id that nobody had, the next one.
Named(w) ==
    /\ lastId' \in {lastId, lastId + 1}
    /\ \A u \in Users, id \in Nat :
          Bears(u, id)' => Bears(u, id) \/ (u = w /\ id = lastId + 1 /\ lastId' = lastId + 1)

LEMMA NamedKeepsIds ==
    ASSUME TypeInv, UserIds, NEW w, Named(w) PROVE UserIds'
<1>1. lastId \in Nat
  BY DEF TypeInv, TenancyTypeOK
<1>2. ASSUME NEW u \in Users, NEW id \in Nat, Bears(u, id)' PROVE id <= lastId'
  BY <1>1, <1>2 DEF UserIds, Named
<1>3. ASSUME NEW u \in Users, NEW v \in Users, NEW id \in Nat, Bears(u, id)', Bears(v, id)'
      PROVE  u = v
  BY <1>1, <1>3 DEF UserIds, Named
<1>. QED BY <1>2, <1>3 DEF UserIds

\* What workers hold after a step they held before, or it is a user's row.
LEMMA HeldRows ==
    ASSUME TypeInv, [TenancyNext]_tenancyVars, NEW r \in Workers, handler'[r].op = "user"
    PROVE  \/ handler[r] = handler'[r]
           \/ /\ handler'[r].user \in Users /\ user[handler'[r].user] # NoUser
              /\ handler'[r].row = user[handler'[r].user] /\ UNCHANGED <<user, lastId>>
<1>1. CASE UNCHANGED handler
  BY <1>1
<1>2. ASSUME NEW q \in Workers, Answer(q) PROVE handler[r] = handler'[r]
  BY <1>2 DEF Answer, TypeInv, TenancyTypeOK, Idle
<1>3. ASSUME NEW q \in Workers, \E u, v \in Users : OpenUser(q, u, v), handler[r] # handler'[r]
      PROVE  /\ handler'[r].user \in Users /\ user[handler'[r].user] # NoUser
             /\ handler'[r].row = user[handler'[r].user] /\ UNCHANGED <<user, lastId>>
  BY <1>3 DEF OpenUser, Load, OnlyLoads, Staff, TypeInv, TenancyTypeOK
<1>4. ASSUME NEW q \in Workers, Loads(q), ~ \E u, v \in Users : OpenUser(q, u, v)
      PROVE  handler[r] = handler'[r]
  BY <1>4 DEF Loads, enforce_plan_limit, OpenPassword, OpenSettings, OpenTenant, AskPlan,
              CheckSignup, Load, TypeInv, TenancyTypeOK
<1>. QED BY <1>1, <1>2, <1>3, <1>4, HandlerSteps

\* The rows that a step writes: the same users' rows, or one new user.
Wrote(w) ==
    /\ lastId' \in {lastId, lastId + 1}
    /\ \A u \in Users : user'[u] # NoUser =>
          \/ Bears(u, user'[u].id)
          \/ u = w /\ user'[u].id = lastId + 1 /\ lastId' = lastId + 1

LEMMA LiveBears == \A u \in Users : user[u] # NoUser => Bears(u, user[u].id)
BY DEF Bears

LEMMA WrittenIds ==
    ASSUME TypeInv, [TenancyNext]_tenancyVars PROVE \E w : Wrote(w)
<1>1. CASE UNCHANGED <<user, lastId>>
  BY <1>1 DEF Wrote, Bears
<1>2. ASSUME NEW r \in Workers, Signup(r), ~ Taken(handler[r]) PROVE Wrote(handler[r].user)
  <2>1. handler[r].user \in Users
    BY <1>2, HandlerRows DEF Signup, TypeInv
  <2>2. PICK secret \in Secrets :
           user' = [user EXCEPT ![handler[r].user] = OwnerRow(handler[r].slug, secret)]
    BY <1>2 DEF Signup
  <2>3. lastId' = lastId + 1
    BY <1>2 DEF Signup
  <2>. QED BY <2>1, <2>2, <2>3 DEF Wrote, Bears, OwnerRow, TypeInv, TenancyTypeOK
<1>3. ASSUME NEW r \in Workers, NEW v \in Users, Invite(r, v) PROVE Wrote(v)
  <2>1. CASE UNCHANGED <<user, lastId>>
    BY <2>1 DEF Wrote, Bears
  <2>2. CASE ~ UNCHANGED <<user, lastId>>
    <3>1. PICK x \in RolesThere \cup {NoRole}, secret \in Secrets :
             user' = [user EXCEPT ![v] = InvitedRow(handler[r].slug, x, secret)]
      BY <1>3, <2>2 DEF Invite
    <3>2. lastId' = lastId + 1
      BY <1>3, <2>2 DEF Invite
    <3>. QED BY <3>1, <3>2 DEF Wrote, Bears, InvitedRow, TypeInv, TenancyTypeOK
  <2>. QED BY <2>1, <2>2
<1>4. ASSUME NEW u \in Users, NEW v \in Users, DeleteUser(u, v) PROVE Wrote(v)
  BY <1>4 DEF Wrote, Bears, DeleteUser, TypeInv, TenancyTypeOK
<1>5. ASSUME NEW r \in Workers, SaveUser(r) PROVE Wrote(None)
  <2>1. handler[r].row \in UserRows /\ handler[r].user \in Users
    BY <1>5, HandlerRows DEF SaveUser, TypeInv
  <2>2. PICK a \in BOOLEAN, x \in RolesThere \cup {NoRole, handler[r].row.role} :
           LET row == [handler[r].row EXCEPT !.active = a, !.role = x]
           IN  user' = IF Storable(handler[r].user, row) THEN [user EXCEPT ![handler[r].user] = row]
                                                         ELSE user
    BY <1>5 DEF SaveUser
  <2>3. [handler[r].row EXCEPT !.active = a, !.role = x].id = handler[r].row.id
    BY <2>1 DEF UserRows
  <2>. DEFINE row == [handler[r].row EXCEPT !.active = a, !.role = x]
  <2>4. row.id = handler[r].row.id /\ (user' = user \/ user' = [user EXCEPT ![handler[r].user] = row])
    BY <2>2, <2>3
  <2>. HIDE DEF row
  <2>5. handler[r].op = "user" /\ UNCHANGED lastId
    BY <1>5 DEF SaveUser
  <2>6. Bears(handler[r].user, row.id)
    BY <2>4, <2>5 DEF Bears
  <2>7. \A u \in Users : user'[u] = user[u] \/ (u = handler[r].user /\ user'[u] = row)
    <3>1. user \in [Users -> UserRows \cup {NoUser}]
      BY DEF TypeInv, TenancyTypeOK
    <3>2. CASE user' = user
      BY <3>2
    <3>3. CASE user' = [user EXCEPT ![handler[r].user] = row]
      BY <2>1, <3>1, <3>3
    <3>. QED BY <2>4, <3>2, <3>3
  <2>. QED BY <2>5, <2>6, <2>7, LiveBears DEF Wrote
<1>6. ASSUME NEW r \in Workers, NEW new \in Secrets, SavePassword(r, new) PROVE Wrote(None)
  <2>1. handler[r].user \in Users /\ handler[r].id # 0
    BY <1>6, HandlerRows DEF SavePassword, TypeInv
  <2>2. CASE UNCHANGED user
    BY <1>6, <2>2 DEF SavePassword, Wrote, Bears
  <2>3. CASE user[handler[r].user].id = handler[r].id
    <3>1. user[handler[r].user] \in UserRows /\ user[handler[r].user] # NoUser
      BY <2>1, <2>3 DEF TypeInv, TenancyTypeOK, NoUser
    <3>2. [user[handler[r].user] EXCEPT !.secret = new].id = user[handler[r].user].id
      BY <3>1 DEF UserRows
    <3>3. user' = [user EXCEPT ![handler[r].user] = [user[handler[r].user] EXCEPT !.secret = new]]
      BY <1>6, <2>1, <2>3 DEF SavePassword, TypeInv, TenancyTypeOK
    <3>4. UNCHANGED lastId
      BY <1>6 DEF SavePassword
    <3>5. \A u \in Users : /\ user'[u].id = user[u].id
                           /\ user'[u] # NoUser => user[u] # NoUser
      BY <2>1, <3>1, <3>2, <3>3 DEF TypeInv, TenancyTypeOK
    <3>. QED BY <3>4, <3>5, LiveBears DEF Wrote
  <2>. QED BY <1>6, <2>2, <2>3 DEF SavePassword
<1>7. ASSUME NEW u \in Users, NEW name \in Roles, DeleteRole(u, name) PROVE Wrote(None)
  <2>1. \A v \in Users : user'[v] = user[v] \/ user'[v] = [user[v] EXCEPT !.role = NoRole]
    BY <1>7 DEF DeleteRole
  <2>2. \A v \in Users : [user[v] EXCEPT !.role = NoRole].id = user[v].id
    BY DEF TypeInv, TenancyTypeOK, UserRows, NoUser
  <2>3. UNCHANGED lastId /\ \A v \in Users : user'[v].id = user[v].id
    BY <1>7, <2>1, <2>2 DEF DeleteRole
  <2>4. \A v \in Users : user'[v] # NoUser => user[v] # NoUser
    <3>1. ASSUME NEW v \in Users, user[v] = NoUser PROVE user'[v] = NoUser
      <4>1. user'[v].id = 0
        BY <2>3, <3>1 DEF NoUser
      <4>2. user'[v] \in UserRows \cup {NoUser}
        BY NextTypeInv DEF TypeInv, TenancyTypeOK
      <4>. QED BY <4>1, <4>2 DEF UserRows
    <3>. QED BY <3>1
  <2>. QED BY <2>3, <2>4 DEF Wrote, Bears
<1>. QED BY <1>1, <1>2, <1>3, <1>4, <1>5, <1>6, <1>7, UserSteps, Zenon

LEMMA NextUserIds ==
    ASSUME TypeInv, UserIds, [TenancyNext]_tenancyVars PROVE UserIds'
<1>1. PICK w : Wrote(w)
  BY WrittenIds
<1>2. ASSUME NEW u \in Users, NEW id \in Nat, Bears(u, id)'
      PROVE  Bears(u, id) \/ (u = w /\ id = lastId + 1 /\ lastId' = lastId + 1)
  <2>1. CASE user'[u] # NoUser /\ user'[u].id = id
    BY <1>1, <2>1 DEF Wrote
  <2>2. ASSUME NEW r \in Workers, handler'[r].op = "user", handler'[r].user = u,
               handler'[r].row.id = id
        PROVE  Bears(u, id)
    BY <2>2, HeldRows DEF Bears
  <2>. QED BY <1>2, <2>1, <2>2 DEF Bears
<1>3. Named(w)
  BY <1>1, <1>2 DEF Named, Wrote
<1>. QED BY <1>3, NamedKeepsIds

Accounts == [id : Nat, email : Emails \cup {None}, secret : Secrets \cup {None}]
Live(o) == account[o] # NoAccount

AccountIds ==
    /\ SessionsTypeOK
    /\ \A o \in Owners : Live(o) => account[o].id \in 1..lastAccount /\ account[o].email \in Emails
    /\ \A o, p \in Owners : Live(o) /\ Live(p) /\ account[o].id = account[p].id => o = p
    /\ pass \subseteq 1..lastAccount
    /\ grant # NoGrant => grant.id \in 1..lastAccount

LEMMA InitAccountIds == SessionsInit => AccountIds
BY DEF SessionsInit, AccountIds, SessionsTypeOK, Live, NoAccount

LEMMA GrantTypes ==
    ASSUME SessionsTypeOK, grant # NoGrant
    PROVE  grant.owner \in Owners /\ grant.id \in Nat /\ grant.secret \in Secrets
BY DEF SessionsTypeOK

LEMMA GrantIds ==
    ASSUME AccountIds, TypeInv, NEW u \in Users, NEW o \in Owners, NEW e \in Emails, NEW secret \in Secrets,
           grant_portal_access(u, o, e, secret)
    PROVE  /\ AccountIds'
           /\ \A p \in Owners \ {o} : account'[p] = account[p]
           /\ Live(o) => account'[o].id = account[o].id
           /\ ~ Live(o) => account'[o].id = lastAccount + 1
           /\ lastAccount' \in Nat /\ lastAccount' >= lastAccount
           /\ account'[o] \in Accounts /\ account'[o].email = e /\ grant'.id = account'[o].id
           /\ UNCHANGED <<pass, jwt, sockets, tenancyVars>>
<1> DEFINE row == AccountRow(o, e)
<1>1. /\ account' = [account EXCEPT ![o] = row] /\ account \in [Owners -> Accounts]
      /\ lastAccount' = (IF account[o] = NoAccount THEN lastAccount + 1 ELSE lastAccount)
      /\ lastAccount \in Nat
      /\ grant' = [owner |-> o, id |-> row.id, secret |-> secret]
      /\ UNCHANGED <<pass, jwt, sockets, tenancyVars>>
  BY DEF grant_portal_access, AccountIds, SessionsTypeOK, Accounts
<1>2. /\ row \in Accounts /\ row.email = e
      /\ Live(o) => row.id = account[o].id
      /\ ~ Live(o) => row.id = lastAccount + 1
  BY <1>1 DEF AccountRow, Live, Accounts
<1> HIDE DEF row
<1>3. account'[o] = row /\ \A p \in Owners \ {o} : account'[p] = account[p]
  BY <1>1
<1>4. lastAccount' \in Nat /\ lastAccount' >= lastAccount /\ row.id \in 1..lastAccount'
  BY <1>1, <1>2 DEF Live, AccountIds
<1>5. account' \in [Owners -> Accounts]
  BY <1>1, <1>2
<1>6. grant' \in [owner : Owners, id : Nat, secret : Secrets]
  BY <1>1, <1>2 DEF Accounts
<1>7. SessionsTypeOK'
  BY <1>1, <1>4, <1>5, <1>6 DEF SessionsTypeOK, AccountIds, Accounts
<1>8. ASSUME NEW p \in Owners, Live(p)' PROVE account'[p].id \in 1..lastAccount' /\ account'[p].email \in Emails
  BY <1>1, <1>2, <1>3, <1>4, <1>8 DEF AccountIds, Live
<1>9. ASSUME NEW p \in Owners, NEW q \in Owners, Live(p)', Live(q)', account'[p].id = account'[q].id
      PROVE  p = q
  BY <1>1, <1>2, <1>3, <1>4, <1>9 DEF AccountIds, Live
<1>10. pass' \subseteq 1..lastAccount'
  BY <1>1, <1>4 DEF AccountIds
<1>11. grant'.id = account'[o].id /\ grant'.id \in 1..lastAccount'
  BY <1>1, <1>3, <1>4
<1>12. AccountIds'
  BY <1>7, <1>8, <1>9, <1>10, <1>11 DEF AccountIds, Live
<1>. QED BY <1>1, <1>2, <1>3, <1>4, <1>11, <1>12

LEMMA PortalIds ==
    ASSUME AccountIds, TypeInv, PortalDoor PROVE AccountIds'
<1>1. ASSUME NEW u \in Users, NEW o \in Owners, NEW e \in Emails, NEW secret \in Secrets,
             grant_portal_access(u, o, e, secret)
      PROVE  AccountIds'
  BY <1>1, GrantIds
<1>2. CASE SetPortalPassword
  <2>1. /\ grant # NoGrant /\ grant' = NoGrant /\ UNCHANGED <<jwt, sockets, lastAccount, pass>>
        /\ grant.owner \in Owners /\ grant.secret \in Secrets
    BY <1>2, GrantTypes DEF SetPortalPassword, AccountIds
  <2>2. CASE UNCHANGED account
    BY <2>1, <2>2 DEF AccountIds, SessionsTypeOK, Live
  <2>3. CASE account[grant.owner].id = grant.id
    <3>1. /\ Live(grant.owner) /\ account \in [Owners -> Accounts]
          /\ account' = [account EXCEPT ![grant.owner] = [account[grant.owner] EXCEPT !.secret = grant.secret]]
      BY <1>2, <2>1, <2>3 DEF SetPortalPassword, AccountIds, Live, NoAccount, SessionsTypeOK, Accounts
    <3>2. /\ [account[grant.owner] EXCEPT !.secret = grant.secret] \in Accounts
          /\ [account[grant.owner] EXCEPT !.secret = grant.secret].id = account[grant.owner].id
          /\ [account[grant.owner] EXCEPT !.secret = grant.secret].email = account[grant.owner].email
      BY <2>1, <3>1 DEF Accounts
    <3>3. account' \in [Owners -> Accounts]
      BY <2>1, <3>1, <3>2
    <3>4. \A p \in Owners : /\ account'[p].id = account[p].id /\ account'[p].email = account[p].email
                            /\ Live(p)' => Live(p)
      BY <2>1, <3>1, <3>2 DEF Live
    <3>. QED BY <2>1, <3>3, <3>4 DEF AccountIds, SessionsTypeOK, Live, Accounts
  <2>. QED BY <1>2, <2>2, <2>3 DEF SetPortalPassword
<1>3. CASE GrantDies
  BY <1>3 DEF GrantDies, AccountIds, SessionsTypeOK, Live
<1>4. ASSUME NEW u \in Users, NEW o \in Owners, revoke_portal_access(u, o) PROVE AccountIds'
  <2>1. account' = [account EXCEPT ![o] = NoAccount] /\ UNCHANGED <<jwt, sockets, lastAccount, pass, grant>>
    BY <1>4 DEF revoke_portal_access
  <2>2. account' \in [Owners -> Accounts]
    BY <2>1 DEF AccountIds, SessionsTypeOK, Accounts, NoAccount
  <2>3. \A p \in Owners : Live(p)' => account'[p] = account[p] /\ Live(p)
    BY <2>1 DEF AccountIds, SessionsTypeOK, Live
  <2>. QED BY <2>1, <2>2, <2>3 DEF AccountIds, SessionsTypeOK, Live, Accounts
<1>5. ASSUME NEW e \in Emails, NEW secret \in Secrets, NEW o \in Owners, PortalLogin(e, secret, o)
      PROVE  AccountIds'
  <2>1. Live(o)
    BY <1>5 DEF PortalLogin, PortalOpensTo, AccountsAt, Live
  <2>. QED BY <1>5, <2>1 DEF PortalLogin, AccountIds, SessionsTypeOK, Live
<1>6. ASSUME NEW id \in 1..MaxAccounts, ExpirePass(id) PROVE AccountIds'
  BY <1>6 DEF ExpirePass, AccountIds, SessionsTypeOK, Live
<1>. QED BY <1>1, <1>2, <1>3, <1>4, <1>5, <1>6 DEF PortalDoor

LEMMA StaffDoorIds ==
    ASSUME AccountIds, TypeInv, StaffDoor PROVE AccountIds'
<1>1. ASSUME NEW u \in Users, user[u] # NoUser PROVE user[u].id \in Nat
  BY <1>1, LiveUser DEF TypeInv
<1>2. \A id \in Nat : Pair(id) \subseteq [kind : {"access", "refresh"}, id : Nat]
  BY DEF Pair
<1>3. \A id \in 1..MaxIds : id \in Nat
  OBVIOUS
<1>4. UNCHANGED <<account, lastAccount, pass, grant>>
  BY DEF StaffDoor, Login, Refresh, ExpireToken, ConnectSocket, Disconnect
<1>5. jwt' \subseteq [kind : {"access", "refresh"}, id : Nat]
  BY <1>1, <1>2, <1>3 DEF StaffDoor, Login, Admitted, Refresh, ExpireToken, ConnectSocket, Disconnect,
                          AccountIds, SessionsTypeOK
<1>6. sockets' \subseteq Nat
  BY <1>1 DEF StaffDoor, Login, Refresh, ExpireToken, ConnectSocket, Disconnect,
              AccountIds, SessionsTypeOK
<1>. QED BY <1>4, <1>5, <1>6 DEF AccountIds, SessionsTypeOK, Live

IdInv == TypeInv /\ UserIds /\ AccountIds

LEMMA InitIdInv == SessionsInit => IdInv
BY InitTypeInv, InitUserIds, InitAccountIds DEF IdInv, SessionsInit

LEMMA NextIdInv == IdInv /\ [SessionsNext]_allVars => IdInv'
<1>. SUFFICES ASSUME IdInv, [SessionsNext]_allVars PROVE IdInv'
  OBVIOUS
<1>1. [TenancyNext]_tenancyVars
  BY SessionsSteps DEF allVars
<1>2. TypeInv' /\ UserIds'
  BY <1>1, NextTypeInv, NextUserIds DEF IdInv
<1>3. AccountIds'
  <2>1. CASE UNCHANGED allVars \/ UNCHANGED sessionVars
    BY <2>1 DEF allVars, sessionVars, IdInv, AccountIds, SessionsTypeOK, Live
  <2>2. CASE /\ jwt' \subseteq jwt \cup Pair(lastId')
             /\ UNCHANGED <<sockets, account, lastAccount, pass, grant>>
    <3>1. Pair(lastId') \subseteq [kind : {"access", "refresh"}, id : Nat]
      BY <1>2 DEF Pair, TypeInv, TenancyTypeOK
    <3>. QED BY <2>2, <3>1 DEF IdInv, AccountIds, SessionsTypeOK, Live
  <2>3. CASE StaffDoor \/ PortalDoor
    BY <2>3, StaffDoorIds, PortalIds DEF IdInv
  <2>. QED BY <2>1, <2>2, <2>3, SessionsSteps
<1>. QED BY <1>2, <1>3 DEF IdInv

LEMMA AlwaysIdInv == SessionsSpec => []IdInv
BY InitIdInv, NextIdInv, PTL DEF SessionsSpec

\* The tokens, sockets, portal accounts and the grant under way have the
\* columns of their tables.
THEOREM SessionsTypeCorrect == SessionsSpec => []SessionsTypeOK
<1>1. IdInv => SessionsTypeOK
  BY DEF IdInv, AccountIds
<1>. QED BY <1>1, AlwaysIdInv, PTL

----------------------------------------------------------------------------
(* Nobody enters a blocked company.                                        *)

\* Each of the four doors looks at the company of whoever comes.
LEMMA BarredRequests ==
    ASSUME IdInv, [SessionsNext]_allVars, NEW s \in Companies, company_is_blocked(s),
           NEW r \in Workers, handler[r] = Idle
    PROVE  /\ ~ (handler'[r].op \in {"grow", "settings"} /\ handler'[r].slug = s)
           /\ ~ (handler'[r].op \in {"user", "password"} /\ user[handler'[r].user].company = s)
<1> DEFINE Opened == \/ handler'[r].op \in {"grow", "settings"} /\ handler'[r].slug = s
                     \/ handler'[r].op \in {"user", "password"} /\ user[handler'[r].user].company = s
<1>. SUFFICES ASSUME Opened PROVE FALSE
  OBVIOUS
<1>1. [TenancyNext]_tenancyVars
  BY SessionsSteps DEF allVars
<1>2. handler'[r] # handler[r]
  BY DEF Idle
<1>3. PICK q \in Workers : Loads(q)
  BY <1>1, <1>2, HandlerSteps DEF Answer, IdInv, TypeInv, TenancyTypeOK, Idle
<1>4. q = r
  BY <1>2, <1>3 DEF Loads, enforce_plan_limit, OpenUser, OpenPassword, OpenSettings, OpenTenant,
                    AskPlan, CheckSignup, Load, IdInv, TypeInv, TenancyTypeOK
<1>5. CASE \/ \E u \in Users, res \in Resources : enforce_plan_limit(r, u, res)
           \/ \E u \in Users : OpenSettings(r, u)
  BY <1>5 DEF enforce_plan_limit, OpenSettings, Admitted, Load, IdInv, TypeInv, TenancyTypeOK
<1>6. CASE \/ \E u, v \in Users : OpenUser(r, u, v)
           \/ \E u \in Users, old \in Secrets : OpenPassword(r, u, old)
  BY <1>6 DEF OpenUser, OpenPassword, Admitted, Staff, Load, IdInv, TypeInv, TenancyTypeOK
<1>7. CASE \/ \E t \in Slugs : OpenTenant(r, t)
           \/ \E t \in Slugs, p \in Plans : AskPlan(r, t, p)
           \/ \E name \in Names, u \in Users : CheckSignup(r, name, u)
  BY <1>7 DEF OpenTenant, AskPlan, CheckSignup, Load, IdInv, TypeInv, TenancyTypeOK
<1>. QED BY <1>3, <1>4, <1>5, <1>6, <1>7 DEF Loads

LEMMA BarredSockets ==
    ASSUME IdInv, [SessionsNext]_allVars, NEW s \in Companies, company_is_blocked(s),
           NEW u \in Users, user[u].company = s
    PROVE  user[u].id \notin sockets' \ sockets
<1>. SUFFICES ASSUME user[u].id \in sockets' \ sockets PROVE FALSE
  OBVIOUS
<1>1. PICK v \in Users : ConnectSocket(v)
  BY SessionsSteps DEF allVars, sessionVars, StaffDoor, PortalDoor, Login, Refresh, ExpireToken,
        Disconnect, grant_portal_access, SetPortalPassword, GrantDies, revoke_portal_access,
        PortalLogin, ExpirePass
<1>2. user[u] # NoUser /\ user[v] # NoUser /\ user[u].id = user[v].id
  BY <1>1, NullsDiffer DEF ConnectSocket, NoUser, Companies
<1>3. u = v
  BY <1>2, LiveUser, LiveBears DEF IdInv, UserIds, TypeInv
<1>. QED BY <1>1, <1>3 DEF ConnectSocket

LEMMA BarredPasses ==
    ASSUME IdInv, [SessionsNext]_allVars, NEW s \in Companies, company_is_blocked(s),
           NEW o \in Owners, EmployerOf[o] = s
    PROVE  account[o].id \notin pass' \ pass
<1>. SUFFICES ASSUME account[o].id \in pass' \ pass PROVE FALSE
  OBVIOUS
<1>1. PICK e \in Emails, secret \in Secrets, p \in Owners : PortalLogin(e, secret, p)
  BY SessionsSteps DEF allVars, sessionVars, StaffDoor, PortalDoor, Login, Refresh, ExpireToken,
        ConnectSocket, Disconnect, grant_portal_access, SetPortalPassword, GrantDies,
        revoke_portal_access, ExpirePass
<1>2. Live(p) /\ account[o].id = account[p].id
  BY <1>1 DEF PortalLogin, PortalOpensTo, AccountsAt, Live
<1>3. Live(o)
  BY <1>2 DEF IdInv, AccountIds, Live, NoAccount
<1>4. o = p
  BY <1>2, <1>3 DEF IdInv, AccountIds
<1>. QED BY <1>1, <1>4 DEF PortalLogin, PortalOpensTo

\* Nothing but the portal's doors touches accounts and portal tokens.
LEMMA AccountSteps ==
    ASSUME [SessionsNext]_allVars
    PROVE  UNCHANGED <<account, lastAccount, pass, grant>> \/ PortalDoor
BY SessionsSteps DEF allVars, sessionVars, StaffDoor, Login, Refresh, ExpireToken, ConnectSocket,
                     Disconnect

\* A sign-up hands its tokens to a user nobody has heard of.
LEMMA BarredLogins ==
    ASSUME IdInv, [SessionsNext]_allVars, NEW s \in Companies, company_is_blocked(s),
           NEW u \in Staff(s)
    PROVE  ~ LogsIn(u)
<1>. SUFFICES ASSUME LogsIn(u) PROVE FALSE
  OBVIOUS
<1>0. u \in Users /\ user[u] # NoUser /\ user[u].company = s
  BY DEF Staff
<1> DEFINE id == user[u].id
           t == [kind |-> "refresh", id |-> id]
<1>1. t \in jwt' /\ t \notin jwt
  BY DEF LogsIn
<1>2. \A i \in Nat : t \in Pair(i) => id = i
  BY DEF Pair
<1>3. id \in Nat /\ id <= lastId /\ lastId \in Nat
  BY <1>0, LiveUser, LiveBears DEF IdInv, UserIds, TypeInv, TenancyTypeOK
<1> HIDE DEF t
<1>4. ASSUME NEW v \in Users, NEW secret \in Secrets, Login(v, secret) PROVE FALSE
  <2>1. user[v] # NoUser /\ t \in Pair(user[v].id) /\ ~ company_is_blocked(user[v].company)
    BY <1>1, <1>4 DEF Login, Admitted
  <2>2. user[v].id \in Nat
    BY <2>1, LiveUser DEF IdInv, TypeInv
  <2>3. u = v
    BY <1>0, <1>2, <1>3, <2>1, <2>2, LiveBears DEF IdInv, UserIds
  <2>. QED BY <1>0, <2>1, <2>3
<1>5. ASSUME NEW r \in Workers, SignupAnswer(r) PROVE FALSE
  <2>1. lastId' # lastId /\ t \in Pair(lastId')
    BY <1>1, <1>5 DEF SignupAnswer
  <2>2. lastId' = lastId + 1
    BY <1>5, <2>1 DEF SignupAnswer, Signup, OnlyLoads
  <2>. QED BY <1>2, <1>3, <2>1, <2>2
<1>6. ASSUME NEW i \in 1..MaxIds, Refresh(i) PROVE FALSE
  <2>1. t \in Pair(i) /\ [kind |-> "refresh", id |-> i] \in jwt
    BY <1>1, <1>6 DEF Refresh
  <2>2. t = [kind |-> "refresh", id |-> i]
    BY <2>1 DEF Pair, t
  <2>. QED BY <1>1, <2>1, <2>2
<1>. QED BY <1>1, <1>4, <1>5, <1>6
     DEF SessionsNext, allVars, sessionVars, Api, Behind, StaffDoor, PortalDoor, ExpireToken,
         ConnectSocket, Disconnect, grant_portal_access, SetPortalPassword, GrantDies,
         revoke_portal_access, PortalLogin, ExpirePass

\* The steps that take a branch or a warehouse away.
LEMMA ClosingSteps ==
    ASSUME TypeInv, [TenancyNext]_tenancyVars, NEW s \in Slugs, NEW x \in {"branches", "warehouses"},
           held'[s][x] < held[s][x]
    PROVE  \E u \in Users : Admitted(u) /\ user[u].company = s
<1>0. \A z \in Slugs, y \in {"branches", "warehouses"} : held[z][y] \in Nat
  BY DEF TypeInv, TenancyTypeOK
<1>1. held' # held
  BY <1>0
<1>7. DOMAIN held = Slugs /\ \A z \in Slugs : DOMAIN held[z] = {"branches", "warehouses"}
  BY DEF TypeInv, TenancyTypeOK
<1>2. CASE \E u \in Users : StaffStep(u)
  <2>1. PICK u \in Users : CloseWarehouse(u) \/ \E k \in 0..MaxHeld : CloseBranch(u, k)
    <3>1. PICK u \in Users : StaffStep(u)
      BY <1>2
    <3>2. CloseWarehouse(u) \/ \E k \in 0..MaxHeld : CloseBranch(u, k)
      BY <1>1, <3>1 DEF StaffStep, enforce_plan_limit, DeleteUser, OpenUser, OpenPassword,
                        RegrantRole, DeleteRole, OpenSettings, OnlyLoads
    <3>. QED BY <3>2
  <2>2. ASSUME user[u].company # s PROVE held'[s] = held[s]
    <3>1. ASSUME NEW z, held' = [held EXCEPT ![user[u].company] = z] PROVE held'[s] = held[s]
      BY <1>7, <2>2, <3>1
    <3>. QED BY <2>1, <3>1 DEF CloseWarehouse, CloseBranch
  <2>3. user[u].company = s
    BY <1>0, <2>2
  <2>. QED BY <2>1, <2>3 DEF CloseWarehouse, CloseBranch
<1>3. CASE OperatorStep \/ CheckStep
  BY <1>1, <1>3 DEF OperatorStep, CheckStep, CheckSignup, OpenTenant, suspend, activate, AskPlan,
                    WritePlan, DeletePlan, seed_plans, OnlyLoads
<1>4. CASE \E r \in Workers : Signup(r)
  BY <1>1, <1>4 DEF Signup, OnlyLoads
<1>5. CASE CommitStep
  <2>4. UNCHANGED held \/ \E r \in Workers : Establish(r)
    BY <1>5 DEF CommitStep, Invite, SaveUser, SavePassword, SaveSettings, SaveTenant, change_plan
  <2>1. PICK r \in Workers : Establish(r)
    BY <1>1, <2>4
  <2> DEFINE h == handler[r]
  <2>2. held' = [held EXCEPT ![h.slug][h.res] = @ + 1]
    BY <2>1 DEF Establish
  <2> HIDE DEF h
  <2>3. held'[s][x] = held[s][x] \/ held'[s][x] = held[s][x] + 1
    BY <1>7, <2>2
  <2>. QED BY <1>0, <2>3
<1>6. held' = held \/ TenancyNext
  BY DEF tenancyVars
<1>. QED BY <1>1, <1>2, <1>3, <1>4, <1>5, <1>6 DEF TenancyNext

LEMMA BarredServices ==
    ASSUME IdInv, [SessionsNext]_allVars, NEW s \in Companies, company_is_blocked(s)
    PROVE  ~ WritesFor(s)
<1>0. TypeInv /\ TypeInv' /\ s \in Slugs /\ company[s] # NoCompany
  BY NextIdInv DEF IdInv, Companies
<1>1. [TenancyNext]_tenancyVars
  BY SessionsSteps DEF allVars
<1>2. \A u \in Users : user[u].company = s => ~ Admitted(u)
  BY DEF Admitted
<1>3. role'[s] = role[s]
  <2>1. ASSUME NEW r \in Workers, Signup(r), ~ Taken(handler[r]) PROVE role'[s] = role[s]
    BY <1>0, <2>1 DEF Signup, Taken, OnlyLoads, TypeInv, TenancyTypeOK
  <2>2. ASSUME NEW u \in Users, NEW name \in Roles, NEW codes, RegrantRole(u, name, codes)
        PROVE  role'[s] = role[s]
    BY <1>0, <1>2, <2>2 DEF RegrantRole, TypeInv, TenancyTypeOK
  <2>3. ASSUME NEW u \in Users, NEW name \in Roles, DeleteRole(u, name)
        PROVE  role'[s] = role[s]
    BY <1>0, <1>2, <2>3 DEF DeleteRole, TypeInv, TenancyTypeOK
  <2>. QED BY <1>1, <2>1, <2>2, <2>3, RoleSteps
<1>4. \A x \in {"branches", "warehouses"} : ~ (held'[s][x] < held[s][x])
  BY <1>0, <1>1, <1>2, ClosingSteps
<1>5. ASSUME NEW u \in Users, user[u] # NoUser, user[u].company = s PROVE user'[u] # NoUser
  <2>0. u \in Users /\ user[u] # NoUser /\ user[u].company = s
    BY <1>5
  <2>1. ASSUME NEW v \in Users, NEW w \in Users, DeleteUser(v, w) PROVE user'[u] # NoUser
    <3>1. w # u
      BY <1>2, <2>0, <2>1 DEF DeleteUser, Staff
    <3>. QED BY <2>0, <2>1, <3>1 DEF DeleteUser
  <2>2. user[u].id # 0 /\ lastId \in Nat /\ NoUser.id = 0
    BY <1>0, <2>0, LiveUser DEF NoUser, TypeInv, TenancyTypeOK
  <2>3. ASSUME NEW r \in Workers, Signup(r), ~ Taken(handler[r]) PROVE user'[u] # NoUser
    <3>1. PICK secret \in Secrets : user' = [user EXCEPT ![handler[r].user] = OwnerRow(handler[r].slug, secret)]
      BY <2>3 DEF Signup
    <3>2. OwnerRow(handler[r].slug, secret).id # 0
      BY <2>2 DEF OwnerRow
    <3>. QED BY <1>0, <2>0, <2>2, <3>1, <3>2 DEF TypeInv, TenancyTypeOK
  <2>4. ASSUME NEW r \in Workers, NEW v \in Users, Invite(r, v) PROVE user'[u] # NoUser
    BY <1>0, <2>0, <2>4 DEF Invite, TypeInv, TenancyTypeOK
  <2>5. ASSUME NEW r \in Workers, SaveUser(r) PROVE user'[u] # NoUser
    <3>1. handler[r].row \in UserRows
      BY <1>0, <2>5 DEF SaveUser, TypeInv, TenancyTypeOK, HandlerStates, Idle
    <3>2. PICK a \in BOOLEAN, x \in RolesThere \cup {NoRole, handler[r].row.role} :
             LET row == [handler[r].row EXCEPT !.active = a, !.role = x]
             IN  user' = IF Storable(handler[r].user, row)
                         THEN [user EXCEPT ![handler[r].user] = row] ELSE user
      BY <2>5 DEF SaveUser
    <3> DEFINE row == [handler[r].row EXCEPT !.active = a, !.role = x]
    <3>3. row.id # 0
      BY <3>1 DEF UserRows
    <3>4. user' = [user EXCEPT ![handler[r].user] = row] \/ user' = user
      BY <3>2
    <3> HIDE DEF row
    <3>5. row # NoUser
      BY <2>2, <3>3
    <3>. QED BY <1>0, <2>0, <3>4, <3>5 DEF TypeInv, TenancyTypeOK
  <2>6. ASSUME NEW r \in Workers, NEW new, SavePassword(r, new) PROVE user'[u] # NoUser
    BY <1>0, <2>0, <2>2, <2>6 DEF SavePassword, TypeInv, TenancyTypeOK, UserRows
  <2>7. ASSUME NEW v \in Users, NEW name \in Roles, DeleteRole(v, name) PROVE user'[u] # NoUser
    BY <1>0, <2>0, <2>2, <2>7 DEF DeleteRole, TypeInv, TenancyTypeOK, UserRows
  <2>. QED BY <1>1, <2>0, <2>1, <2>3, <2>4, <2>5, <2>6, <2>7, UserSteps
<1>6. grant = NoGrant /\ grant' # NoGrant => EmployerOf[grant'.owner] # s
  <2>1. ASSUME NEW u \in Users, NEW o \in Owners, NEW e \in Emails, NEW secret \in Secrets,
               grant_portal_access(u, o, e, secret)
        PROVE  EmployerOf[grant'.owner] # s
    BY <1>2, <2>1 DEF grant_portal_access
  <2>. QED BY <2>1, SessionsSteps DEF allVars, sessionVars, StaffDoor, PortalDoor, Login, Refresh,
           ExpireToken, ConnectSocket, Disconnect, SetPortalPassword, GrantDies,
           revoke_portal_access, PortalLogin, ExpirePass
<1>7. ASSUME NEW o \in Owners, EmployerOf[o] = s, account[o] # NoAccount PROVE account'[o] # NoAccount
  <2>1. account[o].id # 0 /\ NoAccount.id = 0 /\ account \in [Owners -> Accounts]
    BY <1>7 DEF IdInv, AccountIds, SessionsTypeOK, Live, Accounts, NoAccount
  <2>2. ASSUME NEW u \in Users, NEW p \in Owners, NEW e \in Emails, NEW secret \in Secrets,
               grant_portal_access(u, p, e, secret)
        PROVE  account'[o] # NoAccount
    BY <1>2, <1>7, <2>1, <2>2 DEF grant_portal_access
  <2>3. ASSUME SetPortalPassword PROVE account'[o] # NoAccount
    BY <1>7, <2>1, <2>3 DEF SetPortalPassword, Accounts
  <2>4. ASSUME NEW u \in Users, NEW p \in Owners, revoke_portal_access(u, p)
        PROVE  account'[o] # NoAccount
    <3>1. Admitted(u) /\ EmployerOf[p] = user[u].company /\ account' = [account EXCEPT ![p] = NoAccount]
      BY <2>4 DEF revoke_portal_access
    <3>2. o # p
      BY <1>2, <1>7, <3>1
    <3>. QED BY <1>7, <2>1, <3>1, <3>2
  <2>5. ASSUME PortalDoor PROVE account' = account \/ account'[o] # NoAccount
    BY <2>2, <2>3, <2>4, <2>5 DEF PortalDoor, GrantDies, PortalLogin, ExpirePass
  <2>6. account' = account \/ PortalDoor
    BY AccountSteps
  <2>. QED BY <1>7, <2>5, <2>6
<1>8. \A u \in Staff(s) : ~ Deleted(u)
  BY <1>5 DEF Staff, Deleted
<1>9. \A o \in Owners : EmployerOf[o] = s /\ account[o] # NoAccount => account'[o] # NoAccount
  BY <1>7
<1>. QED BY <1>3, <1>4, <1>6, <1>8, <1>9 DEF WritesFor

LEMMA StepIsBarred == IdInv /\ [SessionsNext]_allVars => Barred
<1>. SUFFICES ASSUME IdInv, [SessionsNext]_allVars, NEW s \in Companies, company_is_blocked(s)
              PROVE  ~ NewcomersOf(s)
  BY DEF Barred
<1>1. \A r \in Workers : ~ Begins(r, s)
  BY BarredRequests DEF Begins
<1>2. \A u \in Staff(s) : user[u].id \notin sockets' \ sockets /\ ~ LogsIn(u)
  BY BarredSockets, BarredLogins DEF Staff
<1>. QED BY <1>1, <1>2, BarredPasses, BarredServices DEF NewcomersOf

\* While a company is blocked nobody of it logs in, opens a socket, gets a portal
\* token or is served a request, whoever else is at work (company_is_blocked).
THEOREM NobodyEnters == SessionsSpec => NobodyEntersWhileBlocked
<1>1. IdInv /\ [SessionsNext]_allVars => [Barred]_allVars
  BY StepIsBarred
<1>. QED BY <1>1, AlwaysIdInv, PTL DEF SessionsSpec, NobodyEntersWhileBlocked

----------------------------------------------------------------------------
(* Portal tokens.  A token that opens an account was issued to the one     *)
(* whose account it is: ids of accounts are not used again.                *)

historyVars == <<allVars, history>>

LEMMA MCSteps == [MCNext]_historyVars => [SessionsNext]_allVars
BY DEF MCNext, historyVars

LEMMA AlwaysMCIdInv == MCSpec => []IdInv
<1>1. MCInit => IdInv
  BY InitIdInv DEF MCInit
<1>2. IdInv /\ [MCNext]_historyVars => IdInv'
  BY MCSteps, NextIdInv
<1>. QED BY <1>1, <1>2, PTL DEF MCSpec, historyVars

PassInv ==
    \A o \in Owners : Live(o) /\ account[o].id \in pass =>
        [owner |-> o, id |-> account[o].id] \in issued

LEMMA NextPassInv ==
    ASSUME IdInv, PassInv, [MCNext]_historyVars PROVE PassInv'
<1>1. CASE UNCHANGED historyVars
  BY <1>1 DEF historyVars, history, allVars, sessionVars, PassInv, Live
<1>2. CASE MCNext
  <2>. SUFFICES ASSUME NEW o \in Owners, Live(o)', account'[o].id \in pass'
                PROVE  [owner |-> o, id |-> account'[o].id] \in issued'
    BY DEF PassInv
  <2>1. /\ \A i \in issued : account'[i.owner] # NoAccount => i \in issued'
        /\ account[o].id \in pass' \ pass => [owner |-> o, id |-> account[o].id] \in issued'
    BY <1>2 DEF MCNext, Issued
  <2>2. ASSUME Live(o), account'[o].id = account[o].id
        PROVE  [owner |-> o, id |-> account'[o].id] \in issued'
    <3>1. CASE account[o].id \in pass
      BY <2>1, <2>2, <3>1 DEF PassInv, Live
    <3>2. CASE account[o].id \notin pass
      BY <2>1, <2>2, <3>2
    <3>. QED BY <3>1, <3>2
  <2>3. ASSUME NEW u \in Users, NEW p \in Owners, NEW e \in Emails, NEW secret \in Secrets,
               grant_portal_access(u, p, e, secret)
        PROVE  Live(o) /\ account'[o].id = account[o].id
    <3>1. CASE Live(o)
      BY <2>3, <3>1, GrantIds DEF IdInv
    <3>2. CASE ~ Live(o)
      <4>1. o = p /\ account'[o].id = lastAccount + 1 /\ UNCHANGED pass
        BY <2>3, <3>2, GrantIds DEF IdInv, Live
      <4>2. lastAccount \in Nat /\ pass \subseteq 1..lastAccount
        BY DEF IdInv, AccountIds, SessionsTypeOK
      <4>. QED BY <4>1, <4>2
    <3>. QED BY <3>1, <3>2
  <2>4. CASE SetPortalPassword
    <3>1. grant.owner \in Owners /\ account \in [Owners -> Accounts]
      BY <2>4, GrantTypes DEF SetPortalPassword, IdInv, AccountIds, SessionsTypeOK, Accounts
    <3>2. \A p \in Owners : account'[p].id = account[p].id
      BY <2>4, <3>1 DEF SetPortalPassword, Accounts
    <3>3. grant.id # 0
      BY <2>4 DEF SetPortalPassword, IdInv, AccountIds, SessionsTypeOK
    <3>4. Live(o)
      BY <2>4, <3>1, <3>3 DEF SetPortalPassword, Live, NoAccount
    <3>. QED BY <2>2, <3>2, <3>4
  <2>5. ASSUME NEW u \in Users, NEW p \in Owners, revoke_portal_access(u, p)
        PROVE  Live(o) /\ account'[o].id = account[o].id
    BY <2>5 DEF revoke_portal_access, Live, IdInv, AccountIds, SessionsTypeOK
  <2>6. CASE UNCHANGED account
    BY <2>2, <2>6 DEF Live
  <2>7. UNCHANGED <<account, lastAccount, pass, grant>> \/ PortalDoor
    BY <1>2, MCSteps, AccountSteps
  <2>. QED BY <2>2, <2>3, <2>4, <2>5, <2>6, <2>7
         DEF PortalDoor, GrantDies, PortalLogin, ExpirePass
<1>. QED BY <1>1, <1>2

\* Whatever is revoked and granted anew, a portal token speaks for the customer
\* or supplier it was issued to, or for nobody (PortalTokenAuthentication).
THEOREM PassesNeverChangeHands == MCSpec => []PassesStayWithOwner
<1>1. MCInit => PassInv
  BY DEF MCInit, SessionsInit, PassInv
<1>2. IdInv /\ PassInv /\ [MCNext]_historyVars => PassInv'
  BY NextPassInv
<1>3. PassInv => PassesStayWithOwner
  <2>. SUFFICES ASSUME PassInv, NEW id \in pass, NEW o \in authenticate(id)
                PROVE  o \in {i.owner : i \in {j \in issued : j.id = id}}
    BY DEF PassesStayWithOwner
  <2>1. [owner |-> o, id |-> id] \in {j \in issued : j.id = id}
    BY DEF PassInv, authenticate, Live
  <2>. QED BY <2>1
<1>. QED BY <1>1, <1>2, <1>3, AlwaysMCIdInv, PTL DEF MCSpec, historyVars

----------------------------------------------------------------------------
(* Served one at a time.  While no request has waited for another, what a  *)
(* worker holds is still so when it commits.                               *)

Fresh(r) ==
    LET h == handler[r] IN
    /\ h.op = "grow" => WithinLimit(h.slug, h.res)
    /\ h.op = "user" => user[h.user] = h.row
    /\ h.op \in {"settings", "tenant"} => company[h.slug] = h.row

AloneInv == calm => \A r \in Workers : Fresh(r)

LEMMA LoadsFresh ==
    ASSUME TypeInv, NEW r \in Workers, Loads(r) PROVE Fresh(r)'
<1>1. ASSUME NEW state, Load(r, state) PROVE handler'[r] = state
  <2>1. DOMAIN handler = Workers
    BY DEF TypeInv, TenancyTypeOK
  <2>. QED BY <1>1, <2>1 DEF Load
<1>2. CASE \E u \in Users, res \in Resources : enforce_plan_limit(r, u, res)
  <2>1. PICK u \in Users, res \in Resources : enforce_plan_limit(r, u, res)
    BY <1>2
  <2>2. /\ handler'[r] = [op |-> "grow", slug |-> user[u].company, res |-> res]
        /\ WithinLimit(user[u].company, res) /\ UNCHANGED <<plan, company, user, held>>
    BY <1>1, <2>1 DEF enforce_plan_limit, OnlyLoads
  <2>. QED BY <2>2 DEF Fresh, WithinLimit, Capped, Count, Staff
<1>3. CASE \E u, v \in Users : OpenUser(r, u, v)
  BY <1>1, <1>3 DEF OpenUser, OnlyLoads, Fresh
<1>4. ASSUME NEW u \in Users, OpenSettings(r, u) PROVE Fresh(r)'
  <2>1. handler'[r] = [op |-> "settings", slug |-> user[u].company, row |-> company[user[u].company]]
    BY <1>1, <1>4 DEF OpenSettings
  <2>. QED BY <1>4, <2>1 DEF OpenSettings, OnlyLoads, Fresh
<1>5. ASSUME NEW s \in Slugs, OpenTenant(r, s) PROVE Fresh(r)'
  <2>1. handler'[r] = [op |-> "tenant", slug |-> s, row |-> company[s]]
    BY <1>1, <1>5 DEF OpenTenant
  <2>. QED BY <1>5, <2>1 DEF OpenTenant, OnlyLoads, Fresh
<1>6. ASSUME NEW state, Load(r, state), state.op \in {"password", "plan", "signup"} PROVE Fresh(r)'
  BY <1>1, <1>6 DEF Fresh
<1>7. ASSUME NEW u \in Users, NEW old \in Secrets, OpenPassword(r, u, old) PROVE Fresh(r)'
  BY <1>6, <1>7 DEF OpenPassword
<1>8. ASSUME NEW s \in Slugs, NEW p \in Plans, AskPlan(r, s, p) PROVE Fresh(r)'
  BY <1>6, <1>8 DEF AskPlan
<1>9. ASSUME NEW name \in Names, NEW u \in Users, CheckSignup(r, name, u) PROVE Fresh(r)'
  BY <1>6, <1>9 DEF CheckSignup
<1>. QED BY <1>2, <1>3, <1>4, <1>5, <1>7, <1>8, <1>9 DEF Loads

\* On a calm step what a worker held, it has answered.
LEMMA CalmIsCalm ==
    ASSUME MCNext, calm'
    PROVE  /\ calm
           /\ \A r \in Workers : handler[r] # Idle => handler'[r] # handler[r]
           /\ grant # NoGrant => grant' # grant
BY DEF MCNext, Waiting

LEMMA NextAlone ==
    ASSUME IdInv, AloneInv, [MCNext]_historyVars PROVE AloneInv'
<1>1. CASE UNCHANGED historyVars
  BY <1>1 DEF historyVars, history, allVars, tenancyVars, AloneInv, Fresh, WithinLimit, Capped, Count, Staff
<1>2. ASSUME MCNext, calm', NEW q \in Workers PROVE Fresh(q)'
  <2>1. [TenancyNext]_tenancyVars
    BY <1>2, MCSteps, SessionsSteps DEF allVars
  <2>2. CASE handler'[q] = Idle
    BY <2>2 DEF Fresh, Idle
  <2>3. CASE handler'[q] # Idle
    <3>1. handler'[q] # handler[q]
      BY <1>2, <2>3, CalmIsCalm
    <3>2. PICK r \in Workers : Loads(r)
      BY <2>1, <2>3, <3>1, HandlerSteps DEF Answer, IdInv, TypeInv, TenancyTypeOK
    <3>3. r = q
      BY <3>1, <3>2 DEF Loads, enforce_plan_limit, OpenUser, OpenPassword, OpenSettings, OpenTenant,
                        AskPlan, CheckSignup, Load, IdInv, TypeInv, TenancyTypeOK
    <3>. QED BY <3>2, <3>3, LoadsFresh DEF IdInv
  <2>. QED BY <2>2, <2>3
<1>. QED BY <1>1, <1>2 DEF AloneInv

LEMMA AlwaysAlone == MCSpec => [](IdInv /\ AloneInv)
<1>1. MCInit => IdInv /\ AloneInv
  BY InitIdInv DEF MCInit, SessionsInit, TenancyInit, AloneInv, Fresh, Idle
<1>2. IdInv /\ AloneInv /\ [MCNext]_historyVars => (IdInv /\ AloneInv)'
  BY NextIdInv, MCSteps, NextAlone
<1>. QED BY <1>1, <1>2, PTL DEF MCSpec, historyVars

\* The steps that write how many branches and warehouses a company has.
LEMMA HeldSteps ==
    ASSUME [TenancyNext]_tenancyVars
    PROVE  \/ UNCHANGED held
           \/ \E r \in Workers : Establish(r)
           \/ \E u \in Users, k \in 0..MaxHeld : CloseBranch(u, k)
           \/ \E u \in Users : CloseWarehouse(u)
<1>1. CASE UNCHANGED tenancyVars
  BY <1>1 DEF tenancyVars
<1>2. CASE \E u \in Users : StaffStep(u)
  BY <1>2 DEF StaffStep, enforce_plan_limit, DeleteUser, OpenUser, OpenPassword, RegrantRole,
              DeleteRole, OpenSettings, OnlyLoads
<1>3. CASE OperatorStep \/ CheckStep
  BY <1>3 DEF OperatorStep, CheckStep, CheckSignup, OpenTenant, suspend, activate, AskPlan,
              WritePlan, DeletePlan, seed_plans, OnlyLoads
<1>4. CASE \E r \in Workers : Signup(r)
  BY <1>4 DEF Signup, OnlyLoads
<1>5. CASE CommitStep
  BY <1>5 DEF CommitStep, Invite, SaveUser, SavePassword, SaveSettings, SaveTenant, change_plan
<1>. QED BY <1>1, <1>2, <1>3, <1>4, <1>5 DEF TenancyNext

LEMMA StaffIsFinite ==
    ASSUME NEW s PROVE IsFiniteSet(Staff(s)) /\ Cardinality(Staff(s)) \in Nat
BY TenancyConstants, FS_Subset, FS_CardinalityType DEF Staff

LEMMA CapType ==
    ASSUME TenancyTypeOK, NEW s \in Companies, NEW res \in Resources, Capped(s)
    PROVE  plan[company[s].plan].cap[res] \in Nat
<1>1. company[s].plan \in Plans
  BY DEF TenancyTypeOK, Companies, CompanyRows, Capped
<1>2. plan[company[s].plan].cap \in Caps
  BY <1>1 DEF TenancyTypeOK, PlanRows
<1>. QED BY <1>2, TenancyConstants

\* Served alone, nobody joins a company but by an invitation that was counted.
LEMMA StaffJoins ==
    ASSUME TypeInv, \A r \in Workers : Fresh(r), [TenancyNext]_tenancyVars, NEW s \in Companies
    PROVE  \/ Staff(s)' \subseteq Staff(s)
           \/ /\ WithinLimit(s, "users") /\ UNCHANGED <<plan, company>>
              /\ \E v \in Users : Staff(s)' \subseteq Staff(s) \cup {v}
<1>. /\ user \in [Users -> UserRows \cup {NoUser}] /\ s \in Slugs
     /\ company[s] # NoCompany
  BY DEF TypeInv, TenancyTypeOK, Companies
<1>0. ASSUME \A w \in Users : user'[w] # NoUser => user[w] # NoUser /\ user'[w].company = user[w].company
      PROVE  Staff(s)' \subseteq Staff(s)
  BY <1>0 DEF Staff
<1>1. CASE UNCHANGED <<user, lastId>>
  BY <1>1 DEF Staff
<1>2. ASSUME NEW r \in Workers, Signup(r), ~ Taken(handler[r]) PROVE Staff(s)' \subseteq Staff(s)
  <2>1. handler[r].user \in Users /\ handler[r].slug # s
    BY <1>2, HandlerRows DEF Signup, TypeInv, Taken
  <2>2. PICK secret \in Secrets :
           user' = [user EXCEPT ![handler[r].user] = OwnerRow(handler[r].slug, secret)]
    BY <1>2 DEF Signup
  <2>3. OwnerRow(handler[r].slug, secret).company # s
    BY <2>1 DEF OwnerRow
  <2>. QED BY <2>1, <2>2, <2>3 DEF Staff
<1>3. ASSUME NEW r \in Workers, NEW v \in Users, Invite(r, v), ~ UNCHANGED user
      PROVE  \/ Staff(s)' \subseteq Staff(s)
             \/ /\ WithinLimit(s, "users") /\ UNCHANGED <<plan, company>>
                /\ Staff(s)' \subseteq Staff(s) \cup {v}
  <2>1. PICK x \in RolesThere \cup {NoRole}, secret \in Secrets :
           user' = [user EXCEPT ![v] = InvitedRow(handler[r].slug, x, secret)]
    BY <1>3 DEF Invite
  <2>2. InvitedRow(handler[r].slug, x, secret).company = handler[r].slug
    BY DEF InvitedRow
  <2>3. Staff(s)' \subseteq Staff(s) \cup (IF s = handler[r].slug THEN {v} ELSE {})
    BY <2>1, <2>2 DEF Staff
  <2>4. s = handler[r].slug => WithinLimit(s, "users")
    BY <1>3 DEF Invite, Fresh
  <2>. QED BY <1>3, <2>3, <2>4 DEF Invite
<1>4. ASSUME NEW u \in Users, NEW v \in Users, DeleteUser(u, v) PROVE Staff(s)' \subseteq Staff(s)
  BY <1>4 DEF DeleteUser, Staff
<1>5. ASSUME NEW r \in Workers, SaveUser(r) PROVE Staff(s)' \subseteq Staff(s)
  <2>1. /\ handler[r].row \in UserRows /\ handler[r].user \in Users
        /\ user[handler[r].user] = handler[r].row /\ handler[r].row # NoUser
    BY <1>5, HandlerRows, NullsDiffer DEF SaveUser, TypeInv, Fresh
  <2>2. PICK a \in BOOLEAN, x \in RolesThere \cup {NoRole, handler[r].row.role} :
           LET row == [handler[r].row EXCEPT !.active = a, !.role = x]
           IN  user' = IF Storable(handler[r].user, row) THEN [user EXCEPT ![handler[r].user] = row]
                                                         ELSE user
    BY <1>5 DEF SaveUser
  <2>. DEFINE row == [handler[r].row EXCEPT !.active = a, !.role = x]
  <2>3. row.company = handler[r].row.company
    BY <2>1 DEF UserRows
  <2>4. user' = user \/ user' = [user EXCEPT ![handler[r].user] = row]
    BY <2>2
  <2>. HIDE DEF row
  <2>. QED BY <1>0, <2>1, <2>3, <2>4
<1>6. ASSUME NEW r \in Workers, NEW new \in Secrets, SavePassword(r, new)
      PROVE  Staff(s)' \subseteq Staff(s)
  <2>1. handler[r].user \in Users /\ handler[r].id # 0
    BY <1>6, HandlerRows DEF SavePassword, TypeInv
  <2>2. CASE UNCHANGED user
    BY <2>2 DEF Staff
  <2>3. CASE user[handler[r].user].id = handler[r].id
    <3>1. user[handler[r].user] \in UserRows /\ user[handler[r].user] # NoUser
      BY <2>1, <2>3 DEF NoUser
    <3>2. [user[handler[r].user] EXCEPT !.secret = new].company = user[handler[r].user].company
      BY <3>1 DEF UserRows
    <3>3. user' = [user EXCEPT ![handler[r].user] = [user[handler[r].user] EXCEPT !.secret = new]]
      BY <1>6, <2>1, <2>3 DEF SavePassword
    <3>. QED BY <1>0, <2>1, <3>1, <3>2, <3>3
  <2>. QED BY <1>6, <2>2, <2>3 DEF SavePassword
<1>7. ASSUME NEW u \in Users, NEW name \in Roles, DeleteRole(u, name)
      PROVE  Staff(s)' \subseteq Staff(s)
  <2>1. \A v \in Users : user'[v] = user[v] \/ (user'[v] = [user[v] EXCEPT !.role = NoRole] /\ user[v].role # NoRole)
    <3>1. user[u].company \in Slugs
      BY <1>7, LiveUser DEF DeleteRole, Admitted, TypeInv
    <3>2. <<user[u].company, name>> # NoRole
      BY <3>1, NullsDiffer
    <3>. QED BY <1>7, <3>2 DEF DeleteRole
  <2>2. \A v \in Users : user[v] # NoUser =>
           [user[v] EXCEPT !.role = NoRole].company = user[v].company
    BY DEF UserRows
  <2>3. NoUser.role = NoRole
    BY DEF NoUser
  <2>. QED BY <1>0, <2>1, <2>2, <2>3
<1>. QED BY <1>1, <1>2, <1>3, <1>4, <1>5, <1>6, <1>7, UserSteps DEF Staff

\* Nor does anybody give it a branch or a warehouse that was not counted.
LEMMA HeldGrows ==
    ASSUME TypeInv, \A r \in Workers : Fresh(r), [TenancyNext]_tenancyVars, NEW s \in Companies,
           NEW res \in {"branches", "warehouses"}, held'[s][res] > held[s][res]
    PROVE  held'[s][res] = held[s][res] + 1 /\ WithinLimit(s, res) /\ UNCHANGED <<plan, company>>
<1>. /\ held \in [Slugs -> [{"branches", "warehouses"} -> Nat]] /\ s \in Slugs
     /\ held[s][res] \in Nat
  BY DEF TypeInv, TenancyTypeOK, Companies
<1>1. CASE UNCHANGED held
  BY <1>1
<1>2. ASSUME NEW r \in Workers, Establish(r)
      PROVE  held'[s][res] = held[s][res] + 1 /\ WithinLimit(s, res) /\ UNCHANGED <<plan, company>>
  <2>1. handler[r].slug \in Slugs /\ handler[r].res \in {"branches", "warehouses"}
    BY <1>2, HandlerRows DEF Establish, Resources, TypeInv
  <2>2. held' = [held EXCEPT ![handler[r].slug][handler[r].res] = @ + 1]
    BY <1>2 DEF Establish
  <2>3. handler[r].slug = s /\ handler[r].res = res /\ held'[s][res] = held[s][res] + 1
    BY <2>1, <2>2
  <2>. QED BY <1>2, <2>3 DEF Establish, Fresh
<1>3. ASSUME NEW u \in Users, NEW k \in 0..MaxHeld, CloseBranch(u, k) PROVE FALSE
  <2>1. user[u].company \in Slugs /\ k \in Nat
    BY <1>3, LiveUser, TenancyConstants DEF CloseBranch, Admitted, TypeInv
  <2>2. held'[s][res] \in Int /\ held'[s][res] <= held[s][res]
    BY <1>3, <2>1 DEF CloseBranch
  <2>. QED BY <2>2
<1>4. ASSUME NEW u \in Users, CloseWarehouse(u) PROVE FALSE
  <2>1. user[u].company \in Slugs
    BY <1>4, LiveUser DEF CloseWarehouse, Admitted, TypeInv
  <2>2. held'[s][res] \in Int /\ held'[s][res] <= held[s][res]
    BY <1>4, <2>1 DEF CloseWarehouse
  <2>. QED BY <2>2
<1>. QED BY <1>1, <1>2, <1>3, <1>4, HeldSteps

LEMMA StepGrowsWithinPlan ==
    ASSUME TypeInv, \A r \in Workers : Fresh(r), [TenancyNext]_tenancyVars PROVE GrowsWithinPlan
<1>. SUFFICES ASSUME NEW s \in Companies, NEW res \in Resources, Count(s, res)' > Count(s, res), Capped(s)'
              PROVE  Count(s, res)' <= plan'[company'[s].plan].cap[res]
  BY DEF GrowsWithinPlan
<1>1. ASSUME UNCHANGED <<plan, company>>, WithinLimit(s, res), NEW n \in Nat, Count(s, res) = n, NEW m \in Nat,
             Count(s, res)' = m, m <= n + 1
      PROVE  Count(s, res)' <= plan'[company'[s].plan].cap[res]
  <2>1. Capped(s)
    BY <1>1 DEF Capped
  <2>2. plan[company[s].plan].cap[res] \in Nat
    BY <2>1, CapType DEF TypeInv
  <2>3. n < plan[company[s].plan].cap[res]
    BY <1>1, <2>1 DEF WithinLimit
  <2>. QED BY <1>1, <2>2, <2>3
<1>2. CASE res = "users"
  <2>1. Count(s, res) = Cardinality(Staff(s)) /\ Count(s, res)' = Cardinality(Staff(s)')
    BY <1>2 DEF Count
  <2>2. ASSUME Staff(s)' \subseteq Staff(s) PROVE FALSE
    <3>1. Cardinality(Staff(s)') <= Cardinality(Staff(s)) /\ Cardinality(Staff(s)') \in Nat
      BY <2>2, StaffIsFinite, FS_Subset, FS_CardinalityType
    <3>. QED BY <2>1, <3>1, StaffIsFinite
  <2>3. ASSUME WithinLimit(s, "users"), UNCHANGED <<plan, company>>, NEW v \in Users,
               Staff(s)' \subseteq Staff(s) \cup {v}
        PROVE  Count(s, res)' <= plan'[company'[s].plan].cap[res]
    <3>1. /\ IsFiniteSet(Staff(s) \cup {v})
          /\ Cardinality(Staff(s) \cup {v}) \in {Cardinality(Staff(s)), Cardinality(Staff(s)) + 1}
      BY StaffIsFinite, FS_AddElement
    <3>2. Cardinality(Staff(s)') <= Cardinality(Staff(s) \cup {v}) /\ Cardinality(Staff(s)') \in Nat
      BY <2>3, <3>1, FS_Subset, FS_CardinalityType
    <3>3. Cardinality(Staff(s)') <= Cardinality(Staff(s)) + 1
      BY <3>1, <3>2, StaffIsFinite
    <3>. QED BY <1>1, <1>2, <2>1, <2>3, <3>2, <3>3, StaffIsFinite
  <2>. QED BY <2>2, <2>3, StaffJoins
<1>3. CASE res # "users"
  <2>1. /\ res \in {"branches", "warehouses"} /\ Count(s, res) = held[s][res]
        /\ Count(s, res)' = held'[s][res]
    BY <1>3 DEF Count, Resources
  <2>2. held'[s][res] = held[s][res] + 1 /\ WithinLimit(s, res) /\ UNCHANGED <<plan, company>>
    BY <2>1, HeldGrows
  <2>3. held[s][res] \in Nat
    BY <2>1 DEF TypeInv, TenancyTypeOK, Companies
  <2>. QED BY <1>1, <2>1, <2>2, <2>3
<1>. QED BY <1>2, <1>3

\* Requests served one at a time never take a company beyond its plan: what
\* enforce_plan_limit counted is still so when the row it allowed is made.
THEOREM PlansAreKept == MCSpec => AloneGrowsWithinPlan
<1>1. IdInv /\ AloneInv /\ [MCNext]_historyVars => [calm' => GrowsWithinPlan]_tenancyVars
  <2>. SUFFICES ASSUME IdInv, AloneInv, [MCNext]_historyVars, calm', ~ UNCHANGED tenancyVars
                PROVE  GrowsWithinPlan
    OBVIOUS
  <2>1. MCNext
    BY DEF historyVars, allVars
  <2>2. \A r \in Workers : Fresh(r)
    BY <2>1, CalmIsCalm DEF AloneInv
  <2>3. [TenancyNext]_tenancyVars
    BY <2>1, MCSteps, SessionsSteps DEF allVars
  <2>. QED BY <2>2, <2>3, StepGrowsWithinPlan DEF IdInv
<1>. QED BY <1>1, AlwaysAlone, PTL DEF MCSpec, AloneGrowsWithinPlan, historyVars

\* The credentials granted last are the account's, once the password is set.
GrantedStand ==
    /\ grant # NoGrant => account[grant.owner].id = grant.id
    /\ \A o \in Owners : granted[o].email # None =>
          /\ Live(o)
          /\ grant.owner # o => /\ account[o].email = granted[o].email
                                /\ account[o].secret = granted[o].secret

\* While all is calm the rows say what was decided, chosen and granted last.
WordInv ==
    calm =>
        /\ \A s \in Companies : company[s].status = decided[s]
        /\ \A u \in Users : user[u] # NoUser => user[u].secret = chosen[u]
        /\ GrantedStand

\* A company whose row changes has the status it had, or the one decided now.
LEMMA NextDecided ==
    ASSUME IdInv, AloneInv, WordInv, MCNext, calm', NEW s \in Companies'
    PROVE  company'[s].status = decided'[s]
<1>. /\ TypeInv /\ calm /\ [TenancyNext]_tenancyVars /\ \A r \in Workers : Fresh(r)
     /\ s \in Slugs /\ decided'[s] = Decision(s)
  BY MCSteps, SessionsSteps, CalmIsCalm DEF IdInv, allVars, AloneInv, MCNext, Companies
<1>1. CASE company'[s] = company[s]
  BY <1>1 DEF Decision, WordInv, Companies
<1>2. ASSUME company'[s] # company[s], NEW r \in Workers, handler[r] # Idle, handler'[r] = Idle,
             \/ handler[r].op = "settings"
             \/ handler[r].op = "tenant" /\ company'[s].status = handler[r].row.status
      PROVE  s \in Companies /\ company'[s].status = company[s].status
  <2>. DEFINE h == handler[r]
  <2>1. h.slug \in Companies /\ h.row \in CompanyRows /\ company[h.slug] = h.row
    BY <1>2, HandlerRows DEF TypeInv, Founded, Fresh
  <2>2. ASSUME NEW q \in Workers, Answer(q) PROVE q = r
    BY <1>2, <2>2 DEF Answer, TypeInv, TenancyTypeOK
  <2>3. ASSUME NEW row, SaveCompany(h.slug, row) PROVE s = h.slug /\ company'[s] = row
    BY <1>2, <2>1, <2>3 DEF SaveCompany, TypeInv, TenancyTypeOK, Companies
  <2>4. ASSUME SaveSettings(r) PROVE s = h.slug /\ company'[s].status = h.row.status
    <3>1. PICK a \in BOOLEAN : SaveCompany(h.slug, [h.row EXCEPT !.active = a])
      BY <2>4 DEF SaveSettings
    <3>2. [h.row EXCEPT !.active = a].status = h.row.status
      BY <2>1 DEF CompanyRows
    <3>. QED BY <2>3, <3>1, <3>2
  <2>5. ASSUME SaveTenant(r) PROVE s = h.slug /\ company'[s].status = h.row.status
    <3>1. \E row : SaveCompany(h.slug, row)
      BY <2>5 DEF SaveTenant
    <3>. QED BY <1>2, <2>3, <2>5, <3>1 DEF SaveTenant
  <2>6. ASSUME NEW q \in Workers, Signup(q) \/ change_plan(q) PROVE FALSE
    BY <1>2, <2>2, <2>6 DEF Signup, change_plan
  <2>7. ASSUME NEW t \in Slugs, suspend(t) \/ activate(t) PROVE FALSE
    BY <1>2, <2>7 DEF suspend, activate
  <2>8. SaveSettings(r) \/ SaveTenant(r)
    BY <1>2, <2>2, <2>6, <2>7, CompanySteps DEF SaveSettings, SaveTenant
  <2>. QED BY <2>1, <2>4, <2>5, <2>8
<1>3. CASE /\ company'[s] # company[s]
           /\ \E r \in Workers : /\ handler[r] # Idle /\ handler'[r] = Idle
                                 /\ \/ handler[r].op = "settings"
                                    \/ /\ handler[r].op = "tenant"
                                       /\ company'[s].status = handler[r].row.status
  BY <1>2, <1>3 DEF Decision, WordInv
<1>. QED BY <1>1, <1>3 DEF Decision

\* A user whose row changes has the password it had, or the one chosen now.
LEMMA NextChosen ==
    ASSUME IdInv, AloneInv, WordInv, MCNext, calm', NEW u \in Users, user'[u] # NoUser
    PROVE  user'[u].secret = chosen'[u]
<1>. /\ TypeInv /\ calm /\ [TenancyNext]_tenancyVars /\ \A r \in Workers : Fresh(r)
     /\ chosen'[u] = Choice(u)
  BY MCSteps, SessionsSteps, CalmIsCalm DEF IdInv, allVars, AloneInv, MCNext
<1>1. CASE user'[u] = user[u]
  BY <1>1 DEF Choice, WordInv
<1>2. ASSUME user'[u] # user[u], NEW r \in Workers, handler[r].op = "user", handler'[r] = Idle
      PROVE  user[u] # NoUser /\ user'[u].secret = user[u].secret
  <2>1. /\ handler[r].user \in Users /\ handler[r].row \in UserRows /\ handler[r].row # NoUser
        /\ user[handler[r].user] = handler[r].row
    BY <1>2, HandlerRows, NullsDiffer DEF TypeInv, Fresh
  <2>2. ASSUME NEW q \in Workers, Answer(q) PROVE q = r
    BY <1>2, <2>2 DEF Answer, TypeInv, TenancyTypeOK, Idle
  <2>3. ASSUME SaveUser(r) PROVE user[u] # NoUser /\ user'[u].secret = user[u].secret
    <3>1. PICK a \in BOOLEAN, x \in RolesThere \cup {NoRole, handler[r].row.role} :
             LET row == [handler[r].row EXCEPT !.active = a, !.role = x]
             IN  user' = IF Storable(handler[r].user, row) THEN [user EXCEPT ![handler[r].user] = row]
                                                           ELSE user
      BY <2>3 DEF SaveUser
    <3>. DEFINE row == [handler[r].row EXCEPT !.active = a, !.role = x]
    <3>2. row.secret = handler[r].row.secret
      BY <2>1 DEF UserRows
    <3>3. user' = [user EXCEPT ![handler[r].user] = row]
      BY <1>2, <3>1
    <3>. HIDE DEF row
    <3>4. u = handler[r].user /\ user'[u] = row
      BY <1>2, <2>1, <3>3 DEF TypeInv, TenancyTypeOK
    <3>. QED BY <2>1, <3>2, <3>4
  <2>4. ASSUME NEW q \in Workers, \/ Signup(q) \/ \E v \in Users : Invite(q, v)
                                  \/ \E new \in Secrets : SavePassword(q, new)
        PROVE  FALSE
    BY <1>2, <2>2, <2>4 DEF Signup, Invite, SavePassword
  <2>5. ASSUME \/ \E w, v \in Users : DeleteUser(w, v)
               \/ \E w \in Users, name \in Roles : DeleteRole(w, name)
        PROVE  FALSE
    <3>1. UNCHANGED handler
      BY <2>5 DEF DeleteUser, DeleteRole
    <3>. QED BY <1>2, <3>1 DEF Idle
  <2>6. SaveUser(r)
    BY <1>2, <2>2, <2>4, <2>5, UserSteps DEF SaveUser
  <2>. QED BY <2>3, <2>6
<1>3. CASE user'[u] # user[u] /\ \E r \in Workers : handler[r].op = "user" /\ handler'[r] = Idle
  BY <1>2, <1>3 DEF Choice, WordInv
<1>. QED BY <1>1, <1>3 DEF Choice

LEMMA NextGranted ==
    ASSUME IdInv, calm => GrantedStand, MCNext, calm' PROVE GrantedStand'
<1>. /\ calm /\ GrantedStand /\ [SessionsNext]_allVars
     /\ granted' = [o \in Owners |-> Granted(o)]
     /\ account \in [Owners -> Accounts]
     /\ grant # NoGrant => grant' # grant
  BY MCSteps, CalmIsCalm DEF IdInv, AccountIds, SessionsTypeOK, Accounts, MCNext
<1>0. \A o \in Owners : grant.owner = o => grant # NoGrant
  BY SessionsConstants DEF NoGrant
<1>1. ASSUME UNCHANGED <<account, grant>> PROVE GrantedStand'
  BY <1>0, <1>1 DEF GrantedStand, Granted, NotGranted, Live
<1>2. ASSUME NEW u \in Users, NEW p \in Owners, NEW e \in Emails, NEW secret \in Secrets,
             grant_portal_access(u, p, e, secret)
      PROVE  GrantedStand'
  <2>1. /\ \A o \in Owners \ {p} : account'[o] = account[o]
        /\ grant'.id = account'[p].id /\ AccountIds'
    BY <1>2, GrantIds DEF IdInv
  <2>5. grant = NoGrant /\ grant'.owner = p
    BY <1>2 DEF grant_portal_access
  <2>6. grant' # NoGrant
    BY <2>5, SessionsConstants DEF NoGrant
  <2>2. Live(p)'
    <3>1. account'[p].id # 0
      BY <2>1, <2>6 DEF AccountIds, SessionsTypeOK
    <3>. QED BY <3>1 DEF Live, NoAccount
  <2>4. \A o \in Owners : grant.owner # o
    BY <2>5, SessionsConstants DEF NoGrant
  <2>3. \A o \in Owners : granted'[o] = IF account'[o] = NoAccount THEN NotGranted ELSE granted[o]
    BY <2>4 DEF Granted
  <2>. QED BY <2>1, <2>2, <2>3, <2>4, <2>5 DEF GrantedStand, Live, NotGranted
<1>3. CASE SetPortalPassword
  <2>0. PICK g \in Owners : grant.owner = g
    BY <1>3, GrantTypes DEF SetPortalPassword, IdInv, AccountIds
  <2>1. /\ grant' = NoGrant /\ account[g].id = grant.id /\ grant.id # 0
        /\ account' = [account EXCEPT ![g] = [account[g] EXCEPT !.secret = grant.secret]]
    BY <1>3, <2>0 DEF SetPortalPassword, IdInv, AccountIds, SessionsTypeOK, GrantedStand
  <2>2. account'[g].secret = grant.secret /\ account'[g].email = account[g].email /\ account'[g].id # 0
    BY <2>1 DEF Accounts
  <2>3. granted'[g] = [email |-> account'[g].email, secret |-> grant.secret]
    BY <2>0, <2>1, <2>2 DEF Granted, NoAccount
  <2>4. ASSUME NEW o \in Owners \ {g}
        PROVE  account'[o] = account[o] /\ granted'[o].email \in {granted[o].email, None}
               /\ (granted'[o].email # None => granted'[o] = granted[o])
    BY <2>0, <2>1 DEF Granted, NotGranted
  <2>5. Live(g)'
    BY <2>2 DEF Live, NoAccount
  <2>. QED BY <2>0, <2>1, <2>2, <2>3, <2>4, <2>5 DEF GrantedStand, Live
<1>4. CASE GrantDies
  BY <1>4 DEF MCNext
<1>5. ASSUME NEW u \in Users, NEW p \in Owners, revoke_portal_access(u, p) PROVE GrantedStand'
  <2>1. UNCHANGED grant /\ account' = [account EXCEPT ![p] = NoAccount]
    BY <1>5 DEF revoke_portal_access
  <2>4. grant = NoGrant
    BY <2>1
  <2>2. \A o \in Owners : grant.owner # o
    BY <2>4, SessionsConstants DEF NoGrant
  <2>3. \A o \in Owners : account'[o] # NoAccount => account'[o] = account[o]
    BY <2>1
  <2>. QED BY <2>1, <2>2, <2>3, <2>4 DEF GrantedStand, Granted, NotGranted, Live
<1>6. ASSUME NEW e \in Emails, NEW secret \in Secrets, NEW o \in Owners, PortalLogin(e, secret, o)
      PROVE  GrantedStand'
  BY <1>1, <1>6 DEF PortalLogin
<1>7. ASSUME NEW id \in 1..MaxAccounts, ExpirePass(id) PROVE GrantedStand'
  BY <1>1, <1>7 DEF ExpirePass
<1>8. CASE PortalDoor
  BY <1>2, <1>3, <1>4, <1>5, <1>6, <1>7, <1>8 DEF PortalDoor
<1>. QED BY <1>1, <1>8, AccountSteps

LEMMA NextWordInv ==
    ASSUME IdInv, AloneInv, WordInv, [MCNext]_historyVars PROVE WordInv'
<1>1. CASE UNCHANGED historyVars
  BY <1>1 DEF historyVars, history, allVars, tenancyVars, sessionVars, WordInv, GrantedStand,
              Companies, Live
<1>2. ASSUME MCNext, calm' PROVE GrantedStand'
  BY <1>2, NextGranted DEF WordInv
<1>3. CASE MCNext
  BY <1>2, <1>3, NextDecided, NextChosen DEF WordInv
<1>. QED BY <1>1, <1>3

\* Requests served one at a time leave nobody's last word out: the status the
\* operator gave stands, the password chosen last and the credentials granted
\* last open the door, whatever else is saved on those rows.
THEOREM LastWordStands == MCSpec => []AloneLastWordStands
<1>1. MCInit => WordInv
  BY SessionsConstants DEF MCInit, SessionsInit, TenancyInit, WordInv, GrantedStand, Companies,
                          NotGranted, NoGrant
<1>2. IdInv /\ AloneInv /\ WordInv /\ [MCNext]_historyVars => WordInv'
  BY NextWordInv
<1>3. WordInv => AloneLastWordStands
  <2>. SUFFICES ASSUME WordInv, calm, NEW o \in Owners, granted[o].email # None, grant.owner # o,
                       ~ Twinned(o), ~ company_is_blocked(EmployerOf[o])
                PROVE  PortalOpensTo(granted[o].email, granted[o].secret, o)
    BY DEF WordInv, AloneLastWordStands
  <2>1. Live(o) /\ account[o].email = granted[o].email /\ account[o].secret = granted[o].secret
    BY DEF WordInv, GrantedStand
  <2>2. AccountsAt(granted[o].email) = {o}
    BY <2>1 DEF AccountsAt, Twinned, Live
  <2>. QED BY <2>1, <2>2 DEF PortalOpensTo
<1>. QED BY <1>1, <1>2, <1>3, AlwaysAlone, PTL DEF MCSpec, historyVars

----------------------------------------------------------------------------
(* Part two: StockLocks, for any requests and any operations.              *)

\* The rows whose quantities and numbers are promised.
Counted == Items \cup Sequences

Copies == UNION {[S -> Nat] : S \in SUBSET Rows}
Documents == [sequence : Sequences, number : Nat, by : Requests]

Began == {Unsent, Ended, Served}
Runs == [state : {"running"}, op : Operations, pc : Nat \ {0}, copy : Copies, made : SUBSET Rows]
Holding == [state : {"numbered", "lost"}, numbers : SUBSET Documents]

\* A row is inserted in a copy, and the rows of the steps it has taken are in it.
Copied(q) ==
    /\ q.made \subseteq DOMAIN q.copy
    /\ \A j \in DOMAIN q.op.steps :
          j < q.pc /\ q.op.steps[j].row \in Counted => q.op.steps[j].row \in DOMAIN q.copy

LockTypeOK ==
    /\ table \in [Rows -> Seq(Nat)]
    /\ document \in SUBSET Documents
    /\ request \in [Requests -> Began \cup Runs \cup Holding]
    /\ \A r \in Requests : Active(r) => Copied(request[r])

\* What a transaction holds is as it found it.
Kept(r) ==
    \A row \in DOMAIN request[r].copy :
        IF row \in request[r].made THEN Unique(row) => table[row] = <<>>
                                   ELSE table[row] # <<>>

Exclusive == \A r, s \in Requests : \A row \in Rows : Holds(r, row) /\ Holds(s, row) => r = s

LockInv ==
    /\ LockTypeOK /\ OneRowPerKey /\ Exclusive
    /\ \A r \in Requests : Active(r) => Kept(r)

At(op, row) == {n \in DOMAIN op.steps : op.steps[n].row = row}
By(op, S) == SumFunctionOnSet([n \in S |-> op.steps[n].by], S)
Past(r, row) == {n \in At(request[r].op, row) : n < request[r].pc}
Base(r, row) == IF row \in request[r].made THEN 0 ELSE table[row][1]

\* What a transaction has made of a row, from what is still in the table.
Reckoned(r, row) ==
    /\ request[r].copy[row] = Base(r, row) + By(request[r].op, Past(r, row))
    /\ \A n \in Past(r, row) :
          Base(r, row) + By(request[r].op, {m \in Past(r, row) : m <= n}) >= 0

ReckonInv ==
    \A r \in Requests : Active(r) =>
        \A row \in DOMAIN request[r].copy \cap Counted : Reckoned(r, row)

NumbersTaken == document \cup UNION {request[r].numbers : r \in {x \in Requests : request[x].state \in {"numbered", "lost"}}}

NumberInv ==
    /\ \A d \in NumbersTaken : d.number \in 1..Total(d.sequence)
    /\ \A d, e \in NumbersTaken : d.sequence = e.sequence /\ d.number = e.number => d = e
    /\ \A row \in Sequences : \A n \in 1..Total(row) :
          \E d \in NumbersTaken : d.sequence = row /\ d.number = n

----------------------------------------------------------------------------
(* Rows and types.                                                         *)

LEMMA KindsDiffer ==
    /\ Counted \subseteq Rows
    /\ \A row \in Counted : row \notin Batches /\ row \notin BatchStocks /\ row \notin Serials
    /\ \A row \in Sequences : row \notin Items /\ Unique(row)
<1>1. \A row \in Items : row \notin Batches /\ row \notin BatchStocks /\ row \notin Serials
  BY DEF Items, Batches, BatchStocks, Serials, Item, Batch, BatchStock, SerialUnits
<1>2. \A row \in Sequences :
          row \notin Batches /\ row \notin BatchStocks /\ row \notin Serials /\ row \notin Items
  BY DEF Items, Batches, BatchStocks, Serials, Sequences, Item, Batch, BatchStock, SerialUnits,
         NumberSequence
<1>. QED BY <1>1, <1>2 DEF Counted, Rows, Unique

LEMMA ActiveRuns ==
    ASSUME LockTypeOK, NEW r \in Requests, Active(r)
    PROVE  request[r] \in Runs /\ Copied(request[r])
<1>1. request[r] \in Began \cup Runs \cup Holding
  BY DEF LockTypeOK
<1>2. request[r] \notin Began
  BY DEF Active, Began, Unsent, Ended, Served
<1>3. request[r] \notin Holding
  BY DEF Active, Holding
<1>. QED BY <1>1, <1>2, <1>3 DEF LockTypeOK

LEMMA CopyType ==
    ASSUME NEW q \in Runs
    PROVE  /\ q.copy \in [DOMAIN q.copy -> Nat] /\ DOMAIN q.copy \subseteq Rows
           /\ q.made \subseteq Rows /\ q.op \in Operations /\ q.pc \in Nat \ {0}
<1>1. q.copy \in Copies
  BY DEF Runs
<1>. QED BY <1>1 DEF Runs, Copies

LEMMA ElementType ==
    ASSUME NEW S, NEW seq \in Seq(S), NEW n \in 1..Len(seq) PROVE seq[n] \in S
OBVIOUS

LEMMA StepsType ==
    ASSUME NEW op \in Operations
    PROVE  /\ op.steps \in Seq([row : Rows, by : Int, locks : BOOLEAN]) /\ DOMAIN op.steps = 1..Len(op.steps)
           /\ \A n \in DOMAIN op.steps :
                 /\ op.steps[n].row \in Rows /\ op.steps[n].by \in Int
                 /\ op.steps[n].locks \/ op.steps[n].row \in Batches
<1>1. op.steps \in Seq([row : Rows, by : Int, locks : BOOLEAN])
  BY OperationConstants
<1>2. DOMAIN op.steps = 1..Len(op.steps) /\ Len(op.steps) \in Nat
  BY <1>1
<1>3. ASSUME NEW n \in DOMAIN op.steps PROVE op.steps[n] \in [row : Rows, by : Int, locks : BOOLEAN]
  BY <1>1, <1>2, ElementType
<1>4. \A n \in DOMAIN op.steps : op.steps[n].locks \/ op.steps[n].row \in Batches
  BY OperationConstants
<1>. QED BY <1>1, <1>2, <1>3, <1>4

LEMMA LockStepType ==
    ASSUME LockTypeOK, NEW r \in Requests, Unfinished(r)
    PROVE  /\ Active(r) /\ request[r] \in Runs /\ request[r].pc \in DOMAIN request[r].op.steps
           /\ Step(r).row \in Rows /\ Step(r).by \in Int
           /\ Step(r).locks \/ Step(r).row \in Batches
<1>1. Active(r) /\ request[r] \in Runs
  BY ActiveRuns DEF Unfinished
<1>2. request[r].op \in Operations /\ request[r].pc \in Nat \ {0}
  BY <1>1, CopyType
<1>3. request[r].pc \in DOMAIN request[r].op.steps
  BY <1>2, StepsType DEF Unfinished
<1>. QED BY <1>1, <1>2, <1>3, StepsType DEF Step

LEMMA FoundType ==
    ASSUME LockTypeOK, NEW r \in Requests, Unfinished(r)
    PROVE  /\ Value(r) \in Nat /\ Found(r) \in Nat
           /\ Found(r) = 0 => table[Step(r).row] = <<>> /\ Step(r).row \notin request[r].made
<1>1. Step(r).row \in Rows /\ request[r] \in Runs
  BY LockStepType
<1>2. table[Step(r).row] \in Seq(Nat)
  BY <1>1 DEF LockTypeOK
<1>3. request[r].copy \in [DOMAIN request[r].copy -> Nat]
  BY <1>1, CopyType
<1>4. Value(r) \in Nat
  BY <1>2, <1>3 DEF Value
<1>5. LET seq == table[Step(r).row] IN Len(seq) \in Nat /\ (Len(seq) = 0 <=> seq = <<>>)
  BY <1>2
<1>6. CASE Step(r).row \in request[r].made
  BY <1>4, <1>5, <1>6 DEF Found
<1>7. CASE Step(r).row \notin request[r].made
  BY <1>4, <1>5, <1>7 DEF Found
<1>. QED BY <1>6, <1>7

\* A row that is inserted is one the transaction selects.
LEMMA InsertedIsSelected ==
    ASSUME LockTypeOK, NEW r \in Requests, Take(r), Found(r) = 0
    PROVE  Selects(r)
<1>1. Unfinished(r) /\ Value(r) + Step(r).by >= 0
  BY DEF Take
<1>2. table[Step(r).row] = <<>> /\ Value(r) \in Nat /\ Step(r).by \in Int
  BY <1>1, LockStepType, FoundType
<1>. QED BY <1>1, <1>2 DEF Selects

\* The record of a request after it has taken a row.
After(r) ==
    Running(request[r].op, request[r].pc + 1,
            IF Selects(r)
            THEN [x \in DOMAIN request[r].copy \cup {Step(r).row} |->
                     IF x = Step(r).row THEN Value(r) + Step(r).by ELSE request[r].copy[x]]
            ELSE request[r].copy,
            IF Found(r) = 0 THEN request[r].made \cup {Step(r).row} ELSE request[r].made)

LEMMA TakeIs ==
    ASSUME LockTypeOK, NEW r \in Requests, Take(r)
    PROVE  /\ request'[r] = After(r) /\ table' = table /\ document' = document
           /\ \A s \in Requests \ {r} : request'[s] = request[s]
           /\ request' = [request EXCEPT ![r] = After(r)]
BY DEF LockTypeOK, Take, After

LEMMA TakeType ==
    ASSUME LockTypeOK, NEW r \in Requests, Take(r)
    PROVE  LockTypeOK' /\ Active(r)'
<1> DEFINE q == request[r]
           row == Step(r).row
           a == After(r)
<1>1. Unfinished(r) /\ Value(r) + Step(r).by >= 0
  BY DEF Take
<1>2. /\ q \in Runs /\ q.pc \in DOMAIN q.op.steps /\ row \in Rows /\ Step(r).by \in Int
      /\ Value(r) \in Nat /\ Copied(q)
  BY <1>1, LockStepType, FoundType, ActiveRuns
<1>3. /\ q.copy \in [DOMAIN q.copy -> Nat] /\ DOMAIN q.copy \subseteq Rows
      /\ q.made \subseteq Rows /\ q.op \in Operations /\ q.pc \in Nat \ {0}
  BY <1>2, CopyType
<1>4. Value(r) + Step(r).by \in Nat
  BY <1>1, <1>2
<1>5. a.copy \in [DOMAIN a.copy -> Nat] /\ DOMAIN a.copy \subseteq Rows
  BY <1>2, <1>3, <1>4 DEF After, Running
<1>6. a \in Runs
  <2>1. a.copy \in Copies
    BY <1>5 DEF Copies
  <2>2. a.made \subseteq Rows
    BY <1>2, <1>3 DEF After, Running
  <2>. QED BY <1>3, <2>1, <2>2 DEF After, Running, Runs
<1>7. Copied(a)
  <2>1. a.made \subseteq DOMAIN a.copy
    BY <1>2, InsertedIsSelected DEF Copied, After, Running
  <2>2. ASSUME NEW j \in DOMAIN q.op.steps, j < q.pc + 1, q.op.steps[j].row \in Counted
        PROVE  q.op.steps[j].row \in DOMAIN a.copy
    <3>1. CASE j < q.pc
      BY <1>2, <2>2, <3>1 DEF Copied, After, Running
    <3>2. CASE ~ (j < q.pc)
      <4>1. j = q.pc
        BY <1>3, <2>2, <3>2, StepsType
      <4>2. Selects(r)
        BY <1>1, <2>2, <4>1, LockStepType, KindsDiffer DEF Selects, Step
      <4>. QED BY <4>1, <4>2 DEF After, Running, Step
    <3>. QED BY <3>1, <3>2
  <2>3. a.op = q.op /\ a.pc = q.pc + 1
    BY DEF After, Running
  <2>. QED BY <2>1, <2>2, <2>3 DEF Copied
<1>8. request' \in [Requests -> Began \cup Runs \cup Holding]
  BY <1>6, TakeIs DEF LockTypeOK
<1>9. \A s \in Requests : Active(s)' => Copied(request'[s])
  BY <1>7, TakeIs DEF LockTypeOK, Active
<1>10. Active(r)'
  BY <1>6, TakeIs DEF Active, Runs
<1>. QED BY <1>8, <1>9, <1>10, TakeIs DEF LockTypeOK

\* No other transaction is touched when a request gives up, saves or loses a document.
LEMMA AtRestType ==
    ASSUME LockTypeOK, NEW r \in Requests, NEW q \in Began \cup Holding,
           request' = [request EXCEPT ![r] = q], table' = table, document' \in SUBSET Documents
    PROVE  LockTypeOK' /\ ~ Active(r)'
<1>1. q.state # "running"
  BY DEF Began, Unsent, Ended, Served, Holding
<1>2. request'[r] = q /\ \A s \in Requests \ {r} : request'[s] = request[s]
  BY DEF LockTypeOK
<1>3. request' \in [Requests -> Began \cup Runs \cup Holding]
  BY DEF LockTypeOK
<1>4. ASSUME NEW s \in Requests, Active(s)' PROVE Copied(request'[s])
  BY <1>1, <1>2, <1>4 DEF LockTypeOK, Active
<1>. QED BY <1>1, <1>2, <1>3, <1>4 DEF LockTypeOK, Active

LEMMA ExceptType ==
    ASSUME NEW seq \in Seq(Nat), NEW v \in Nat
    PROVE  /\ [seq EXCEPT ![1] = v] \in Seq(Nat)
           /\ Len([seq EXCEPT ![1] = v]) = Len(seq)
           /\ seq # <<>> => [seq EXCEPT ![1] = v][1] = v
<1>1. CASE seq = <<>>
  <2>1. [<<>> EXCEPT ![1] = v] = <<>>
    OBVIOUS
  <2>. QED BY <1>1, <2>1
<1>2. CASE seq # <<>>
  <2>1. 1 \in 1..Len(seq)
    BY <1>2
  <2>. QED BY <2>1, ExceptSeq
<1>. QED BY <1>1, <1>2

LEMMA NumberedType ==
    ASSUME LockTypeOK, NEW r \in Requests, Active(r), ~ Unfinished(r)
    PROVE  /\ Numbered(r) \in SUBSET Documents
           /\ \A row \in NumbersOf(request[r].op.steps) : row \in DOMAIN request[r].copy
           /\ \A n \in DOMAIN request[r].op.steps : n < request[r].pc
<1> DEFINE q == request[r]
<1>1. q \in Runs /\ Copied(q)
  BY ActiveRuns
<1>2. q.copy \in [DOMAIN q.copy -> Nat] /\ q.op \in Operations /\ q.pc \in Nat \ {0}
  BY <1>1, CopyType
<1>3. \A n \in DOMAIN q.op.steps : n < q.pc
  BY <1>2, StepsType DEF Unfinished
<1>4. ASSUME NEW row \in NumbersOf(q.op.steps) PROVE row \in Sequences /\ row \in DOMAIN q.copy
  <2>1. PICK n \in 1..Len(q.op.steps) : q.op.steps[n].row = row /\ row \in Sequences
    BY DEF NumbersOf
  <2>. QED BY <1>1, <1>2, <1>3, <2>1, StepsType DEF Copied, Counted
<1>5. ASSUME NEW row \in NumbersOf(q.op.steps)
      PROVE  [sequence |-> row, number |-> q.copy[row], by |-> r] \in Documents
  BY <1>2, <1>4 DEF Documents
<1>. QED BY <1>3, <1>4, <1>5 DEF Numbered

LEMMA WrittenRow ==
    ASSUME LockTypeOK, NEW r \in Requests, Active(r), NEW row \in Rows
    PROVE  /\ Written(r)[row] \in Seq(Nat)
           /\ row \in request[r].made =>
                 /\ Written(r)[row] = Append(table[row], request[r].copy[row])
                 /\ request[r].copy[row] \in Nat
           /\ row \in DOMAIN request[r].copy \ request[r].made =>
                 /\ Written(r)[row] = [table[row] EXCEPT ![1] = request[r].copy[row]]
                 /\ request[r].copy[row] \in Nat
                 /\ Len(Written(r)[row]) = Len(table[row])
           /\ row \notin DOMAIN request[r].copy => Written(r)[row] = table[row]
<1> DEFINE q == request[r]
<1>1. q \in Runs /\ Copied(q)
  BY ActiveRuns
<1>2. q.copy \in [DOMAIN q.copy -> Nat] /\ q.made \subseteq DOMAIN q.copy
  BY <1>1, CopyType DEF Copied
<1>3. table[row] \in Seq(Nat)
  BY DEF LockTypeOK
<1>4. CASE row \in q.made
  <2>1. q.copy[row] \in Nat /\ Written(r)[row] = Append(table[row], q.copy[row])
    BY <1>2, <1>4 DEF Written
  <2>. QED BY <1>2, <1>3, <1>4, <2>1
<1>5. CASE row \in DOMAIN q.copy \ q.made
  <2>1. q.copy[row] \in Nat /\ Written(r)[row] = [table[row] EXCEPT ![1] = q.copy[row]]
    BY <1>2, <1>5 DEF Written
  <2>. QED BY <1>2, <1>3, <1>5, <2>1, ExceptType
<1>6. CASE row \notin DOMAIN q.copy
  BY <1>2, <1>3, <1>6 DEF Written
<1>. QED BY <1>2, <1>4, <1>5, <1>6

LEMMA LockCommitType ==
    ASSUME LockTypeOK, NEW r \in Requests, Commit(r)
    PROVE  /\ LockTypeOK' /\ ~ Active(r)' /\ table' = Written(r)
           /\ \A s \in Requests \ {r} : request'[s] = request[s]
<1> DEFINE q == IF request[r].op.alone
                THEN [state |-> "numbered", numbers |-> Numbered(r)] ELSE Served
<1>1. Active(r) /\ ~ Unfinished(r) /\ table' = Written(r)
  BY DEF Commit
<1>2. request' = [request EXCEPT ![r] = q]
  BY DEF Commit
<1>3. Numbered(r) \in SUBSET Documents
  BY <1>1, NumberedType
<1>4. q \in Began \cup Holding /\ q.state # "running"
  BY <1>3 DEF Began, Holding, Served
<1>5. request'[r] = q /\ \A s \in Requests \ {r} : request'[s] = request[s]
  BY <1>2 DEF LockTypeOK
<1>6. table' \in [Rows -> Seq(Nat)]
  <2>1. DOMAIN Written(r) = Rows /\ Written(r) = [row \in Rows |-> Written(r)[row]]
    BY DEF Written
  <2>. QED BY <1>1, <2>1, WrittenRow
<1>7. document' \in SUBSET Documents
  BY <1>3 DEF Commit, LockTypeOK
<1>8. request' \in [Requests -> Began \cup Runs \cup Holding]
  BY <1>2, <1>4 DEF LockTypeOK
<1>9. ASSUME NEW s \in Requests, Active(s)' PROVE Copied(request'[s])
  BY <1>4, <1>5, <1>9 DEF LockTypeOK, Active
<1>. QED BY <1>1, <1>4, <1>5, <1>6, <1>7, <1>8, <1>9 DEF LockTypeOK, Active

LEMMA BeginType ==
    ASSUME LockTypeOK, NEW r \in Requests, NEW op \in Operations, Begin(r, op)
    PROVE  /\ LockTypeOK' /\ table' = table /\ document' = document
           /\ Active(r)' /\ request'[r].copy = [row \in {} |-> 0] /\ request'[r].op = op
           /\ request'[r].made = {} /\ request'[r].pc = 1 /\ request[r] = Unsent
           /\ \A s \in Requests \ {r} : request'[s] = request[s]
<1> DEFINE none == [row \in {} |-> 0]
           q == Running(op, 1, none, {})
<1>1. request' = [request EXCEPT ![r] = q] /\ table' = table /\ document' = document
  BY DEF Begin
<1>2. request'[r] = q /\ \A s \in Requests \ {r} : request'[s] = request[s]
  BY <1>1 DEF LockTypeOK
<1>3. none \in [{} -> Nat] /\ none \in Copies /\ DOMAIN none = {}
  BY DEF Copies
<1>4. q \in Runs
  BY <1>3 DEF Running, Runs
<1>5. Copied(q)
  <2>1. \A j \in DOMAIN op.steps : ~ (j < 1)
    BY StepsType
  <2>. QED BY <1>3, <2>1 DEF Running, Copied
<1>6. request' \in [Requests -> Began \cup Runs \cup Holding]
  BY <1>1, <1>4 DEF LockTypeOK
<1>7. q.state = "running" /\ q.copy = none /\ q.op = op /\ q.made = {} /\ q.pc = 1
  BY DEF Running
<1>8. request[r] = Unsent
  BY DEF Begin
<1>. QED BY <1>1, <1>2, <1>5, <1>6, <1>7, <1>8 DEF LockTypeOK, Active

\* A step that leaves the table and the other requests as they are, and after which
\* the request is at rest.
Rests(r) ==
    /\ table' = table /\ LockTypeOK' /\ ~ Active(r)'
    /\ \A s \in Requests \ {r} : request'[s] = request[s]

LEMMA RollbackRests ==
    ASSUME LockTypeOK, NEW r \in Requests, Rollback(r)
    PROVE  Rests(r) /\ request'[r] = Ended /\ document' = document
<1>1. Ended \in Began \cup Holding
  BY DEF Began
<1>2. request' = [request EXCEPT ![r] = Ended] /\ table' = table /\ document' = document
  BY DEF Rollback
<1>3. document' \in SUBSET Documents
  BY <1>2 DEF LockTypeOK
<1>. QED BY <1>1, <1>2, <1>3, AtRestType DEF Rests, LockTypeOK

LEMMA HoldingNumbers ==
    ASSUME LockTypeOK, NEW r \in Requests, request[r].state \in {"numbered", "lost"}
    PROVE  request[r] \in Holding /\ request[r].numbers \in SUBSET Documents
<1>1. request[r] \in Began \cup Runs \cup Holding
  BY DEF LockTypeOK
<1>. QED BY <1>1 DEF Began, Unsent, Ended, Served, Runs, Holding

LEMMA SaveRests ==
    ASSUME LockTypeOK, NEW r \in Requests, SaveDocument(r)
    PROVE  Rests(r) /\ request'[r] = Served /\ document' = document \cup request[r].numbers
<1>1. Served \in Began \cup Holding
  BY DEF Began
<1>2. /\ request' = [request EXCEPT ![r] = Served] /\ table' = table
      /\ document' = document \cup request[r].numbers
  BY DEF SaveDocument
<1>3. document' \in SUBSET Documents
  BY <1>2, HoldingNumbers DEF SaveDocument, LockTypeOK
<1>. QED BY <1>1, <1>2, <1>3, AtRestType DEF Rests, LockTypeOK

LEMMA LoseRests ==
    ASSUME LockTypeOK, NEW r \in Requests, LoseDocument(r)
    PROVE  /\ Rests(r) /\ document' = document
           /\ request'[r].state = "lost" /\ request'[r].numbers = request[r].numbers
<1> DEFINE q == [request[r] EXCEPT !.state = "lost"]
<1>1. request[r] \in Holding
  BY HoldingNumbers DEF LoseDocument
<1>2. q \in Began \cup Holding /\ q.state = "lost" /\ q.numbers = request[r].numbers
  BY <1>1 DEF Holding
<1>3. request' = [request EXCEPT ![r] = q] /\ table' = table /\ document' = document
  BY DEF LoseDocument
<1>4. document' \in SUBSET Documents
  BY <1>3 DEF LockTypeOK
<1>. QED BY <1>2, <1>3, <1>4, AtRestType DEF Rests, LockTypeOK

\* The five kinds of steps.
LEMMA Steps ==
    ASSUME LockTypeOK, Next
    PROVE  \E r \in Requests :
              \/ \E op \in Operations : Begin(r, op)
              \/ Take(r) \/ Commit(r)
              \/ Rollback(r) /\ Active(r)
              \/ SaveDocument(r) \/ LoseDocument(r)
<1>1. PICK r \in Requests : (\E op \in Operations : Begin(r, op)) \/ Work(r) \/ Break(r)
  BY DEF Next
<1>2. Refuse(r) => Rollback(r) /\ Active(r)
  BY DEF Refuse, Unfinished
<1>3. EndDeadlock(r) => Rollback(r) /\ Active(r)
  BY DEF EndDeadlock, Deadlocked, WaitsFor, Unfinished
<1>4. Fail(r) => Rollback(r) /\ Active(r)
  BY DEF Fail
<1>. QED BY <1>1, <1>2, <1>3, <1>4 DEF Work, Break

LEMMA HeldType ==
    ASSUME NEW p, NEW w \in Warehouses PROVE Held(p, w) \in Nat
<1> DEFINE its == {g \in Goods : ProductOf[g] = p}
           f == [g \in its |-> Stocked[g][w]]
<1>1. IsFiniteSet(its)
  BY LockConstants, FS_Subset
<1>2. \A g \in its : f[g] \in Nat
  BY LockConstants
<1>3. SumFunctionOnSet(f, its) \in Nat
  BY <1>1, <1>2, SumNat
<1>. QED BY <1>3 DEF Held

LEMMA StartsType ==
    ASSUME NEW row \in Rows
    PROVE  StartsWith(row) \in Seq(Nat) /\ Len(StartsWith(row)) <= 1
<1>1. CASE row \in Sequences \cup Serials \cup Batches
  BY <1>1 DEF StartsWith
<1>2. \A n \in Nat : RowOf(n) \in Seq(Nat) /\ Len(RowOf(n)) <= 1
  BY DEF RowOf
<1>3. CASE row \notin Sequences \cup Serials \cup Batches /\ row \in BatchStocks
  <2>1. row[3] \in Warehouses
    BY <1>3 DEF BatchStocks, BatchStock
  <2>2. Held(row[2], row[3]) \in Nat
    BY <2>1, HeldType
  <2>. QED BY <1>2, <1>3, <2>2 DEF StartsWith
<1>4. CASE row \notin Sequences \cup Serials \cup Batches /\ row \notin BatchStocks
  <2>1. row[2] \in Goods /\ row[3] \in Warehouses
    BY <1>4 DEF Rows, Items, Item
  <2>2. Stocked[row[2]][row[3]] \in Nat
    BY <2>1, LockConstants
  <2>. QED BY <1>2, <1>4, <2>2 DEF StartsWith
<1>. QED BY <1>1, <1>3, <1>4

LEMMA LockInitType == Init => LockTypeOK
<1> SUFFICES ASSUME Init PROVE LockTypeOK
  OBVIOUS
<1>1. table \in [Rows -> Seq(Nat)]
  BY StartsType DEF Init
<1>2. request \in [Requests -> Began \cup Runs \cup Holding]
  BY DEF Init, Began
<1>3. \A r \in Requests : ~ Active(r)
  BY DEF Init, Active, Unsent
<1>. QED BY <1>1, <1>2, <1>3 DEF Init, LockTypeOK

LEMMA NextType == LockTypeOK /\ [Next]_vars => LockTypeOK'
<1>1. CASE LockTypeOK /\ UNCHANGED vars
  BY <1>1 DEF vars, LockTypeOK, Active
<1>2. CASE LockTypeOK /\ Next
  BY <1>2, Steps, BeginType, TakeType, LockCommitType, RollbackRests, SaveRests, LoseRests DEF Rests
<1>. QED BY <1>1, <1>2

LEMMA InitAndNext == Spec => Init /\ [][Next]_vars
BY PTL DEF Spec

\* Every row, copy, number and document stays within its type: no quantity that is
\* committed, or that a transaction is about to commit, is ever negative, and a
\* transaction has a copy of every stock row and counter it has come past.
THEOREM TypeCorrect == Spec => []LockTypeOK
BY InitAndNext, LockInitType, NextType, PTL

----------------------------------------------------------------------------
(* Rows are inserted once.                                                 *)

\* What a step that leaves the table alone keeps, if the request it is of has no copies.
LEMMA QuietLocks ==
    ASSUME LockInv, LockTypeOK', NEW r \in Requests, table' = table,
           \A s \in Requests \ {r} : request'[s] = request[s],
           Active(r)' => DOMAIN request'[r].copy = {}
    PROVE  LockInv'
<1>1. ASSUME NEW s \in Requests, NEW row \in Rows, Holds(s, row)'
      PROVE  s # r /\ Holds(s, row)
  BY <1>1 DEF Holds, Active
<1>2. Exclusive'
  BY <1>1 DEF LockInv, Exclusive
<1>3. ASSUME NEW s \in Requests, Active(s)' PROVE Kept(s)'
  BY <1>3 DEF LockInv, Kept, Active
<1>. QED BY <1>2, <1>3 DEF LockInv, OneRowPerKey

LEMMA TakeLocks ==
    ASSUME LockInv, NEW r \in Requests, Take(r)
    PROVE  LockInv'
<1> DEFINE q == request[r]
           row == Step(r).row
           a == After(r)
<1>1. LockTypeOK /\ LockTypeOK' /\ Unfinished(r) /\ Active(r) /\ WaitsFor(r) = {} /\ Found(r) <= 1
  BY TakeType DEF LockInv, Take, Unfinished
<1>2. /\ request'[r] = a /\ table' = table
      /\ \A s \in Requests \ {r} : request'[s] = request[s]
  BY <1>1, TakeIs
<1>3. row \in Rows /\ Found(r) \in Nat
  BY <1>1, LockStepType, FoundType
<1>4. q.made \subseteq DOMAIN q.copy
  BY <1>1, ActiveRuns DEF Copied
<1>5. /\ q.made \subseteq a.made
      /\ a.made # q.made => Found(r) = 0 /\ a.made = q.made \cup {row}
      /\ Found(r) = 0 => row \in a.made
      /\ DOMAIN a.copy # DOMAIN q.copy => Selects(r) /\ DOMAIN a.copy = DOMAIN q.copy \cup {row}
  BY DEF After, Running
<1>6. ASSUME NEW s \in Requests \ {r}, NEW x \in Rows, Holds(s, x)', Holds(r, x)'
      PROVE  FALSE
  <2>1. Holds(s, x)
    BY <1>2, <1>6 DEF Holds, Active
  <2>2. x \in DOMAIN a.copy /\ (x \in a.made => Unique(x))
    BY <1>2, <1>6 DEF Holds
  <2>3. CASE x \in DOMAIN q.copy
    <3>1. Holds(r, x)
      BY <1>1, <1>5, <2>2, <2>3 DEF Holds
    <3>. QED BY <2>1, <3>1 DEF LockInv, Exclusive
  <2>4. CASE x \notin DOMAIN q.copy
    <3>1. x = row /\ Selects(r)
      BY <1>5, <2>2, <2>4
    <3>. QED BY <1>1, <2>1, <3>1 DEF WaitsFor
  <2>. QED BY <2>3, <2>4
<1>7. Exclusive'
  <2>1. ASSUME NEW s \in Requests \ {r}, NEW x \in Rows, Holds(s, x)' PROVE Holds(s, x)
    BY <1>2, <2>1 DEF Holds, Active
  <2>2. ASSUME NEW s \in Requests, NEW t \in Requests, NEW x \in Rows, Holds(s, x)', Holds(t, x)'
        PROVE  s = t
    <3>1. CASE s = r \/ t = r
      BY <1>6, <2>2, <3>1
    <3>2. CASE s # r /\ t # r
      BY <2>1, <2>2, <3>2 DEF LockInv, Exclusive
    <3>. QED BY <3>1, <3>2
  <2>. QED BY <2>2 DEF Exclusive
<1>8. ASSUME NEW x \in DOMAIN a.copy
      PROVE  IF x \in a.made THEN Unique(x) => table[x] = <<>> ELSE table[x] # <<>>
  <2>1. CASE x \in DOMAIN q.copy /\ (x \in a.made => x \in q.made)
    BY <1>1, <1>5, <2>1 DEF LockInv, Kept
  <2>2. CASE x \in a.made /\ x \notin q.made
    <3>1. Found(r) = 0 /\ x = row
      BY <1>5, <2>2
    <3>. QED BY <1>1, <2>2, <3>1, FoundType
  <2>3. CASE x \notin DOMAIN q.copy /\ x \notin a.made
    <3>1. x = row /\ Found(r) # 0 /\ row \notin q.made
      BY <1>4, <1>5, <2>3
    <3>2. Len(table[row]) # 0
      <4>1. table[row] \in Seq(Nat)
        BY <1>1, <1>3 DEF LockTypeOK
      <4>. QED BY <3>1, <4>1 DEF Found
    <3>. QED BY <2>3, <3>1, <3>2
  <2>. QED BY <1>4, <2>1, <2>2, <2>3
<1>9. ASSUME NEW s \in Requests, Active(s)' PROVE Kept(s)'
  <2>1. CASE s = r
    BY <1>2, <1>8, <2>1 DEF Kept
  <2>2. CASE s # r
    BY <1>2, <1>9, <2>2 DEF LockInv, Kept, Active
  <2>. QED BY <2>1, <2>2
<1>. QED BY <1>1, <1>2, <1>7, <1>9 DEF LockInv, OneRowPerKey

\* What another transaction holds is not what the one that commits writes over.
LEMMA CommitSpares ==
    ASSUME LockInv, NEW r \in Requests, Commit(r), NEW s \in Requests \ {r}, Active(s),
           NEW row \in DOMAIN request[s].copy
    PROVE  /\ row \in Rows /\ table[row] \in Seq(Nat)
           /\ \/ table'[row] = table[row]
              \/ ~ Unique(row) /\ \E n \in Nat : table'[row] = Append(table[row], n)
              \/ ~ Unique(row) /\ row \in request[s].made
<1>1. LockTypeOK /\ Active(r) /\ table' = Written(r)
  BY DEF LockInv, Commit
<1>2. row \in Rows
  BY <1>1, ActiveRuns, CopyType
<1>3. table[row] \in Seq(Nat)
  BY <1>1, <1>2 DEF LockTypeOK
<1>4. CASE row \notin DOMAIN request[r].copy
  BY <1>1, <1>2, <1>3, <1>4, WrittenRow
<1>5. CASE row \in DOMAIN request[r].copy
  <2>1. ~ (Holds(r, row) /\ Holds(s, row))
    BY <1>2 DEF LockInv, Exclusive
  <2>2. ~ Unique(row)
    BY <1>1, <1>5, <2>1 DEF Holds
  <2>3. CASE row \in request[r].made
    BY <1>1, <1>2, <1>3, <2>2, <2>3, WrittenRow, ZenonT(60)
  <2>4. CASE row \notin request[r].made
    BY <1>1, <1>2, <1>3, <1>5, <2>1, <2>2, <2>4 DEF Holds
  <2>. QED BY <2>3, <2>4
<1>. QED BY <1>4, <1>5

LEMMA CommitLocks ==
    ASSUME LockInv, NEW r \in Requests, Commit(r)
    PROVE  LockInv'
<1>1. /\ LockTypeOK /\ LockTypeOK' /\ ~ Active(r)' /\ table' = Written(r) /\ Active(r)
      /\ \A s \in Requests \ {r} : request'[s] = request[s]
  BY LockCommitType DEF LockInv, Commit
<1>2. Exclusive'
  <2>1. ASSUME NEW s \in Requests, NEW row \in Rows, Holds(s, row)'
        PROVE  Holds(s, row)
    BY <1>1, <2>1 DEF Holds, Active
  <2>. QED BY <2>1 DEF LockInv, Exclusive
<1>3. ASSUME NEW s \in Requests, Active(s)' PROVE Kept(s)'
  <2>1. s # r /\ Active(s) /\ request'[s] = request[s]
    BY <1>1, <1>3 DEF Active
  <2>2. ASSUME NEW row \in DOMAIN request[s].copy
        PROVE  IF row \in request[s].made THEN Unique(row) => table'[row] = <<>>
                                          ELSE table'[row] # <<>>
    <3>1. IF row \in request[s].made THEN Unique(row) => table[row] = <<>>
                                     ELSE table[row] # <<>>
      BY <2>1 DEF LockInv, Kept
    <3>2. \A n \in Nat : table[row] \in Seq(Nat) => Append(table[row], n) # <<>>
      OBVIOUS
    <3>. QED BY <1>1, <2>1, <3>1, <3>2, CommitSpares
  <2>. QED BY <2>1, <2>2 DEF Kept
<1>4. ASSUME NEW row \in Rows, Unique(row) PROVE Len(table'[row]) <= 1
  <2>1. Len(table[row]) <= 1 /\ table[row] \in Seq(Nat)
    BY <1>1, <1>4 DEF LockInv, OneRowPerKey, Unique, LockTypeOK
  <2>2. CASE row \in request[r].made
    <3>1. row \in DOMAIN request[r].copy
      BY <1>1, <2>2, ActiveRuns DEF Copied
    <3>2. table[row] = <<>>
      BY <1>1, <1>4, <2>2, <3>1 DEF LockInv, Kept
    <3>3. request[r].copy[row] \in Nat /\ table'[row] = Append(<<>>, request[r].copy[row])
      BY <1>1, <2>2, <3>2, WrittenRow
    <3>. QED BY <3>3
  <2>3. CASE row \notin request[r].made
    BY <1>1, <2>1, <2>3, WrittenRow
  <2>. QED BY <2>2, <2>3
<1>5. OneRowPerKey'
  BY <1>4 DEF OneRowPerKey, Unique
<1>. QED BY <1>1, <1>2, <1>3, <1>5 DEF LockInv

LEMMA InitLocks == Init => LockInv
<1> SUFFICES ASSUME Init PROVE LockInv
  OBVIOUS
<1>1. \A r \in Requests : ~ Active(r)
  BY DEF Init, Active, Unsent
<1>2. \A row \in Rows : Len(table[row]) <= 1
  BY StartsType DEF Init
<1>. QED BY <1>1, <1>2, LockInitType DEF LockInv, Exclusive, Holds, OneRowPerKey

LEMMA NextLocks == LockInv /\ [Next]_vars => LockInv'
<1>1. CASE LockInv /\ UNCHANGED vars
  <2>1. LockTypeOK'
    BY <1>1, NextType DEF LockInv
  <2>2. \A s \in Requests : Active(s)' = Active(s) /\ Kept(s)' = Kept(s) /\ \A row : Holds(s, row)' = Holds(s, row)
    BY <1>1 DEF vars, Active, Kept, Holds
  <2>3. OneRowPerKey'
    BY <1>1 DEF vars, LockInv, OneRowPerKey
  <2>. QED BY <1>1, <2>1, <2>2, <2>3 DEF LockInv, Exclusive
<1>2. CASE LockInv /\ Next
  <2>1. PICK r \in Requests :
              \/ \E op \in Operations : Begin(r, op)
              \/ Take(r) \/ Commit(r)
              \/ Rollback(r) /\ Active(r)
              \/ SaveDocument(r) \/ LoseDocument(r)
    BY <1>2, Steps DEF LockInv
  <2>2. CASE Take(r)
    BY <1>2, <2>2, TakeLocks
  <2>3. CASE Commit(r)
    BY <1>2, <2>3, CommitLocks
  <2>4. CASE (Rollback(r) /\ Active(r)) \/ SaveDocument(r) \/ LoseDocument(r)
    <3>1. Rests(r)
      BY <1>2, <2>4, RollbackRests, SaveRests, LoseRests DEF LockInv
    <3>. QED BY <1>2, <3>1, QuietLocks DEF Rests
  <2>5. ASSUME NEW op \in Operations, Begin(r, op) PROVE LockInv'
    <3>1. /\ LockTypeOK' /\ table' = table /\ DOMAIN request'[r].copy = {}
          /\ \A s \in Requests \ {r} : request'[s] = request[s]
      BY <1>2, <2>5, BeginType DEF LockInv
    <3>. QED BY <1>2, <3>1, QuietLocks
  <2>. QED BY <2>1, <2>2, <2>3, <2>4, <2>5
<1>. QED BY <1>1, <1>2

\* However requests overlap, fail, deadlock or commit: no key that the database can
\* tell apart is ever inserted twice (StockItem.Meta.unique_together, get_or_create).
THEOREM RowsAreUnique == Spec => []OneRowPerKey
<1>1. LockInv => OneRowPerKey
  BY DEF LockInv
<1>. QED BY <1>1, InitAndNext, InitLocks, NextLocks, PTL

----------------------------------------------------------------------------
(* Sums over the rows of a key, and over the steps of an operation.        *)

SumOf(seq) == SumFunctionOnSet(seq, DOMAIN seq)

LEMMA SumOfType ==
    ASSUME NEW seq \in Seq(Nat)
    PROVE  /\ IsFiniteSet(DOMAIN seq) /\ SumOf(seq) \in Nat
           /\ \A i \in DOMAIN seq : seq[i] \in Nat
<1>1. DOMAIN seq = 1..Len(seq) /\ Len(seq) \in Nat /\ \A i \in DOMAIN seq : seq[i] \in Nat
  OBVIOUS
<1>2. IsFiniteSet(DOMAIN seq)
  BY <1>1, FS_Interval
<1>. QED BY <1>1, <1>2, SumNat DEF SumOf

LEMMA SumOfEmpty == SumOf(<<>>) = 0
<1>1. DOMAIN <<>> = {}
  OBVIOUS
<1>. QED BY <1>1, SumEmpty DEF SumOf

LEMMA SumOfAppend ==
    ASSUME NEW seq \in Seq(Nat), NEW n \in Nat
    PROVE  SumOf(Append(seq, n)) = SumOf(seq) + n
<1> DEFINE new == Append(seq, n)
           S == DOMAIN seq
           m == Len(seq) + 1
<1>1. IsFiniteSet(S) /\ \A i \in S : seq[i] \in Int
  BY SumOfType
<1>2. m \notin S /\ DOMAIN new = S \cup {m} /\ new[m] = n /\ \A i \in S : new[i] = seq[i]
  OBVIOUS
<1> HIDE DEF new, S, m
<1>3. SumFunctionOnSet(new, S \cup {m}) = SumFunctionOnSet(seq, S) + new[m]
  BY <1>1, <1>2, SumJoin
<1>. QED BY <1>2, <1>3 DEF SumOf, new, S

LEMMA SumOfExcept ==
    ASSUME NEW seq \in Seq(Nat), seq # <<>>, NEW v \in Nat
    PROVE  SumOf([seq EXCEPT ![1] = v]) = SumOf(seq) + v - seq[1]
<1> DEFINE new == [seq EXCEPT ![1] = v]
           S == DOMAIN seq
<1>1. IsFiniteSet(S) /\ \A i \in S : seq[i] \in Int
  BY SumOfType
<1>2. 1 \in S /\ DOMAIN new = S /\ new[1] = v /\ \A i \in S \ {1} : new[i] = seq[i]
  OBVIOUS
<1>3. \A i \in S : seq[i] \in Int /\ new[i] \in Int
  BY <1>1, <1>2
<1> HIDE DEF new, S
<1>4. SumFunctionOnSet(new, S) = SumFunctionOnSet(seq, S) + new[1] - seq[1]
  BY <1>1, <1>2, <1>3, SumChange
<1>. QED BY <1>2, <1>4 DEF SumOf, new, S

LEMMA NoMoreThanOne == ASSUME NEW k \in Nat, k # 0, k <= 1 PROVE k = 1
OBVIOUS

LEMMA SumOfFirst ==
    ASSUME NEW seq \in Seq(Nat), seq # <<>>
    PROVE  /\ seq[1] \in Nat /\ seq[1] <= SumOf(seq)
           /\ Len(seq) <= 1 => SumOf(seq) = seq[1]
<1> DEFINE S == DOMAIN seq
           R == S \ {1}
<1>1. IsFiniteSet(S) /\ \A i \in S : seq[i] \in Nat
  BY SumOfType
<1>2. 1 \in S /\ (Len(seq) <= 1 => S = {1})
  <2>1. S = 1..Len(seq) /\ Len(seq) \in Nat /\ Len(seq) # 0
    OBVIOUS
  <2> HIDE DEF S
  <2>2. Len(seq) <= 1 => Len(seq) = 1
    BY <2>1, NoMoreThanOne
  <2>. QED BY <2>1, <2>2
<1>3. IsFiniteSet(R) /\ \A i \in R : seq[i] \in Nat
  BY <1>1, FS_Subset
<1> HIDE DEF S
<1>4. SumFunctionOnSet(seq, S) = seq[1] + SumFunctionOnSet(seq, R)
  BY <1>1, <1>2, SumRemove
<1> HIDE DEF R
<1>5. SumFunctionOnSet(seq, R) \in Nat
  BY <1>3, SumNat
<1>6. Len(seq) <= 1 => SumFunctionOnSet(seq, S) = seq[1]
  BY <1>1, <1>2, SumSingle
<1>. QED BY <1>1, <1>2, <1>4, <1>5, <1>6 DEF SumOf, S

LEMMA StepsFinite ==
    ASSUME NEW op \in Operations, NEW S \in SUBSET DOMAIN op.steps
    PROVE  IsFiniteSet(S) /\ \A n \in S : op.steps[n].by \in Int
<1>1. IsFiniteSet(DOMAIN op.steps)
  BY StepsType, FS_Interval
<1>. QED BY <1>1, StepsType, FS_Subset

LEMMA ByType ==
    ASSUME NEW op \in Operations, NEW S \in SUBSET DOMAIN op.steps PROVE By(op, S) \in Int
<1> DEFINE f == [n \in S |-> op.steps[n].by]
<1>1. IsFiniteSet(S) /\ \A n \in S : f[n] \in Int
  BY StepsFinite
<1> HIDE DEF f
<1>2. SumFunctionOnSet(f, S) \in Int
  BY <1>1, SumInt
<1>. QED BY <1>2 DEF By, f

LEMMA ByNone == ASSUME NEW op PROVE By(op, {}) = 0
BY SumEmpty DEF By

LEMMA ByJoin ==
    ASSUME NEW op \in Operations, NEW S \in SUBSET DOMAIN op.steps,
           NEW n \in DOMAIN op.steps, n \notin S
    PROVE  By(op, S \cup {n}) = By(op, S) + op.steps[n].by
<1> DEFINE T == S \cup {n}
           f == [k \in S |-> op.steps[k].by]
           g == [k \in T |-> op.steps[k].by]
<1>1. IsFiniteSet(S) /\ \A k \in S : op.steps[k].by \in Int
  BY StepsFinite
<1>2. op.steps[n].by \in Int
  BY StepsType
<1>3. \A k \in S : f[k] \in Int /\ g[k] = f[k]
  BY <1>1
<1>4. g[n] = op.steps[n].by /\ g[n] \in Int
  BY <1>2
<1> HIDE DEF f, g, T
<1>5. SumFunctionOnSet(g, S \cup {n}) = SumFunctionOnSet(f, S) + g[n]
  <2>1. IsFiniteSet(S) /\ n \notin S /\ g[n] \in Int
    BY <1>1, <1>4
  <2>. QED BY <1>3, <2>1, SumJoin
<1>. QED BY <1>4, <1>5 DEF By, f, g, T

LEMMA ByOne ==
    ASSUME NEW op \in Operations, NEW n \in DOMAIN op.steps
    PROVE  By(op, {n}) = op.steps[n].by
<1>1. {} \in SUBSET DOMAIN op.steps /\ {n} = {} \cup {n} /\ op.steps[n].by \in Int
  BY StepsType
<1>2. By(op, {} \cup {n}) = By(op, {}) + op.steps[n].by
  BY <1>1, ByJoin
<1>. QED BY <1>1, <1>2, ByNone

----------------------------------------------------------------------------
(* What a transaction has made of the rows it holds.                       *)

LEMMA ReckonedStays ==
    ASSUME NEW s \in Requests, NEW row, request'[s] = request[s],
           Base(s, row)' = Base(s, row), Reckoned(s, row)
    PROVE  Reckoned(s, row)'
BY DEF Reckoned, Past

LEMMA QuietReckons ==
    ASSUME ReckonInv, NEW r \in Requests, table' = table,
           \A s \in Requests \ {r} : request'[s] = request[s],
           Active(r)' => DOMAIN request'[r].copy = {}
    PROVE  ReckonInv'
<1>1. ASSUME NEW s \in Requests, Active(s)',
             NEW row \in DOMAIN request'[s].copy \cap Counted
      PROVE  Reckoned(s, row)'
  <2>1. s # r /\ request'[s] = request[s] /\ Active(s)
    BY <1>1 DEF Active
  <2>2. Reckoned(s, row) /\ Base(s, row)' = Base(s, row)
    BY <1>1, <2>1 DEF ReckonInv, Base
  <2>. QED BY <2>1, <2>2, ReckonedStays
<1>. QED BY <1>1 DEF ReckonInv

\* The row that is taken next: what the query finds is what the steps so far have
\* made of the row in the table.
LEMMA TakeFinds ==
    ASSUME LockInv, ReckonInv, NEW r \in Requests, Take(r), Step(r).row \in Counted
    PROVE  LET row == Step(r).row
               base == IF row \in After(r).made THEN 0 ELSE table[row][1]
           IN  /\ Selects(r) /\ row \in DOMAIN After(r).copy
               /\ After(r).copy[row] = Value(r) + Step(r).by
               /\ Value(r) = base + By(request[r].op, Past(r, row)) /\ base \in Nat
               /\ row \in DOMAIN request[r].copy => base = Base(r, row)
               /\ row \notin DOMAIN request[r].copy => Past(r, row) = {}
<1> DEFINE q == request[r]
           row == Step(r).row
           base == IF row \in After(r).made THEN 0 ELSE table[row][1]
<1>1. LockTypeOK /\ Unfinished(r) /\ Active(r) /\ Found(r) <= 1
  BY DEF LockInv, Take, Unfinished
<1>2. row \in Rows /\ Found(r) \in Nat /\ Copied(q) /\ table[row] \in Seq(Nat)
  BY <1>1, LockStepType, FoundType, ActiveRuns DEF LockTypeOK
<1>3. Selects(r)
  BY <1>1, LockStepType, KindsDiffer DEF Selects
<1>4. /\ row \in DOMAIN After(r).copy /\ After(r).copy[row] = Value(r) + Step(r).by
      /\ (row \in After(r).made <=> row \in q.made \/ Found(r) = 0)
  BY <1>3 DEF After, Running
<1>5. CASE row \in DOMAIN q.copy
  <2>1. IF row \in q.made THEN TRUE ELSE table[row] # <<>>
    BY <1>1, <1>5 DEF LockInv, Kept
  <2>2. row \in q.made \/ Found(r) # 0
    BY <1>1, <2>1, FoundType
  <2>3. base = Base(r, row)
    BY <1>4, <2>2 DEF Base
  <2>4. Value(r) = q.copy[row]
    BY <1>5 DEF Value
  <2>5. q.copy[row] = Base(r, row) + By(q.op, Past(r, row))
    BY <1>1, <1>5 DEF ReckonInv, Reckoned
  <2>6. base \in Nat
    BY <1>2, <2>1, <2>3, SumOfFirst DEF Base
  <2>. QED BY <1>3, <1>4, <1>5, <2>3, <2>4, <2>5, <2>6
<1>6. CASE row \notin DOMAIN q.copy
  <2>1. Past(r, row) = {}
    BY <1>2, <1>6 DEF Past, At, Copied
  <2>2. row \notin q.made
    BY <1>2, <1>6 DEF Copied
  <2>3. CASE table[row] = <<>>
    <3>1. Found(r) = 0 /\ Value(r) = 0
      BY <1>6, <2>2, <2>3 DEF Found, Value
    <3>. QED BY <1>3, <1>4, <1>6, <2>1, <3>1, ByNone
  <2>4. CASE table[row] # <<>>
    <3>1. Value(r) = table[row][1]
      BY <1>2, <1>6, <2>4 DEF Value
    <3>2. Found(r) # 0
      BY <1>1, <2>4, FoundType
    <3>3. base = table[row][1] /\ base \in Nat
      BY <1>2, <1>4, <2>2, <2>4, <3>2, SumOfFirst
    <3>. QED BY <1>3, <1>4, <1>6, <2>1, <3>1, <3>3, ByNone
  <2>. QED BY <2>3, <2>4
<1>. QED BY <1>5, <1>6

LEMMA TakeReckons ==
    ASSUME LockInv, ReckonInv, NEW r \in Requests, Take(r)
    PROVE  ReckonInv'
<1> DEFINE q == request[r]
           a == After(r)
           taken == Step(r).row
<1>1. /\ LockTypeOK /\ Unfinished(r) /\ Active(r) /\ Value(r) + Step(r).by >= 0
  BY DEF LockInv, Take, Unfinished
<1>2. /\ request'[r] = a /\ table' = table
      /\ \A s \in Requests \ {r} : request'[s] = request[s]
  BY <1>1, TakeIs
<1>3. /\ q.op \in Operations /\ q.pc \in DOMAIN q.op.steps /\ q.pc \in Nat
      /\ \A n \in DOMAIN q.op.steps : n \in Nat /\ q.op.steps[n].by \in Int
      /\ q.op.steps[q.pc] = Step(r)
  BY <1>1, LockStepType, CopyType, StepsType DEF Step
<1>4. a.op = q.op /\ a.pc = q.pc + 1
  BY DEF After, Running
<1>5. ASSUME NEW row \in DOMAIN a.copy \cap Counted PROVE Reckoned(r, row)'
  <2> DEFINE past == Past(r, row)
             later == {n \in At(q.op, row) : n < q.pc + 1}
             base == IF row \in a.made THEN 0 ELSE table[row][1]
  <2>1. Past(r, row)' = later /\ Base(r, row)' = base
    BY <1>2, <1>4 DEF Past, Base
  <2>2. past \in SUBSET DOMAIN q.op.steps /\ q.pc \notin past
    BY <1>3 DEF Past, At
  <2>3. CASE row # taken
    <3>1. later = past
      <4>1. ASSUME NEW n \in At(q.op, row) PROVE n < q.pc + 1 <=> n < q.pc
        <5>1. n \in DOMAIN q.op.steps /\ n # q.pc
          BY <1>3, <2>3 DEF At
        <5>. QED BY <1>3, <5>1
      <4>. QED BY <4>1 DEF Past
    <3>2. row \in DOMAIN q.copy /\ a.copy[row] = q.copy[row] /\ base = Base(r, row)
      BY <2>3 DEF After, Running, Base
    <3>3. Reckoned(r, row)
      BY <1>1, <3>2 DEF ReckonInv
    <3>4. /\ a.copy[row] = base + By(q.op, later)
          /\ \A n \in later : base + By(q.op, {m \in later : m <= n}) >= 0
      BY <3>1, <3>2, <3>3 DEF Reckoned
    <3>. QED BY <1>2, <1>4, <2>1, <3>4 DEF Reckoned
  <2>4. CASE row = taken
    <3>1. /\ a.copy[row] = Value(r) + Step(r).by
          /\ Value(r) = base + By(q.op, past) /\ base \in Nat
          /\ row \in DOMAIN q.copy => base = Base(r, row)
          /\ row \notin DOMAIN q.copy => past = {}
      BY <2>4, TakeFinds
    <3>2. later = past \cup {q.pc}
      <4>1. ASSUME NEW n \in At(q.op, row) PROVE n < q.pc + 1 <=> n < q.pc \/ n = q.pc
        <5>1. n \in DOMAIN q.op.steps
          BY DEF At
        <5>. QED BY <1>3, <5>1
      <4>2. q.pc \in At(q.op, row)
        BY <1>3, <2>4 DEF At
      <4>. QED BY <1>3, <4>1, <4>2 DEF Past
    <3>3. By(q.op, later) = By(q.op, past) + Step(r).by
      BY <1>3, <2>2, <3>2, ByJoin
    <3>4. By(q.op, past) \in Int /\ Step(r).by \in Int
      BY <1>3, <2>2, ByType
    <3>5. a.copy[row] = base + By(q.op, later)
      BY <3>1, <3>3, <3>4
    <3>6. ASSUME NEW n \in later
          PROVE  base + By(q.op, {m \in later : m <= n}) >= 0
      <4>1. CASE n = q.pc
        <5>1. {m \in later : m <= n} = later
          <6>1. \A m \in later : m <= q.pc
            BY <1>3 DEF At
          <6>. QED BY <4>1, <6>1
        <5>. QED BY <1>1, <3>1, <3>5, <5>1
      <4>2. CASE n # q.pc
        <5>1. n \in past /\ n \in Nat /\ n < q.pc
          BY <1>3, <3>2, <4>2 DEF Past, At
        <5>2. ~ (q.pc <= n)
          BY <1>3, <5>1
        <5>3. {m \in later : m <= n} = {m \in past : m <= n}
          BY <3>2, <5>2
        <5>4. row \in DOMAIN q.copy
          BY <3>1, <5>1
        <5>5. Reckoned(r, row)
          BY <1>1, <5>4 DEF ReckonInv
        <5>. QED BY <3>1, <5>1, <5>3, <5>4, <5>5 DEF Reckoned
      <4>. QED BY <4>1, <4>2
    <3>. QED BY <1>2, <1>4, <2>1, <3>5, <3>6 DEF Reckoned
  <2>. QED BY <2>3, <2>4
<1>6. ASSUME NEW s \in Requests \ {r}, Active(s)',
             NEW row \in DOMAIN request'[s].copy \cap Counted
      PROVE  Reckoned(s, row)'
  <2>1. request'[s] = request[s] /\ Active(s)
    BY <1>2, <1>6 DEF Active
  <2>2. Reckoned(s, row) /\ Base(s, row)' = Base(s, row)
    BY <1>2, <1>6, <2>1 DEF ReckonInv, Base
  <2>. QED BY <2>1, <2>2, ReckonedStays
<1>. QED BY <1>2, <1>5, <1>6 DEF ReckonInv

LEMMA CommitReckons ==
    ASSUME LockInv, ReckonInv, NEW r \in Requests, Commit(r)
    PROVE  ReckonInv'
<1>1. ~ Active(r)' /\ \A s \in Requests \ {r} : request'[s] = request[s]
  BY LockCommitType DEF LockInv
<1>2. ASSUME NEW s \in Requests, Active(s)',
             NEW row \in DOMAIN request'[s].copy \cap Counted
      PROVE  Reckoned(s, row)'
  <2>1. s # r /\ request'[s] = request[s] /\ Active(s) /\ row \in DOMAIN request[s].copy
    BY <1>1, <1>2 DEF Active
  <2>2. Reckoned(s, row) /\ (row \notin request[s].made => table[row] # <<>>)
    BY <1>2, <2>1 DEF ReckonInv, LockInv, Kept
  <2>3. \/ table'[row] = table[row] \/ row \in request[s].made
        \/ \E n \in Nat : table'[row] = Append(table[row], n)
    BY <2>1, CommitSpares
  <2>4. table[row] \in Seq(Nat)
    BY <2>1, CommitSpares
  <2>5. \A n \in Nat : table[row] # <<>> => Append(table[row], n)[1] = table[row][1]
    BY <2>4
  <2>6. Base(s, row)' = Base(s, row)
    BY <2>1, <2>2, <2>3, <2>5 DEF Base
  <2>. QED BY <2>1, <2>2, <2>6, ReckonedStays
<1>. QED BY <1>2 DEF ReckonInv

LEMMA InitReckons == Init => ReckonInv
BY DEF Init, ReckonInv, Active, Unsent

LEMMA NextReckons == LockInv /\ ReckonInv /\ [Next]_vars => ReckonInv'
<1>1. CASE ReckonInv /\ UNCHANGED vars
  <2>1. request' = request /\ table' = table
    BY <1>1 DEF vars
  <2>2. ASSUME NEW s \in Requests, Active(s)',
               NEW row \in DOMAIN request'[s].copy \cap Counted
        PROVE  Reckoned(s, row)'
    BY <1>1, <2>1, <2>2, ReckonedStays DEF ReckonInv, Active, Base
  <2>. QED BY <2>2 DEF ReckonInv
<1>2. CASE LockInv /\ ReckonInv /\ Next
  <2>1. PICK r \in Requests :
              \/ \E op \in Operations : Begin(r, op)
              \/ Take(r) \/ Commit(r)
              \/ Rollback(r) /\ Active(r)
              \/ SaveDocument(r) \/ LoseDocument(r)
    BY <1>2, Steps DEF LockInv
  <2>2. CASE Take(r)
    BY <1>2, <2>2, TakeReckons
  <2>3. CASE Commit(r)
    BY <1>2, <2>3, CommitReckons
  <2>4. CASE (Rollback(r) /\ Active(r)) \/ SaveDocument(r) \/ LoseDocument(r)
    <3>1. Rests(r)
      BY <1>2, <2>4, RollbackRests, SaveRests, LoseRests DEF LockInv
    <3>. QED BY <1>2, <3>1, QuietReckons DEF Rests
  <2>5. ASSUME NEW op \in Operations, Begin(r, op) PROVE ReckonInv'
    <3>1. /\ table' = table /\ DOMAIN request'[r].copy = {}
          /\ \A s \in Requests \ {r} : request'[s] = request[s]
      BY <1>2, <2>5, BeginType DEF LockInv
    <3>. QED BY <1>2, <3>1, QuietReckons
  <2>. QED BY <2>1, <2>2, <2>3, <2>4, <2>5
<1>. QED BY <1>1, <1>2

----------------------------------------------------------------------------
(* Documents are numbered one after the other.                             *)

LEMMA TotalType ==
    ASSUME LockTypeOK, NEW row \in Rows
    PROVE  Total(row) \in Nat /\ Total(row) = SumOf(table[row]) /\ table[row] \in Seq(Nat)
BY SumOfType DEF LockTypeOK, Total, SumOf

LEMMA EnoughMore ==
    ASSUME NEW base \in Nat, NEW total \in Nat, base <= total, NEW by \in Int, base + by >= 0
    PROVE  total + by >= 0
OBVIOUS

\* A transaction that commits has taken all its steps, and changes the total of every
\* row by what they add up to.
LEMMA CommitMoves ==
    ASSUME LockInv, ReckonInv, NEW r \in Requests, Commit(r), NEW row \in Counted
    PROVE  LET op == request[r].op
           IN  /\ Total(row)' = Total(row) + By(op, At(op, row))
               /\ \A n \in At(op, row) : Total(row) + By(op, {m \in At(op, row) : m <= n}) >= 0
<1> DEFINE q == request[r]
           op == q.op
           copy == q.copy[row]
           by == By(op, At(op, row))
           new == SumOf(Written(r)[row])
<1>1. LockTypeOK /\ Active(r) /\ ~ Unfinished(r) /\ table' = Written(r) /\ LockTypeOK'
  BY LockCommitType DEF LockInv, Commit
<1>2. row \in Rows /\ Copied(q) /\ op \in Operations
  BY <1>1, KindsDiffer, ActiveRuns, CopyType
<1>3. table[row] \in Seq(Nat) /\ Total(row) = SumOf(table[row]) /\ Total(row) \in Nat
  BY <1>1, <1>2, TotalType
<1>4. Total(row)' = new
  BY <1>1 DEF Total, SumOf
<1>5. \A n \in DOMAIN op.steps : n < q.pc
  BY <1>1, NumberedType
<1>6. Past(r, row) = At(op, row)
  BY <1>5 DEF Past, At
<1>7. by \in Int /\ \A n : By(op, {m \in At(op, row) : m <= n}) \in Int
  BY <1>2, ByType DEF At
<1>8. CASE row \notin DOMAIN q.copy
  <2>1. At(op, row) = {}
    BY <1>2, <1>5, <1>8 DEF Copied, At
  <2>2. by = 0
    BY <2>1, ByNone
  <2>3. Written(r)[row] = table[row]
    BY <1>1, <1>2, <1>8, WrittenRow
  <2>. QED BY <1>3, <1>4, <2>1, <2>2, <2>3
<1>9. CASE row \in DOMAIN q.copy
  <2>1. /\ copy = Base(r, row) + by
        /\ \A n \in At(op, row) : Base(r, row) + By(op, {m \in At(op, row) : m <= n}) >= 0
    BY <1>1, <1>6, <1>9 DEF ReckonInv, Reckoned
  <2>2. copy \in Nat
    BY <1>1, <1>2, <1>9, WrittenRow DEF Copied
  <2>3. CASE row \in q.made
    <3>1. Base(r, row) = 0
      BY <2>3 DEF Base
    <3>2. new = SumOf(table[row]) + copy
      BY <1>1, <1>2, <1>3, <2>2, <2>3, WrittenRow, SumOfAppend
    <3>3. Total(row)' = Total(row) + by
      BY <1>3, <1>4, <1>7, <2>1, <2>2, <3>1, <3>2
    <3>4. Base(r, row) \in Nat /\ Base(r, row) <= Total(row)
      BY <1>3, <3>1
    <3>5. \A n \in At(op, row) : Total(row) + By(op, {m \in At(op, row) : m <= n}) >= 0
      BY <1>3, <1>7, <2>1, <3>4, EnoughMore
    <3>. QED BY <3>3, <3>5
  <2>4. CASE row \notin q.made
    <3>1. table[row] # <<>> /\ Base(r, row) = table[row][1]
      BY <1>1, <1>9, <2>4 DEF LockInv, Kept, Base
    <3>2. table[row][1] \in Nat /\ table[row][1] <= Total(row)
      BY <1>3, <3>1, SumOfFirst
    <3>3. Written(r)[row] = [table[row] EXCEPT ![1] = copy]
      BY <1>1, <1>2, <1>9, <2>4, WrittenRow
    <3>4. new = SumOf(table[row]) + copy - table[row][1]
      BY <1>3, <2>2, <3>1, <3>3, SumOfExcept
    <3>5. Total(row)' = Total(row) + by
      BY <1>3, <1>4, <1>7, <2>1, <2>2, <3>1, <3>2, <3>4
    <3>6. \A n \in At(op, row) : Total(row) + By(op, {m \in At(op, row) : m <= n}) >= 0
      BY <1>3, <1>7, <2>1, <3>1, <3>2, EnoughMore
    <3>. QED BY <3>5, <3>6
  <2>. QED BY <2>3, <2>4
<1>. QED BY <1>8, <1>9

\* An operation adds one to the counters of its documents and leaves the others alone.
LEMMA NumberedOnce ==
    ASSUME NEW op \in Operations, NEW row \in Sequences
    PROVE  /\ row \in NumbersOf(op.steps) => By(op, At(op, row)) = 1
           /\ row \notin NumbersOf(op.steps) => At(op, row) = {} /\ By(op, At(op, row)) = 0
<1>1. DOMAIN op.steps = 1..Len(op.steps)
  BY StepsType
<1>2. ASSUME row \in NumbersOf(op.steps) PROVE By(op, At(op, row)) = 1
  <2>1. PICK n \in DOMAIN op.steps : op.steps[n].row = row
    BY <1>1, <1>2 DEF NumbersOf
  <2>2. op.steps[n].by = 1 /\ \A j \in DOMAIN op.steps : op.steps[j].row = row => j = n
    BY <2>1, OperationConstants
  <2>3. At(op, row) = {n}
    BY <2>1, <2>2 DEF At
  <2>. QED BY <2>2, <2>3, ByOne
<1>3. ASSUME row \notin NumbersOf(op.steps) PROVE At(op, row) = {}
  BY <1>1, <1>3 DEF NumbersOf, At
<1>. QED BY <1>2, <1>3, ByNone

\* The number that a transaction gives a document is the next one.
LEMMA NextNumber ==
    ASSUME LockInv, ReckonInv, NEW r \in Requests, Commit(r),
           NEW row \in NumbersOf(request[r].op.steps)
    PROVE  row \in Sequences /\ request[r].copy[row] = Total(row) + 1
<1> DEFINE q == request[r]
           op == q.op
<1>1. LockTypeOK /\ Active(r) /\ ~ Unfinished(r)
  BY DEF LockInv, Commit
<1>2. op \in Operations /\ row \in DOMAIN q.copy /\ row \in Sequences
      /\ \A n \in DOMAIN op.steps : n < q.pc
  BY <1>1, ActiveRuns, CopyType, NumberedType DEF NumbersOf
<1>3. row \in Counted /\ row \in Rows /\ Unique(row) /\ row \notin Items
  BY <1>2, KindsDiffer DEF Counted
<1>4. Past(r, row) = At(op, row)
  BY <1>2 DEF Past, At
<1>5. q.copy[row] = Base(r, row) + 1
  BY <1>1, <1>2, <1>3, <1>4, NumberedOnce DEF ReckonInv, Reckoned
<1>6. /\ table[row] \in Seq(Nat) /\ Total(row) = SumOf(table[row]) /\ Len(table[row]) <= 1
      /\ IF row \in q.made THEN table[row] = <<>> ELSE table[row] # <<>>
  BY <1>1, <1>2, <1>3, TotalType DEF LockInv, Kept, OneRowPerKey
<1>7. Base(r, row) = Total(row)
  BY <1>6, SumOfEmpty, SumOfFirst DEF Base
<1>. QED BY <1>2, <1>5, <1>7

TotalSame == \A row \in Rows : Total(row)' = Total(row)

LEMMA QuietNumbers ==
    ASSUME NumberInv, table' = table, NumbersTaken' = NumbersTaken
    PROVE  NumberInv'
<1>1. \A row : Total(row)' = Total(row)
  BY DEF Total
<1>. QED BY <1>1 DEF NumberInv

LEMMA TakenType ==
    ASSUME LockTypeOK
    PROVE  NumbersTaken \in SUBSET Documents
BY HoldingNumbers DEF NumbersTaken, LockTypeOK

LEMMA CommitTakes ==
    ASSUME LockTypeOK, NEW r \in Requests, Commit(r)
    PROVE  NumbersTaken' = NumbersTaken \cup Numbered(r)
<1> DEFINE Kind(q) == q.state \in {"numbered", "lost"}
           q == request[r]
<1>1. q.state = "running" /\ \A s \in Requests \ {r} : request'[s] = request[s]
  BY LockCommitType DEF Commit, Active
<1>2. ASSUME q.op.alone PROVE NumbersTaken' = NumbersTaken \cup Numbered(r)
  <2>1. request'[r] = [state |-> "numbered", numbers |-> Numbered(r)] /\ document' = document
    BY <1>2 DEF Commit, LockTypeOK
  <2>2. Kind(request'[r]) /\ request'[r].numbers = Numbered(r)
    BY <2>1
  <2>3. ASSUME NEW d PROVE d \in NumbersTaken' <=> d \in NumbersTaken \cup Numbered(r)
    BY <1>1, <2>1, <2>2 DEF NumbersTaken
  <2>. QED BY <2>3
<1>3. ASSUME ~ q.op.alone PROVE NumbersTaken' = NumbersTaken \cup Numbered(r)
  <2>1. request'[r] = Served /\ document' = document \cup Numbered(r)
    BY <1>3 DEF Commit, LockTypeOK
  <2>2. ~ Kind(request'[r])
    BY <2>1 DEF Served
  <2>3. ASSUME NEW d PROVE d \in NumbersTaken' <=> d \in NumbersTaken \cup Numbered(r)
    BY <1>1, <2>1, <2>2 DEF NumbersTaken
  <2>. QED BY <2>3
<1>. QED BY <1>2, <1>3

LEMMA CommitNumbers ==
    ASSUME LockInv, ReckonInv, NumberInv, NEW r \in Requests, Commit(r)
    PROVE  NumberInv'
<1> DEFINE op == request[r].op
           new == Numbered(r)
<1>1. LockTypeOK /\ LockTypeOK' /\ op \in Operations /\ NumbersTaken' = NumbersTaken \cup new
  BY LockCommitType, CommitTakes, ActiveRuns, CopyType DEF LockInv, Commit
<1>2. \A d \in NumbersTaken : d.sequence \in Sequences /\ d.number \in 1..Total(d.sequence)
  BY <1>1, TakenType DEF NumberInv, Documents
<1>3. \A row \in Sequences :
         /\ Total(row) \in Nat
         /\ row \in NumbersOf(op.steps) => Total(row)' = Total(row) + 1
         /\ row \notin NumbersOf(op.steps) => Total(row)' = Total(row)
  <2>1. ASSUME NEW row \in Sequences
        PROVE  /\ Total(row) \in Nat
               /\ Total(row)' = Total(row) + By(op, At(op, row))
    BY <1>1, CommitMoves, TotalType, KindsDiffer DEF Counted
  <2>. QED BY <1>1, <2>1, NumberedOnce
<1>4. ASSUME NEW d \in new
      PROVE  d.sequence \in NumbersOf(op.steps) /\ d.sequence \in Sequences
             /\ d.number = Total(d.sequence) + 1 /\ d.by = r
             /\ d = [sequence |-> d.sequence, number |-> d.number, by |-> r]
  BY <1>4, NextNumber DEF Numbered
<1>5. \A row \in NumbersOf(op.steps) :
          \E d \in new : d.sequence = row /\ d.number = Total(row) + 1 /\ row \in Sequences
  <2>1. ASSUME NEW row \in NumbersOf(op.steps)
        PROVE  [sequence |-> row, number |-> request[r].copy[row], by |-> r] \in new
    BY DEF Numbered
  <2>. QED BY <2>1, NextNumber
<1>6. ASSUME NEW d \in NumbersTaken' PROVE d.number \in 1..Total(d.sequence)'
  <2>1. CASE d \in NumbersTaken
    BY <1>2, <1>3, <2>1
  <2>2. CASE d \in new
    BY <1>3, <1>4, <2>2
  <2>. QED BY <1>1, <2>1, <2>2
<1>7. ASSUME NEW d \in NumbersTaken', NEW e \in NumbersTaken', d.sequence = e.sequence, d.number = e.number
      PROVE  d = e
  <2>1. CASE d \in NumbersTaken /\ e \in NumbersTaken
    BY <1>7, <2>1 DEF NumberInv
  <2>2. CASE d \in new /\ e \in new
    BY <1>4, <1>7, <2>2
  <2>3. ASSUME NEW f \in NumbersTaken, NEW g \in new, f.sequence = g.sequence PROVE f.number # g.number
    BY <1>2, <1>3, <1>4, <2>3
  <2>. QED BY <1>1, <1>7, <2>1, <2>2, <2>3
<1>8. ASSUME NEW row \in Sequences, NEW n \in 1..Total(row)'
      PROVE  \E d \in NumbersTaken' : d.sequence = row /\ d.number = n
  <2>1. CASE n \in 1..Total(row)
    BY <1>1, <2>1 DEF NumberInv
  <2>2. CASE n \notin 1..Total(row)
    <3>1. row \in NumbersOf(op.steps) /\ n = Total(row) + 1
      BY <1>3, <1>8, <2>2
    <3>. QED BY <1>1, <1>5, <3>1
  <2>. QED BY <2>1, <2>2
<1>. QED BY <1>6, <1>7, <1>8 DEF NumberInv

LEMMA InitNumbers == Init => NumberInv
<1> SUFFICES ASSUME Init PROVE NumberInv
  OBVIOUS
<1>1. NumbersTaken = {}
  BY DEF Init, NumbersTaken, Unsent
<1>2. ASSUME NEW row \in Sequences PROVE Total(row) = 0
  <2>1. table[row] = <<>>
    BY DEF Init, Rows, StartsWith
  <2>. QED BY <2>1, SumOfEmpty DEF Total, SumOf
<1>. QED BY <1>1, <1>2 DEF NumberInv

LEMMA NextNumbers == LockInv /\ ReckonInv /\ NumberInv /\ [Next]_vars => NumberInv'
<1>1. CASE NumberInv /\ UNCHANGED vars
  BY <1>1, QuietNumbers DEF vars, NumbersTaken
<1>2. CASE LockInv /\ ReckonInv /\ NumberInv /\ Next
  <2>1. PICK r \in Requests :
              \/ \E op \in Operations : Begin(r, op)
              \/ Take(r) \/ Commit(r)
              \/ Rollback(r) /\ Active(r)
              \/ SaveDocument(r) \/ LoseDocument(r)
    BY <1>2, Steps DEF LockInv
  <2> DEFINE Kind(q) == q.state \in {"numbered", "lost"}
  <2>2. ASSUME ~ Kind(request[r]), ~ Kind(request'[r]), table' = table, document' = document,
               \A s \in Requests \ {r} : request'[s] = request[s]
        PROVE  NumberInv'
    <3>1. ASSUME NEW d PROVE d \in NumbersTaken' <=> d \in NumbersTaken
      BY <2>2 DEF NumbersTaken
    <3>. QED BY <1>2, <2>2, <3>1, QuietNumbers
  <2>3. CASE Commit(r)
    BY <1>2, <2>3, CommitNumbers
  <2>4. CASE Rollback(r) /\ Active(r)
    BY <1>2, <2>2, <2>4, RollbackRests DEF LockInv, Rests, Active, Ended
  <2>5. CASE Take(r)
    <3>1. request'[r] = After(r) /\ Active(r) /\ Active(r)'
      BY <1>2, <2>5, TakeIs, TakeType DEF LockInv, Take, Unfinished
    <3>. QED BY <1>2, <2>2, <2>5, <3>1, TakeIs DEF LockInv, Active
  <2>6. ASSUME NEW op \in Operations, Begin(r, op) PROVE NumberInv'
    BY <1>2, <2>2, <2>6, BeginType DEF LockInv, Active, Unsent
  <2>7. CASE SaveDocument(r)
    <3>1. /\ Kind(request[r]) /\ request'[r] = Served /\ table' = table
          /\ document' = document \cup request[r].numbers
          /\ \A s \in Requests \ {r} : request'[s] = request[s]
      BY <1>2, <2>7, SaveRests DEF LockInv, Rests, SaveDocument
    <3>2. ASSUME NEW d PROVE d \in NumbersTaken' <=> d \in NumbersTaken
      BY <3>1 DEF NumbersTaken, Served
    <3>. QED BY <1>2, <3>1, <3>2, QuietNumbers
  <2>8. CASE LoseDocument(r)
    <3>1. /\ Kind(request[r]) /\ Kind(request'[r]) /\ table' = table
          /\ document' = document /\ request'[r].numbers = request[r].numbers
          /\ \A s \in Requests \ {r} : request'[s] = request[s]
      BY <1>2, <2>8, LoseRests DEF LockInv, Rests, LoseDocument
    <3>2. ASSUME NEW d PROVE d \in NumbersTaken' <=> d \in NumbersTaken
      BY <3>1 DEF NumbersTaken
    <3>. QED BY <1>2, <3>1, <3>2, QuietNumbers
  <2>. QED BY <2>1, <2>3, <2>4, <2>5, <2>6, <2>7, <2>8
<1>. QED BY <1>1, <1>2

\* Distinct documents with distinct numbers are as many as their numbers.
LEMMA AsManyNumbers ==
    ASSUME NEW D, NEW k \in Nat, \A d \in D : d.number \in 1..k,
           \A d, e \in D : d.number = e.number => d = e
    PROVE  Cardinality({d.number : d \in D}) = Cardinality(D)
<1> DEFINE N == {d.number : d \in D}
           f == [n \in N |-> CHOOSE d \in D : d.number = n]
<1>1. \A n \in N : f[n] \in D /\ f[n].number = n
  OBVIOUS
<1>2. \A d \in D : d.number \in N /\ f[d.number] = d
  BY <1>1
<1>3. f \in [N -> D]
  BY <1>1
<1>4. N \in SUBSET (1..k)
  OBVIOUS
<1>5. IsFiniteSet(N)
  <2>1. IsFiniteSet(1..k)
    BY FS_Interval
  <2> HIDE DEF N
  <2>. QED BY <1>4, <2>1, FS_Subset
<1> HIDE DEF N, f
<1>6. f \in Bijection(N, D)
  BY <1>1, <1>2, <1>3 DEF Bijection, Injection, Surjection, IsInjective
<1>7. ExistsBijection(N, D)
  BY <1>6 DEF ExistsBijection
<1>8. Cardinality(D) = Cardinality(N)
  BY <1>5, <1>7, FS_Bijection
<1>. QED BY <1>8 DEF N

LEMMA NumbersFollow ==
    ASSUME LockTypeOK, NumberInv
    PROVE  NumbersRunOn
<1>1. ASSUME NEW row \in Sequences
      PROVE  LET numbered == {d \in document : d.sequence = row}
                 numbers  == {d.number : d \in numbered}
             IN  /\ Cardinality(numbers) = Cardinality(numbered)
                 /\ \/ numbers = 1..Total(row)
                    \/ \E r \in Requests : request[r].state \in {"numbered", "lost"}
                                             /\ \E d \in request[r].numbers : d.sequence = row
  <2> DEFINE numbered == {d \in document : d.sequence = row}
             numbers  == {d.number : d \in numbered}
             open == \E r \in Requests : request[r].state \in {"numbered", "lost"}
                                           /\ \E d \in request[r].numbers : d.sequence = row
  <2>1. Total(row) \in Nat
    BY TotalType, KindsDiffer DEF Counted
  <2>2. document \subseteq NumbersTaken
    BY DEF NumbersTaken
  <2>3. \A d \in numbered : d.number \in 1..Total(row)
    BY <2>2 DEF NumberInv
  <2>4. \A d, e \in numbered : d.number = e.number => d = e
    BY <2>2 DEF NumberInv
  <2>5. Cardinality(numbers) = Cardinality(numbered)
    <3> HIDE DEF numbered
    <3>. QED BY <2>1, <2>3, <2>4, AsManyNumbers
  <2>6. ASSUME ~ open PROVE numbers = 1..Total(row)
    <3>1. \A d \in NumbersTaken : d.sequence = row => d \in document
      BY <2>6 DEF NumbersTaken
    <3>2. \A n \in 1..Total(row) : \E d \in numbered : d.number = n
      BY <3>1 DEF NumberInv
    <3>. QED BY <2>3, <3>2
  <2>. QED BY <2>5, <2>6
<1>. QED BY <1>1 DEF NumbersRunOn

\* However requests overlap, fail or deadlock: no number is on two documents, and as
\* long as every document is saved in the transaction that numbered it, the numbers of
\* a kind are 1 to the counter without a gap (next_value and its callers).
THEOREM NumbersHaveNoGap == Spec => []NumbersRunOn
<1>1. LockInv /\ NumberInv => NumbersRunOn
  BY NumbersFollow DEF LockInv
<1>. QED BY <1>1, InitAndNext, InitLocks, NextLocks, InitReckons, NextReckons, InitNumbers, NextNumbers, PTL

----------------------------------------------------------------------------
(* Circles of waiting.                                                     *)

\* The order in which the operations of one line take their rows.
LockRank(row) ==
    CASE row[1] = "StockItem"  -> 1
      [] row[1] = "BatchStock" -> 2
      [] row[1] = "Batch"      -> 3
      [] row[1] = "SerialUnit" -> 4
      [] OTHER -> IF row[2] = "journal_entry" THEN 5 ELSE 0

\* The rows, and counters that there may not be.
LockRows == Rows \cup {NumberSequence(k) : k \in {"journal_entry", "pos_transaction"}}

\* A part of an operation whose rows are taken in that order, from rank lo to rank hi.
Climbs(steps, lo, hi) ==
    /\ steps \in Seq([row : LockRows, by : Int, locks : BOOLEAN])
    /\ \A i \in 1..Len(steps) : LockRank(steps[i].row) \in lo..hi
    /\ \A i, j \in 1..Len(steps) : i < j => LockRank(steps[i].row) < LockRank(steps[j].row)

LEMMA RankType ==
    /\ \A row : LockRank(row) \in 0..5
    /\ \A x, w : /\ LockRank(Item(x, w)) = 1 /\ LockRank(BatchStock(x, w)) = 2
                  /\ LockRank(SerialUnits(x, w)) = 4
    /\ \A p : LockRank(Batch(p)) = 3
    /\ \A k : LockRank(NumberSequence(k)) = IF k = "journal_entry" THEN 5 ELSE 0
<1>1. \A row : LockRank(row) \in 0..5
  BY DEF LockRank
<1>. QED BY <1>1 DEF LockRank, Item, BatchStock, Batch, SerialUnits, NumberSequence

LEMMA ChangeClimbs ==
    ASSUME NEW row \in LockRows, NEW by \in Int
    PROVE  Climbs(Change(row, by), LockRank(row), LockRank(row))
<1> DEFINE step == [row |-> row, by |-> by, locks |-> TRUE]
<1>1. step \in [row : LockRows, by : Int, locks : BOOLEAN] /\ step.row = row
  OBVIOUS
<1>2. Change(row, by) = <<step>>
  BY DEF Change
<1> HIDE DEF step
<1>3. /\ <<step>> \in Seq([row : LockRows, by : Int, locks : BOOLEAN]) /\ Len(<<step>>) = 1
      /\ \A i \in 1..1 : <<step>>[i] = step
  BY <1>1
<1>4. LockRank(row) \in LockRank(row)..LockRank(row)
  BY RankType
<1>. QED BY <1>1, <1>2, <1>3, <1>4 DEF Climbs

LEMMA NothingClimbs == \A lo, hi : Climbs(<<>>, lo, hi)
BY DEF Climbs

LEMMA ClimbsWider ==
    ASSUME NEW s, NEW lo \in Int, NEW hi \in Int, NEW from \in Int, NEW to \in Int,
           Climbs(s, lo, hi), from <= lo, hi <= to
    PROVE  Climbs(s, from, to)
BY DEF Climbs

LEMMA ClimbsFurther ==
    ASSUME NEW s, NEW t, NEW lo \in Int, NEW m \in Int, NEW n \in Int, NEW hi \in Int,
           Climbs(s, lo, m), Climbs(t, n, hi), m < n, lo <= n, m <= hi
    PROVE  Climbs(s \o t, lo, hi)
<1> DEFINE u == s \o t
<1>1. s \in Seq([row : LockRows, by : Int, locks : BOOLEAN]) /\ t \in Seq([row : LockRows, by : Int, locks : BOOLEAN])
  BY DEF Climbs
<1>2. /\ u \in Seq([row : LockRows, by : Int, locks : BOOLEAN]) /\ Len(u) = Len(s) + Len(t)
      /\ Len(s) \in Nat /\ Len(t) \in Nat
  BY <1>1
<1>3. \A i \in 1..Len(s) : u[i] = s[i] /\ LockRank(u[i].row) \in lo..m
  BY <1>1 DEF Climbs
<1>4. \A i \in 1..Len(u) : i > Len(s) =>
          i - Len(s) \in 1..Len(t) /\ u[i] = t[i - Len(s)] /\ LockRank(u[i].row) \in n..hi
  <2>1. ASSUME NEW i \in 1..Len(u), i > Len(s)
        PROVE  i - Len(s) \in 1..Len(t) /\ u[i] = t[i - Len(s)]
    BY <1>1, <1>2, <2>1
  <2> HIDE DEF u
  <2>. QED BY <1>2, <2>1 DEF Climbs
<1> HIDE DEF u
<1>5. ASSUME NEW i \in 1..Len(u) PROVE LockRank(u[i].row) \in lo..hi
  <2>1. CASE i <= Len(s)
    <3>1. i \in 1..Len(s)
      BY <1>2, <2>1
    <3>2. LockRank(u[i].row) \in lo..m
      BY <1>3, <3>1
    <3>. QED BY <3>2
  <2>2. CASE i > Len(s)
    <3>1. LockRank(u[i].row) \in n..hi
      BY <1>4, <2>2
    <3>. QED BY <3>1
  <2>. QED BY <1>2, <2>1, <2>2
<1>6. ASSUME NEW i \in 1..Len(u), NEW j \in 1..Len(u), i < j
      PROVE  LockRank(u[i].row) < LockRank(u[j].row)
  <2>1. CASE j <= Len(s)
    <3>1. i \in 1..Len(s) /\ j \in 1..Len(s)
      BY <1>2, <1>6, <2>1
    <3>2. LockRank(s[i].row) < LockRank(s[j].row)
      BY <1>6, <3>1 DEF Climbs
    <3>. QED BY <1>3, <3>1, <3>2
  <2>2. CASE i > Len(s)
    <3>1. i - Len(s) \in 1..Len(t) /\ j - Len(s) \in 1..Len(t) /\ i - Len(s) < j - Len(s)
      BY <1>2, <1>4, <1>6, <2>2
    <3>2. LockRank(t[i - Len(s)].row) < LockRank(t[j - Len(s)].row)
      BY <3>1 DEF Climbs
    <3>3. j > Len(s)
      BY <1>2, <1>6, <2>2
    <3>4. u[i] = t[i - Len(s)] /\ u[j] = t[j - Len(s)]
      BY <1>4, <2>2, <3>3
    <3>. QED BY <3>2, <3>4
  <2>3. CASE i <= Len(s) /\ j > Len(s)
    <3>1. i \in 1..Len(s)
      BY <1>2, <2>3
    <3>2. LockRank(u[i].row) \in lo..m /\ LockRank(u[j].row) \in n..hi
      BY <1>3, <1>4, <2>3, <3>1
    <3>. QED BY <3>2
  <2>. QED BY <1>2, <2>1, <2>2, <2>3
<1>. QED BY <1>2, <1>5, <1>6 DEF Climbs, u

\* The moves of a document with one line are those of the line.
LEMMA OneLineOnly ==
    ASSUME NEW steps PROVE FlattenSeq(<<steps>>) = steps
<1> DEFINE Flat(f) == f = [i \in 1..1 |-> IF i = 1 THEN <<steps>>[i] ELSE f[i - 1] \o <<steps>>[i]]
           flat == CHOOSE f : Flat(f)
<1>1. Flat([i \in 1..1 |-> steps])
  OBVIOUS
<1>2. Flat(flat)
  BY <1>1
<1>3. flat[1] = steps
  BY <1>2
<1>4. Len(<<steps>>) = 1
  OBVIOUS
<1>5. FlattenSeq(<<steps>>) = flat[1]
  BY <1>4 DEF FlattenSeq
<1>. QED BY <1>3, <1>5

LEMMA SaleOfOne ==
    ASSUME NEW g, NEW w PROVE Sale(<<g>>, w) = StockOut(g, w, 1)
<1>1. Len(<<g>>) = 1 /\ <<g>>[1] = g
  OBVIOUS
<1>2. [i \in 1..1 |-> StockOut(<<g>>[i], w, 1)] = <<StockOut(g, w, 1)>>
  BY <1>1
<1>. QED BY <1>1, <1>2, OneLineOnly DEF Sale, Lines

LEMMA DrawClimbs ==
    ASSUME NEW p \in Products, NEW w \in Warehouses, NEW n \in Int
    PROVE  Climbs(Draw(p, w, n), 2, 4)
<1>1. p \in Tracked => Batch(p) \in LockRows /\ BatchStock(p, w) \in LockRows
  BY DEF LockRows, Rows, Batches, BatchStocks
<1>2. p \in Serial => SerialUnits(p, w) \in LockRows
  BY DEF LockRows, Rows, Serials
<1>3. 0 \in Int /\ 0 - n \in Int
  OBVIOUS
<1>4. p \in Tracked => Climbs(Change(BatchStock(p, w), 0 - n), 2, 2)
  BY <1>1, <1>3, ChangeClimbs, RankType
<1>5. p \in Tracked => Climbs(Lock(Batch(p)), 3, 3)
  BY <1>1, <1>3, ChangeClimbs, RankType DEF Lock
<1>6. p \in Serial => Climbs(Lock(SerialUnits(p, w)), 4, 4)
  BY <1>2, <1>3, ChangeClimbs, RankType DEF Lock
<1>7. p \in Tracked => Climbs(Change(BatchStock(p, w), 0 - n) \o Lock(Batch(p)), 2, 3)
  BY <1>4, <1>5, ClimbsFurther
<1>8. Climbs(OfBatches(p, Change(BatchStock(p, w), 0 - n) \o Lock(Batch(p))), 2, 3)
  BY <1>7, NothingClimbs DEF OfBatches
<1>9. Climbs(OfSerials(p, Lock(SerialUnits(p, w))), 4, 4)
  BY <1>6, NothingClimbs DEF OfSerials
<1>. QED BY <1>8, <1>9, ClimbsFurther DEF Draw

LEMMA NothingToReceive ==
    ASSUME NEW p, p \notin Tracked, NEW w, NEW n, NEW dated
    PROVE  ReceiveBatch(p, w, n, dated) = <<>>
BY DEF ReceiveBatch, OfBatches

LEMMA NothingFirst ==
    ASSUME NEW s, NEW lo, NEW hi, Climbs(s, lo, hi)
    PROVE  <<>> \o s = s /\ s \o <<>> = s
BY DEF Climbs

LEMMA ItemFirst ==
    ASSUME NEW s, NEW t, Climbs(s, 1, 1), Climbs(t, 2, 4)
    PROVE  Climbs(s \o t, 1, 4)
BY ClimbsFurther

LEMMA ClimbsAtAll ==
    ASSUME NEW s, Climbs(s, 1, 4) \/ Climbs(s, 1, 1)
    PROVE  Climbs(s, 0, 5)
BY ClimbsWider

LEMMA OneLineClimbs ==
    ASSUME NEW op \in Operations, OneLine(op)
    PROVE  Climbs(op.steps, 0, 5)
<1>1. PICK g \in Goods, w \in Warehouses, k \in Counters,
           by \in {op.steps[i].by : i \in DOMAIN op.steps} :
          \/ op.steps \in {StockOut(g, w, 0 - by), ConfirmInvoice(<<g>>, w), RingUp(<<g>>, w), Create(k)}
          \/ by < 0 /\ op.steps = Adjust(g, w, by, FALSE)
          \/ /\ ProductOf[g] \notin Tracked
             /\ op.steps \in {StockIn(g, w, by, FALSE), Adjust(g, w, by, FALSE)}
  BY DEF OneLine
<1>2. by \in Int /\ 0 - by \in Int /\ 1 \in Int
  BY StepsType
<1>3. ProductOf[g] \in Products
  BY LockConstants
<1>4. /\ Item(g, w) \in LockRows
      /\ \A kind \in {"journal_entry", "pos_transaction", k} : NumberSequence(kind) \in LockRows
  BY DEF LockRows, Rows, Items, Sequences
<1>5. \A n \in Int : Climbs(Change(Item(g, w), n), 1, 1)
  BY <1>4, ChangeClimbs, RankType
<1>6. \A n \in Int : Climbs(Draw(ProductOf[g], w, n), 2, 4)
  BY <1>3, DrawClimbs
<1>7. ASSUME NEW kind \in {"journal_entry", "pos_transaction", k}
      PROVE  /\ kind = "journal_entry" => Climbs(Number(kind), 5, 5)
             /\ kind # "journal_entry" => Climbs(Number(kind), 0, 0)
  <2>1. Climbs(Number(kind), LockRank(NumberSequence(kind)), LockRank(NumberSequence(kind)))
    BY <1>4, ChangeClimbs DEF Number
  <2>. QED BY <2>1, RankType
<1>8. ASSUME NEW n \in Int PROVE Climbs(StockOut(g, w, n), 1, 4)
  <2>1. Climbs(Change(Item(g, w), 0 - n), 1, 1)
    <3>1. 0 - n \in Int
      OBVIOUS
    <3>. QED BY <1>5, <3>1
  <2>2. Climbs(Draw(ProductOf[g], w, n), 2, 4)
    BY <1>6
  <2>. QED BY <2>1, <2>2, ItemFirst DEF StockOut
<1>9. ASSUME by < 0 \/ ProductOf[g] \notin Tracked PROVE Climbs(Adjust(g, w, by, FALSE), 1, 4)
  <2>1. Climbs(Change(Item(g, w), by), 1, 1)
    BY <1>2, <1>5
  <2>2. Climbs(AdjustOf(g, w, by, FALSE), 2, 4)
    <3>1. CASE by > 0
      <4>1. ProductOf[g] \notin Tracked
        BY <1>2, <1>9, <3>1
      <4>2. AdjustOf(g, w, by, FALSE) = <<>>
        BY <3>1, <4>1, NothingToReceive DEF AdjustOf
      <4>. QED BY <4>2, NothingClimbs
    <3>2. CASE ~ (by > 0)
      <4>1. AdjustOf(g, w, by, FALSE) = Draw(ProductOf[g], w, 0 - by)
        BY <3>2 DEF AdjustOf
      <4>. QED BY <1>2, <1>6, <4>1
    <3>. QED BY <3>1, <3>2
  <2>. QED BY <2>1, <2>2, ItemFirst DEF Adjust
<1>10. ASSUME ProductOf[g] \notin Tracked PROVE Climbs(StockIn(g, w, by, FALSE), 1, 1)
  <2>1. Climbs(Change(Item(g, w), by), 1, 1)
    BY <1>2, <1>5
  <2>2. StockIn(g, w, by, FALSE) = <<>> \o Change(Item(g, w), by)
    BY <1>10, NothingToReceive DEF StockIn
  <2>. QED BY <2>1, <2>2, NothingFirst
<1>11. Climbs(Sale(<<g>>, w), 1, 4)
  BY <1>2, <1>8, SaleOfOne
<1>12. Climbs(Number("journal_entry"), 5, 5) /\ Climbs(Number("pos_transaction"), 0, 0)
  BY <1>7
<1>13. Climbs(ConfirmInvoice(<<g>>, w), 0, 5)
  <2>1. Climbs(ConfirmInvoice(<<g>>, w), 1, 5)
    BY <1>11, <1>12, ClimbsFurther DEF ConfirmInvoice
  <2>. QED BY <2>1, ClimbsWider
<1>14. Climbs(RingUp(<<g>>, w), 0, 5)
  <2>1. Climbs(Number("pos_transaction") \o Sale(<<g>>, w), 0, 4)
    BY <1>11, <1>12, ClimbsFurther
  <2>. QED BY <1>12, <2>1, ClimbsFurther DEF RingUp
<1>15. Climbs(Create(k), 0, 5)
  BY <1>7, ClimbsWider DEF Create
<1>16. Climbs(StockOut(g, w, 0 - by), 0, 5)
  BY <1>2, <1>8, ClimbsWider
<1>17. ASSUME by < 0 \/ ProductOf[g] \notin Tracked PROVE Climbs(Adjust(g, w, by, FALSE), 0, 5)
  <2>1. Climbs(Adjust(g, w, by, FALSE), 1, 4)
    BY <1>9, <1>17
  <2>. QED BY <2>1, ClimbsAtAll
<1>18. ASSUME ProductOf[g] \notin Tracked PROVE Climbs(StockIn(g, w, by, FALSE), 0, 5)
  <2>1. Climbs(StockIn(g, w, by, FALSE), 1, 1)
    BY <1>10, <1>18
  <2>. QED BY <2>1, ClimbsAtAll
<1>. QED BY <1>1, <1>13, <1>14, <1>15, <1>16, <1>17, <1>18

\* What a transaction holds is a row of a step that it has come past.
HoldsItsSteps(q) ==
    \A row \in DOMAIN q.copy : \E i \in DOMAIN q.op.steps : i < q.pc /\ q.op.steps[i].row = row

CirclesInv == LockTypeOK /\ \A r \in Requests : Active(r) => HoldsItsSteps(request[r])

LEMMA InitCircles == Init => CirclesInv
BY LockInitType DEF CirclesInv, Init, Active, Unsent

LEMMA TakeCircles ==
    ASSUME CirclesInv, NEW r \in Requests, Take(r)
    PROVE  HoldsItsSteps(request'[r])
<1> DEFINE q == request[r]
           a == After(r)
<1>1. LockTypeOK /\ Unfinished(r) /\ Active(r) /\ request'[r] = a
  BY TakeIs DEF CirclesInv, Take, Unfinished
<1>2. /\ q \in Runs /\ q.pc \in DOMAIN q.op.steps /\ q.pc \in Nat
      /\ DOMAIN q.op.steps = 1..Len(q.op.steps) /\ HoldsItsSteps(q)
  BY <1>1, LockStepType, CopyType, StepsType DEF CirclesInv
<1>3. a.op = q.op /\ a.pc = q.pc + 1 /\ DOMAIN a.copy \subseteq DOMAIN q.copy \cup {Step(r).row}
  BY DEF After, Running
<1>4. ASSUME NEW row \in DOMAIN a.copy
      PROVE  \E i \in DOMAIN q.op.steps : i < q.pc + 1 /\ q.op.steps[i].row = row
  <2>1. CASE row = Step(r).row
    BY <1>2, <2>1 DEF Step
  <2>2. CASE row \in DOMAIN q.copy
    <3>1. PICK i \in DOMAIN q.op.steps : i < q.pc /\ q.op.steps[i].row = row
      BY <1>2, <2>2 DEF HoldsItsSteps
    <3>. QED BY <1>2, <3>1
  <2>. QED BY <1>3, <2>1, <2>2
<1>. QED BY <1>1, <1>3, <1>4 DEF HoldsItsSteps

LEMMA NextCircles == CirclesInv /\ [Next]_vars => CirclesInv'
<1>1. CASE CirclesInv /\ UNCHANGED vars
  BY <1>1, NextType DEF vars, CirclesInv, Active, HoldsItsSteps
<1>2. CASE CirclesInv /\ Next
  <2>1. PICK r \in Requests :
              \/ \E op \in Operations : Begin(r, op)
              \/ Take(r) \/ Commit(r)
              \/ Rollback(r) /\ Active(r)
              \/ SaveDocument(r) \/ LoseDocument(r)
    BY <1>2, Steps DEF CirclesInv
  <2>2. ASSUME LockTypeOK', \A s \in Requests \ {r} : request'[s] = request[s],
               Active(r)' => HoldsItsSteps(request'[r])
        PROVE  CirclesInv'
    BY <1>2, <2>2 DEF CirclesInv, Active, HoldsItsSteps
  <2>3. CASE Take(r)
    BY <1>2, <2>2, <2>3, TakeIs, TakeType, TakeCircles DEF CirclesInv
  <2>4. CASE Commit(r)
    BY <1>2, <2>2, <2>4, LockCommitType DEF CirclesInv
  <2>5. CASE (Rollback(r) /\ Active(r)) \/ SaveDocument(r) \/ LoseDocument(r)
    BY <1>2, <2>2, <2>5, RollbackRests, SaveRests, LoseRests DEF CirclesInv, Rests
  <2>6. ASSUME NEW op \in Operations, Begin(r, op) PROVE CirclesInv'
    BY <1>2, <2>2, <2>6, BeginType DEF CirclesInv, HoldsItsSteps
  <2>. QED BY <2>1, <2>3, <2>4, <2>5, <2>6
<1>. QED BY <1>1, <1>2

WaitRank(r) == LockRank(Step(r).row)

\* One that waits for another waits for a row that comes before what the other waits for.
LEMMA WaitsClimb ==
    ASSUME CirclesInv, NEW s \in Requests, NEW t \in WaitsFor(s), WaitsFor(t) # {},
           OneLine(request[t].op)
    PROVE  WaitRank(s) < WaitRank(t)
<1> DEFINE q == request[t]
<1>1. t \in Requests /\ Active(t) /\ Step(s).row \in DOMAIN q.copy
  BY DEF WaitsFor, Holds
<1>2. LockTypeOK /\ HoldsItsSteps(q) /\ Unfinished(t)
  BY <1>1 DEF CirclesInv, WaitsFor
<1>3. q \in Runs /\ q.op \in Operations /\ q.pc \in DOMAIN q.op.steps
  BY <1>1, <1>2, LockStepType, CopyType
<1>4. DOMAIN q.op.steps = 1..Len(q.op.steps)
  BY <1>3, StepsType
<1>5. PICK i \in DOMAIN q.op.steps : i < q.pc /\ q.op.steps[i].row = Step(s).row
  BY <1>1, <1>2 DEF HoldsItsSteps
<1>6. LockRank(q.op.steps[i].row) < LockRank(q.op.steps[q.pc].row)
  BY <1>3, <1>4, <1>5, OneLineClimbs DEF Climbs
<1>. QED BY <1>5, <1>6 DEF WaitRank, Step

\* Closed(C): whoever somebody in C waits for is in C.
Closed(C) == \A q \in C : WaitsFor(q) \subseteq C

LEMMA AwaitedIs ==
    ASSUME NEW r \in Requests, NEW s \in Awaited(r)
    PROVE  /\ s \in Requests
           /\ \A C \in SUBSET Requests : WaitsFor(r) \subseteq C /\ Closed(C) => s \in C
BY DEF Awaited, Closed

LEMMA AwaitedAre ==
    ASSUME NEW r \in Requests, NEW s \in Requests,
           \A C \in SUBSET Requests : WaitsFor(r) \subseteq C /\ Closed(C) => s \in C
    PROVE  s \in Awaited(r)
BY DEF Awaited, Closed

LEMMA AwaitedFirst ==
    ASSUME NEW r \in Requests, NEW s \in WaitsFor(r)
    PROVE  s \in Awaited(r)
<1>1. s \in Requests
  BY DEF WaitsFor
<1>. QED BY <1>1, AwaitedAre

LEMMA AwaitedOn ==
    ASSUME NEW r \in Requests, NEW s \in Awaited(r), NEW t \in Awaited(s)
    PROVE  t \in Awaited(r)
<1>1. s \in Requests /\ t \in Requests
  BY AwaitedIs DEF Awaited
<1>2. ASSUME NEW C \in SUBSET Requests, WaitsFor(r) \subseteq C, Closed(C) PROVE t \in C
  <2>1. s \in C
    BY <1>2, AwaitedIs
  <2>2. WaitsFor(s) \subseteq C
    BY <1>2, <2>1 DEF Closed
  <2>. QED BY <1>1, <1>2, <2>2, AwaitedIs
<1>. QED BY <1>1, <1>2, AwaitedAre

LEMMA SelfAwaited ==
    ASSUME NEW r \in Requests, r \in Awaited(r)
    PROVE  Deadlocked(r)
<1>1. WaitsFor(r) = {} => r \in {}
  <2>1. Closed({})
    BY DEF Closed
  <2>. QED BY <2>1, AwaitedIs
<1>. QED BY <1>1 DEF Deadlocked

LEMMA CirclesClimb ==
    ASSUME CirclesInv, NEW r \in Requests, Deadlocked(r),
           \A s \in Requests : Deadlocked(s) => OneLine(request[s].op)
    PROVE  FALSE
<1> DEFINE C == {s \in Awaited(r) : r \notin Awaited(s) \/ WaitRank(r) < WaitRank(s)}
<1>1. \A s : WaitRank(s) \in Int
  BY RankType DEF WaitRank
<1>2. r \in Awaited(r) /\ Awaited(r) \subseteq Requests
  BY DEF Deadlocked, Awaited
<1>3. ASSUME NEW t \in Awaited(r), r \in Awaited(t)
      PROVE  WaitsFor(t) # {} /\ OneLine(request[t].op)
  <2>1. t \in Requests /\ t \in Awaited(t)
    BY <1>2, <1>3, AwaitedOn
  <2>. QED BY <2>1, SelfAwaited DEF Deadlocked
<1>4. ASSUME NEW t \in WaitsFor(r) PROVE t \in C
  <2>1. t \in Awaited(r)
    BY AwaitedFirst
  <2>. QED BY <1>3, <2>1, WaitsClimb
<1>5. ASSUME NEW s \in C, NEW t \in WaitsFor(s) PROVE t \in C
  <2>1. s \in Requests /\ t \in Awaited(s) /\ t \in Awaited(r)
    BY <1>2, AwaitedFirst, AwaitedOn
  <2>2. ASSUME r \in Awaited(t) PROVE WaitRank(r) < WaitRank(t)
    <3>1. r \in Awaited(s)
      BY <2>1, <2>2, AwaitedOn
    <3>2. WaitRank(r) < WaitRank(s)
      BY <3>1
    <3>3. WaitRank(s) < WaitRank(t)
      BY <1>3, <2>1, <2>2, WaitsClimb
    <3>. QED BY <1>1, <3>2, <3>3
  <2>. QED BY <2>1, <2>2
<1>6. r \in C
  <2>1. C \in SUBSET Requests
    BY <1>2
  <2> HIDE DEF C
  <2>. QED BY <1>2, <1>4, <1>5, <2>1, AwaitedIs DEF Closed
<1>. QED BY <1>1, <1>2, <1>6

LEMMA CirclesTouchMany == CirclesInv => CirclesNeedTwoOrders
<1> SUFFICES ASSUME CirclesInv, NEW r \in Requests, Deadlocked(r),
                    \A s \in Requests : Deadlocked(s) => ~ request[s].op.mixes
             PROVE  FALSE
  BY DEF CirclesNeedTwoOrders
<1>1. ASSUME NEW s \in Requests, Deadlocked(s) PROVE OneLine(request[s].op)
  <2>1. Active(s) /\ LockTypeOK
    BY <1>1 DEF Deadlocked, WaitsFor, Unfinished, CirclesInv
  <2>2. request[s].op \in Operations
    BY <2>1, ActiveRuns, CopyType
  <2>. QED BY <1>1, <2>2, MixedOperations
<1>. QED BY <1>1, CirclesClimb

\* However many sales, stock-outs and downward adjustments of one line run at once, of
\* variants that share their batches too: they take the stock row, the batch's balance,
\* the batch and the counters in one order, so transactions wait for each other in a
\* circle only if one of them receives into a batch, assembles, transfers or has several
\* lines (select_for_update in apps.inventory.services and apps.core.numbering).
THEOREM CirclesTakeTwoOrders == Spec => []CirclesNeedTwoOrders
BY InitAndNext, InitCircles, NextCircles, CirclesTouchMany, PTL

----------------------------------------------------------------------------
(* What is committed is what StockPromise does.                            *)

DeedOf(op) == [moves |-> MovesOf(op.steps), documents |-> NumbersOf(op.steps)]
Carried == {r \in Requests : request[r].state \in {"served", "numbered", "lost"}}

LEMMA SumInPromise ==
    ASSUME NEW f, NEW S PROVE Promise!SumFunctionOnSet(f, S) = SumFunctionOnSet(f, S)
<1>1. Promise!SumFunctionOnSet(f, S) = Fold1(f, S)[S]
  BY DEF Promise!SumFunctionOnSet, Promise!FoldFunctionOnSet, Promise!MapThenFoldSet,
         Fold1, Folds1, FoldStep, Pick
<1>. QED BY <1>1, SumIsFold

LEMMA DeedMoves ==
    ASSUME NEW op \in Operations, NEW place \in Items
    PROVE  /\ Promise!At(DeedOf(op), place) = At(op, place)
           /\ \A S \in SUBSET At(op, place) : Promise!Moved(DeedOf(op), S) = By(op, S)
<1> DEFINE moves == MovesOf(op.steps)
           moments == {j \in DOMAIN op.steps : op.steps[j].row \in Items}
<1>1. DOMAIN moves = moments
  BY DEF MovesOf
<1>2. \A n \in moments : moves[n].place = op.steps[n].row /\ moves[n].by = op.steps[n].by
  BY DEF MovesOf
<1> HIDE DEF moves
<1>3. Promise!At(DeedOf(op), place) = {n \in DOMAIN moves : moves[n].place = place}
  BY DEF Promise!At, DeedOf, moves
<1>4. {n \in DOMAIN moves : moves[n].place = place} = At(op, place)
  BY <1>1, <1>2 DEF At
<1>5. ASSUME NEW S \in SUBSET At(op, place) PROVE Promise!Moved(DeedOf(op), S) = By(op, S)
  <2>1. \A n \in S : moves[n].by = op.steps[n].by
    BY <1>2 DEF At
  <2>2. DeedOf(op).moves = moves
    BY DEF DeedOf, moves
  <2>3. [n \in S |-> DeedOf(op).moves[n].by] = [n \in S |-> op.steps[n].by]
    BY <2>1, <2>2
  <2>. QED BY <2>3, SumInPromise DEF Promise!Moved, By
<1>. QED BY <1>3, <1>4, <1>5

LEMMA CommitServes ==
    ASSUME LockInv, ReckonInv, NEW r \in Requests, Commit(r)
    PROVE  Promise!Next
<1>0. LockTypeOK /\ Active(r) /\ request[r].op \in Operations
  BY ActiveRuns, CopyType DEF LockInv, Commit
<1>. PICK op \in Operations : op = request[r].op
  BY <1>0
<1> DEFINE deed == DeedOf(op)
<1>1. LockTypeOK /\ Active(r) /\ op \in Operations /\ op = request[r].op
  BY <1>0
<1>2. deed \in Deeds /\ deed.documents = NumbersOf(op.steps)
  BY <1>1 DEF Deeds, DeedOf
<1>3. r \notin Carried /\ Carried' = Carried \cup {r}
  <2>1. request[r].state = "running" /\ \A s \in Requests \ {r} : request'[s] = request[s]
    BY <1>1, LockCommitType DEF Active
  <2>2. request'[r].state \in {"served", "numbered"}
    BY <1>1 DEF Commit, Served, LockTypeOK
  <2>. QED BY <2>1, <2>2 DEF Carried
<1>4. ASSUME NEW place \in Items
      PROVE  /\ Total(place)' = Total(place) + Promise!Moved(deed, Promise!At(deed, place))
             /\ \A n \in Promise!At(deed, place) :
                   Total(place) + Promise!Moved(deed, {m \in Promise!At(deed, place) : m <= n}) >= 0
  <2>1. Promise!At(deed, place) = At(op, place)
    BY <1>1, DeedMoves
  <2>2. \A S \in SUBSET At(op, place) : Promise!Moved(deed, S) = By(op, S)
    BY <1>1, DeedMoves
  <2>3. \A n : {m \in At(op, place) : m <= n} \in SUBSET At(op, place)
    OBVIOUS
  <2>4. /\ Total(place)' = Total(place) + By(op, At(op, place))
        /\ \A n \in At(op, place) : Total(place) + By(op, {m \in At(op, place) : m <= n}) >= 0
    BY CommitMoves DEF Counted
  <2>. QED BY <2>1, <2>2, <2>3, <2>4
<1>5. ASSUME NEW row \in Sequences
      PROVE  Total(row)' = IF row \in deed.documents THEN Total(row) + 1 ELSE Total(row)
  <2>1. Total(row)' = Total(row) + By(op, At(op, row)) /\ Total(row) \in Nat
    BY <1>1, CommitMoves, TotalType, KindsDiffer DEF Counted
  <2>. QED BY <1>1, <1>2, <2>1, NumberedOnce
<1>6. Promise!Serve(r, deed)
  <2> HIDE DEF deed
  <2>1. [row \in Items |-> Total(row)]'
            = [place \in Items |-> [row \in Items |-> Total(row)][place]
                                     + Promise!Moved(deed, Promise!At(deed, place))]
    BY <1>4
  <2>2. [row \in Sequences |-> Total(row)]'
            = [k \in Sequences |-> IF k \in deed.documents THEN [row \in Sequences |-> Total(row)][k] + 1
                                   ELSE [row \in Sequences |-> Total(row)][k]]
    BY <1>5
  <2>3. \A place \in Items : \A n \in Promise!At(deed, place) :
            [row \in Items |-> Total(row)][place]
                + Promise!Moved(deed, {m \in Promise!At(deed, place) : m <= n}) >= 0
    BY <1>4
  <2>. QED BY <1>3, <2>1, <2>2, <2>3 DEF Promise!Serve, Carried
<1>. QED BY <1>2, <1>6 DEF Promise!Next

LEMMA QuietServes ==
    ASSUME table' = table, Carried' = Carried
    PROVE  UNCHANGED Promise!stock
<1>1. \A row : Total(row)' = Total(row)
  BY DEF Total
<1>. QED BY <1>1 DEF Promise!stock, Carried

LEMMA InitServes == Init => Promise!Init
<1> SUFFICES ASSUME Init PROVE Promise!Init
  OBVIOUS
<1>1. LockTypeOK
  BY LockInitType
<1>2. [row \in Items |-> Total(row)] \in [Items -> Nat]
  BY <1>1, TotalType, KindsDiffer DEF Counted
<1>3. \A row \in Sequences : Total(row) = 0
  <2>1. ASSUME NEW row \in Sequences PROVE table[row] = <<>>
    BY DEF Init, Rows, StartsWith
  <2>. QED BY <2>1, SumOfEmpty DEF Total, SumOf
<1>4. Carried = {}
  BY DEF Init, Unsent, Carried
<1>. QED BY <1>2, <1>3, <1>4 DEF Promise!Init, Carried

LEMMA NextServes ==
    LockInv /\ ReckonInv /\ [Next]_vars => [Promise!Next]_(Promise!stock)
<1>1. CASE UNCHANGED vars
  BY <1>1, QuietServes DEF vars, Carried
<1>2. CASE LockInv /\ ReckonInv /\ Next
  <2>1. PICK r \in Requests :
              \/ \E op \in Operations : Begin(r, op)
              \/ Take(r) \/ Commit(r)
              \/ Rollback(r) /\ Active(r)
              \/ SaveDocument(r) \/ LoseDocument(r)
    BY <1>2, Steps DEF LockInv
  <2> DEFINE Kind(q) == q.state \in {"served", "numbered", "lost"}
  <2>2. ASSUME Kind(request[r]) <=> Kind(request'[r]), table' = table,
               \A s \in Requests \ {r} : request'[s] = request[s]
        PROVE  UNCHANGED Promise!stock
    <3>1. ASSUME NEW s PROVE s \in Carried' <=> s \in Carried
      BY <2>2 DEF Carried
    <3>. QED BY <2>2, <3>1, QuietServes
  <2>3. CASE Commit(r)
    BY <1>2, <2>3, CommitServes
  <2>4. CASE Rollback(r) /\ Active(r)
    BY <1>2, <2>2, <2>4, RollbackRests DEF LockInv, Rests, Active, Ended
  <2>5. CASE Take(r)
    <3>1. request'[r] = After(r) /\ Active(r) /\ Active(r)'
      BY <1>2, <2>5, TakeIs, TakeType DEF LockInv, Take, Unfinished
    <3>. QED BY <1>2, <2>2, <2>5, <3>1, TakeIs DEF LockInv, Active
  <2>6. ASSUME NEW op \in Operations, Begin(r, op) PROVE UNCHANGED Promise!stock
    BY <1>2, <2>2, <2>6, BeginType DEF LockInv, Active, Unsent
  <2>7. CASE SaveDocument(r)
    BY <1>2, <2>2, <2>7, SaveRests DEF LockInv, Rests, SaveDocument, Served
  <2>8. CASE LoseDocument(r)
    BY <1>2, <2>2, <2>8, LoseRests DEF LockInv, Rests, LoseDocument
  <2>. QED BY <2>1, <2>3, <2>4, <2>5, <2>6, <2>7, <2>8
<1>. QED BY <1>1, <1>2

\* The locks implement the promise: whatever requests overlap, wait, deadlock, fail or
\* lose a document, what is committed is what requests carried out whole, one at a
\* time, do to the stock and to the counters (transaction.atomic and select_for_update
\* in apps.inventory.services).
THEOREM LocksKeepThePromise == Spec => StockIsPromised
<1>1. Spec => [](LockInv /\ ReckonInv)
  BY InitAndNext, InitLocks, NextLocks, InitReckons, NextReckons, PTL
<1>2. Spec => Promise!Init /\ [][Promise!Next]_(Promise!stock)
  BY <1>1, InitAndNext, InitServes, NextServes, PTL
<1>. QED BY <1>2, PTL DEF StockIsPromised, Promise!Spec
=============================================================================
