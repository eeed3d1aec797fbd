------------------------------ MODULE Tenancy ------------------------------
(***************************************************************************)
(* Tenants and who works for them: apps/tenants (plans, companies, plan    *)
(* limits), apps/platform (the operator's administration), and apps/       *)
(* accounts (sign-up, invitations, users, roles).                          *)
(*                                                                         *)
(* Nothing here locks a row.  A handler loads what it decides on (the      *)
(* actions named Open... and Ask...) and commits in a later step; a commit *)
(* that saves a model instance without update_fields writes every column   *)
(* of it, as it was when loaded.  Unique and foreign keys are enforced by  *)
(* the database at the commit, which is then refused.                      *)
(***************************************************************************)
EXTENDS Integers, FiniteSets, PermissionCatalog

CONSTANTS
    Names,       \* what companies may be called
    SlugNumbers, \* 1..n: how many companies of one name are explored
    Plans,       \* SubscriptionPlan rows, by code
    Trial,       \* the plan that sign-up assigns
    Users,       \* User rows, by e-mail address
    Roles,       \* the starter roles explored, "Owner" among them
    Regrants,    \* the permission sets a role may be given by hand
    Statuses,    \* subscription statuses explored
    Caps,        \* the caps a plan may have
    TrialCaps,   \* the caps of the trial plan when sign-up creates it
    Secrets,     \* passwords
    Workers,     \* who serves HTTP requests, one at a time each
    MaxIds,      \* bound: users ever created
    MaxHeld      \* bound: branches or warehouses of one company

Slugs == Names \X SlugNumbers
Resources == {"users", "branches", "warehouses"}

ASSUME TenancyConstants ==
    /\ SlugNumbers \subseteq Nat \ {0} /\ IsFiniteSet(SlugNumbers)
    /\ Trial \in Plans
    /\ IsFiniteSet(Users)
    /\ "Owner" \in Roles /\ Roles \subseteq RoleNames
    /\ Regrants \subseteq SUBSET all_permission_codes
    /\ {"trialing", "active", "suspended"} \subseteq Statuses
    /\ Caps \subseteq [Resources -> Nat] /\ TrialCaps \in Caps
    /\ MaxIds \in Nat /\ MaxHeld \in Nat
    /\ None \notin Plans /\ None \notin Secrets /\ None \notin Statuses /\ None \notin Names

VARIABLES
    plan,      \* the plans: active or not, and their caps
    company,   \* the companies: status, active or not, and their plan
    role,      \* the permission codes each company's roles grant, or NoCodes
    user,      \* the users
    held,      \* how many branches and warehouses a company has
    lastId,    \* the primary key of the newest user
    handler    \* what each request in flight has loaded

tenancyVars == <<plan, company, role, user, held, lastId, handler>>

NoPlan == [exists |-> FALSE, active |-> FALSE, cap |-> TrialCaps]
NoCompany == [status |-> None, active |-> FALSE, plan |-> None]
NoSlug == <<None, 0>>
NoRole == <<NoSlug, None>>
NoUser == [id |-> 0, company |-> NoSlug, role |-> NoRole, active |-> FALSE, secret |-> None]
NoCodes == [there |-> FALSE, codes |-> {}]
Idle == [op |-> "idle"]

PlanRows == [exists : BOOLEAN, active : BOOLEAN, cap : Caps]
CompanyRows == [status : Statuses, active : BOOLEAN, plan : Plans \cup {None}]
UserRows == [id : Nat \ {0}, company : Slugs, role : (Slugs \X Roles) \cup {NoRole},
             active : BOOLEAN, secret : Secrets]
HandlerStates ==
    {Idle}
    \cup [op : {"signup"}, slug : Slugs, user : Users]
    \cup [op : {"grow"}, slug : Slugs, res : Resources]
    \cup [op : {"settings", "tenant"}, slug : Slugs, row : CompanyRows]
    \cup [op : {"plan"}, slug : Slugs, plan : Plans]
    \cup [op : {"user"}, user : Users, row : UserRows]
    \cup [op : {"password"}, user : Users, id : Nat \ {0}]

TenancyTypeOK ==
    /\ plan \in [Plans -> PlanRows]
    /\ company \in [Slugs -> CompanyRows \cup {NoCompany}]
    /\ role \in [Slugs -> [Roles -> [there : BOOLEAN, codes : SUBSET all_permission_codes]]]
    /\ user \in [Users -> UserRows \cup {NoUser}]
    /\ held \in [Slugs -> [{"branches", "warehouses"} -> Nat]]
    /\ lastId \in Nat
    /\ handler \in [Workers -> HandlerStates]

Companies == {s \in Slugs : company[s] # NoCompany}
Staff(s) == {u \in Users : user[u] # NoUser /\ user[u].company = s}

company_is_blocked(s) == ~ company[s].active \/ company[s].status = "suspended"

\* Who the API lets in: an active user of a company that is not blocked.
Admitted(u) == user[u] # NoUser /\ user[u].active /\ ~ company_is_blocked(user[u].company)

\* The codes of a user's role, and whether a guarded view lets the user pass.
RoleOf(u) == role[user[u].role[1]][user[u].role[2]]
Permitted(u, module, view, action, method) ==
    LET has == user[u].role # NoRole
    IN  HasModulePermission(has, IF has THEN RoleOf(u).codes ELSE {}, module, view, action, method)

Count(s, res) == IF res = "users" THEN Cardinality(Staff(s)) ELSE held[s][res]
Capped(s) == company[s].plan # None
\* The limit compared with > for >=.
oneTooMany(s, res) == Capped(s) => Count(s, res) <= plan[company[s].plan].cap[res]
WithinLimit(s, res) == Capped(s) => Count(s, res) < plan[company[s].plan].cap[res]

Answer(r) == handler' = [handler EXCEPT ![r] = Idle]
Load(r, state) == handler[r] = Idle /\ handler' = [handler EXCEPT ![r] = state]
OnlyLoads == UNCHANGED <<plan, company, role, user, held, lastId>>

TenancyInit ==
    /\ plan = [p \in Plans |-> NoPlan]
    /\ company = [s \in Slugs |-> NoCompany]
    /\ role = [s \in Slugs |-> [n \in Roles |-> NoCodes]]
    /\ user = [u \in Users |-> NoUser]
    /\ held = [s \in Slugs |-> [x \in {"branches", "warehouses"} |-> 0]]
    /\ lastId = 0
    /\ handler = [r \in Workers |-> Idle]

(***************************************************************************)
(* Sign-up: everything in one transaction, refused as a whole when another *)
(* sign-up took the slug or the address in the meantime.                   *)
(***************************************************************************)
FreeSlug(name) == CHOOSE s \in {name} \X SlugNumbers :
                     /\ company[s] = NoCompany
                     /\ \A k \in SlugNumbers : k < s[2] => company[<<name, k>>] # NoCompany

CheckSignup(r, name, u) ==
    /\ user[u] = NoUser
    /\ \E k \in SlugNumbers : company[<<name, k>>] = NoCompany
    /\ Load(r, [op |-> "signup", slug |-> FreeSlug(name), user |-> u])
    /\ OnlyLoads

TrialRow == IF plan[Trial].exists THEN plan[Trial]
            ELSE [exists |-> TRUE, active |-> TRUE, cap |-> TrialCaps]
seed_default_roles == [n \in Roles |-> [there |-> TRUE, codes |-> SeededCodes(n)]]
OwnerRow(s, secret) == [id |-> lastId + 1, company |-> s, role |-> <<s, "Owner">>,
                        active |-> TRUE, secret |-> secret]

Taken(h) == company[h.slug] # NoCompany \/ user[h.user] # NoUser

Signup(r) ==
    LET h == handler[r] IN
    /\ h.op = "signup"
    /\ \/ Taken(h) /\ OnlyLoads
       \/ /\ ~ Taken(h) /\ lastId < MaxIds
          /\ plan' = [plan EXCEPT ![Trial] = TrialRow]
          /\ company' = [company EXCEPT ![h.slug] =
                           [status |-> "trialing", active |-> TRUE, plan |-> Trial]]
          /\ role' = [role EXCEPT ![h.slug] = seed_default_roles]
          /\ \E secret \in Secrets : user' = [user EXCEPT ![h.user] = OwnerRow(h.slug, secret)]
          /\ lastId' = lastId + 1
          /\ UNCHANGED held
    /\ Answer(r)

(***************************************************************************)
(* Growing under a plan: the count is taken first, the row made later.     *)
(***************************************************************************)
GuardOf(res) == IF res = "warehouses" THEN "warehouses" ELSE None

enforce_plan_limit(r, u, res) ==
    LET s == user[u].company IN
    /\ Admitted(u) /\ Permitted(u, GuardOf(res), "plain", "create", "POST")
    /\ WithinLimit(s, res)
    /\ Load(r, [op |-> "grow", slug |-> s, res |-> res])
    /\ OnlyLoads

InvitedRow(s, x, secret) == [id |-> lastId + 1, company |-> s, role |-> x,
                             active |-> TRUE, secret |-> secret]
RolesThere == {x \in Slugs \X Roles : role[x[1]][x[2]].there}

Invite(r, v) ==
    LET h == handler[r] IN
    /\ h.op = "grow" /\ h.res = "users"
    /\ \/ user[v] # NoUser /\ UNCHANGED <<user, lastId>>
       \/ /\ user[v] = NoUser /\ lastId < MaxIds
          /\ \E x \in RolesThere \cup {NoRole}, secret \in Secrets :
                user' = [user EXCEPT ![v] = InvitedRow(h.slug, x, secret)]
          /\ lastId' = lastId + 1
    /\ Answer(r)
    /\ UNCHANGED <<plan, company, role, held>>

Establish(r) ==
    LET h == handler[r] IN
    /\ h.op = "grow" /\ h.res # "users" /\ held[h.slug][h.res] < MaxHeld
    /\ held' = [held EXCEPT ![h.slug][h.res] = @ + 1]
    /\ Answer(r)
    /\ UNCHANGED <<plan, company, role, user, lastId>>

\* DELETE of a branch takes the warehouses that name it along.
CloseBranch(u, k) ==
    LET s == user[u].company IN
    /\ Admitted(u) /\ held[s]["branches"] > 0 /\ k <= held[s]["warehouses"]
    /\ held' = [held EXCEPT ![s]["branches"] = @ - 1, ![s]["warehouses"] = @ - k]
    /\ UNCHANGED <<plan, company, role, user, lastId, handler>>

CloseWarehouse(u) ==
    LET s == user[u].company IN
    /\ Admitted(u) /\ Permitted(u, "warehouses", "plain", "destroy", "DELETE")
    /\ held[s]["warehouses"] > 0
    /\ held' = [held EXCEPT ![s]["warehouses"] = @ - 1]
    /\ UNCHANGED <<plan, company, role, user, lastId, handler>>

(***************************************************************************)
(* Users and roles of one's own company.                                   *)
(***************************************************************************)
DeleteUser(u, v) ==
    /\ Admitted(u) /\ v \in Staff(user[u].company)
    /\ user' = [user EXCEPT ![v] = NoUser]
    /\ UNCHANGED <<plan, company, role, held, lastId, handler>>

OpenUser(r, u, v) ==
    /\ Admitted(u) /\ v \in Staff(user[u].company)
    /\ Load(r, [op |-> "user", user |-> v, row |-> user[v]])
    /\ OnlyLoads

\* The check that a deleted role is not written back, left out.
\* A save of every column: it updates the row, or puts a deleted one back, and
\* is refused when the address belongs to a newer row or the role is gone.
Storable(v, row) ==
    /\ user[v] = NoUser \/ user[v].id = row.id
    /\ row.role \in RolesThere \cup {NoRole}

SaveUser(r) ==
    LET h == handler[r] IN
    /\ h.op = "user"
    /\ \E a \in BOOLEAN, x \in RolesThere \cup {NoRole, h.row.role} :
          LET row == [h.row EXCEPT !.active = a, !.role = x]
          IN  user' = IF Storable(h.user, row) THEN [user EXCEPT ![h.user] = row] ELSE user
    /\ Answer(r)
    /\ UNCHANGED <<plan, company, role, held, lastId>>

OpenPassword(r, u, old) ==
    /\ Admitted(u) /\ user[u].secret = old
    /\ Load(r, [op |-> "password", user |-> u, id |-> user[u].id])
    /\ OnlyLoads

\* update_fields = ["password"]: one column, and an error if the row is gone.
SavePassword(r, new) ==
    LET h == handler[r] IN
    /\ h.op = "password"
    /\ user' = IF user[h.user].id = h.id THEN [user EXCEPT ![h.user].secret = new] ELSE user
    /\ Answer(r)
    /\ UNCHANGED <<plan, company, role, held, lastId>>

RegrantRole(u, name, codes) ==
    LET s == user[u].company IN
    /\ Admitted(u) /\ role[s][name].there
    /\ role' = [role EXCEPT ![s][name].codes = codes]
    /\ UNCHANGED <<plan, company, user, held, lastId, handler>>

\* on_delete=SET_NULL: the users of a deleted role have none.
DeleteRole(u, name) ==
    LET s == user[u].company IN
    /\ Admitted(u) /\ role[s][name].there
    /\ role' = [role EXCEPT ![s][name] = NoCodes]
    /\ user' = [v \in Users |-> IF user[v].role = <<s, name>>
                                THEN [user[v] EXCEPT !.role = NoRole] ELSE user[v]]
    /\ UNCHANGED <<plan, company, held, lastId, handler>>

(***************************************************************************)
(* The company's own settings, and the operator's view of it.              *)
(***************************************************************************)
OpenSettings(r, u) ==
    LET s == user[u].company IN
    /\ Admitted(u)
    /\ Load(r, [op |-> "settings", slug |-> s, row |-> company[s]])
    /\ OnlyLoads

\* A foreign key to a plan that is gone refuses the commit.
SaveCompany(s, row) ==
    company' = IF row.plan = None \/ plan[row.plan].exists
               THEN [company EXCEPT ![s] = row] ELSE company

\* The serializer without its read_only_fields.
saveAnySetting(r) ==
    LET h == handler[r] IN
    /\ h.op = "settings"
    /\ \E a \in BOOLEAN, st \in Statuses :
          SaveCompany(h.slug, [h.row EXCEPT !.active = a, !.status = st])
    /\ Answer(r)
    /\ UNCHANGED <<plan, role, user, held, lastId>>
SaveSettings(r) ==
    LET h == handler[r] IN
    /\ h.op = "settings"
    /\ \E a \in BOOLEAN : SaveCompany(h.slug, [h.row EXCEPT !.active = a])
    /\ Answer(r)
    /\ UNCHANGED <<plan, role, user, held, lastId>>

OpenTenant(r, s) ==
    /\ s \in Companies
    /\ Load(r, [op |-> "tenant", slug |-> s, row |-> company[s]])
    /\ OnlyLoads

SaveTenant(r) ==
    LET h == handler[r] IN
    /\ h.op = "tenant"
    /\ \E st \in Statuses, a \in BOOLEAN,
          p \in {None, h.row.plan} \cup {q \in Plans : plan[q].exists} :
             SaveCompany(h.slug, [status |-> st, active |-> a, plan |-> p])
    /\ Answer(r)
    /\ UNCHANGED <<plan, role, user, held, lastId>>

suspend(s) ==
    /\ s \in Companies
    /\ company' = [company EXCEPT ![s].status = "suspended"]
    /\ UNCHANGED <<plan, role, user, held, lastId, handler>>

activate(s) ==
    /\ s \in Companies
    /\ company' = [company EXCEPT ![s].status = "active"]
    /\ UNCHANGED <<plan, role, user, held, lastId, handler>>

AskPlan(r, s, p) ==
    /\ s \in Companies /\ plan[p].exists /\ plan[p].active
    /\ Load(r, [op |-> "plan", slug |-> s, plan |-> p])
    /\ OnlyLoads

change_plan(r) ==
    LET h == handler[r] IN
    /\ h.op = "plan"
    /\ SaveCompany(h.slug, [company[h.slug] EXCEPT !.plan = h.plan])
    /\ Answer(r)
    /\ UNCHANGED <<plan, role, user, held, lastId>>

\* Create or edit a plan.
WritePlan(p, active, cap) ==
    /\ plan' = [plan EXCEPT ![p] = [exists |-> TRUE, active |-> active, cap |-> cap]]
    /\ UNCHANGED <<company, role, user, held, lastId, handler>>

\* on_delete=PROTECT: not while a company is on it.
DeletePlan(p) ==
    /\ plan[p].exists /\ \A s \in Companies : company[s].plan # p
    /\ plan' = [plan EXCEPT ![p] = NoPlan]
    /\ UNCHANGED <<company, role, user, held, lastId, handler>>

\* manage.py seed_plans: the missing ones, the others untouched.
seed_plans(cap) ==
    /\ plan' = [p \in Plans |-> IF plan[p].exists THEN plan[p]
                                ELSE [exists |-> TRUE, active |-> TRUE, cap |-> cap[p]]]
    /\ UNCHANGED <<company, role, user, held, lastId, handler>>

(***************************************************************************)
(* What a signed-in user, the operator and anybody may do.                 *)
(***************************************************************************)
StaffStep(u) ==
    \/ \E r \in Workers, res \in Resources : enforce_plan_limit(r, u, res)
    \/ \E k \in 0..MaxHeld : CloseBranch(u, k)
    \/ CloseWarehouse(u)
    \/ \E v \in Users : DeleteUser(u, v)
    \/ \E r \in Workers, v \in Users : OpenUser(r, u, v)
    \/ \E r \in Workers, old \in Secrets : OpenPassword(r, u, old)
    \/ \E name \in Roles, codes \in Regrants : RegrantRole(u, name, codes)
    \/ \E name \in Roles : DeleteRole(u, name)
    \/ \E r \in Workers : OpenSettings(r, u)

OperatorStep ==
    \/ \E r \in Workers, s \in Slugs : OpenTenant(r, s)
    \/ \E s \in Slugs : suspend(s)
    \/ \E s \in Slugs : activate(s)
    \/ \E r \in Workers, s \in Slugs, p \in Plans : AskPlan(r, s, p)
    \/ \E p \in Plans, active \in BOOLEAN, cap \in Caps : WritePlan(p, active, cap)
    \/ \E p \in Plans : DeletePlan(p)
    \/ \E cap \in [Plans -> Caps] : seed_plans(cap)

CheckStep == \E r \in Workers, name \in Names, u \in Users : CheckSignup(r, name, u)

CommitStep ==
    \/ \E r \in Workers, v \in Users : Invite(r, v)
    \/ \E r \in Workers : Establish(r)
    \/ \E r \in Workers : SaveUser(r)
    \/ \E r \in Workers, new \in Secrets : SavePassword(r, new)
    \/ \E r \in Workers : SaveSettings(r)
    \/ \E r \in Workers : SaveTenant(r)
    \/ \E r \in Workers : change_plan(r)

TenancyNext ==
    \/ \E u \in Users : StaffStep(u)
    \/ OperatorStep
    \/ CheckStep
    \/ \E r \in Workers : Signup(r)
    \/ CommitStep

TenancySpec == TenancyInit /\ [][TenancyNext]_tenancyVars

(***************************************************************************)
(* Properties.                                                             *)
(***************************************************************************)
\* The owner of a company whose Owner role nobody touched passes every guard of
\* the API: no view asks for a code the catalogue lacks, which would lock
\* everyone out of it (HasModulePermission against the seeded catalogue).
UntouchedOwner(u) == user[u] # NoUser /\ user[u].role # NoRole /\ user[u].role[2] = "Owner"
OwnerNeverLockedOut ==
    \A u \in Users : UntouchedOwner(u) /\ RoleOf(u).codes \notin Regrants =>
        \A g \in Guards : Permitted(u, g[1], g[2], g[3], g[4])
=============================================================================
