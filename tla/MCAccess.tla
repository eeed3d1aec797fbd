------------------------------ MODULE MCAccess ------------------------------
(* A finite instance of Sessions.  A behaviour explores one theme, chosen   *)
(* at the start; between them the themes take every action.                 *)
EXTENDS Sessions, TLC

VARIABLES
    theme,    \* what the behaviour explores
    calm,     \* no request was served while another was under way, and none died
    decided,  \* the status sign-up or the operator last decided, per company
    chosen,   \* the password last chosen, per user
    granted,  \* the credentials last granted, per customer or supplier
    issued    \* whom each portal token was issued for, with the grants it survived

history == <<theme, calm, decided, chosen, granted, issued>>

Waiting == \/ \E r \in Workers : handler[r] # Idle /\ handler'[r] = handler[r]
           \/ grant # NoGrant /\ grant' = grant

\* What a step decides: a status written over a different one by the operator.
Decision(s) ==
    IF company'[s] = company[s] \/ \E r \in Workers :
          /\ handler[r] # Idle /\ handler'[r] = Idle
          /\ \/ handler[r].op = "settings"
             \/ handler[r].op = "tenant" /\ company'[s].status = handler[r].row.status
    THEN decided[s] ELSE company'[s].status

\* A password is chosen at sign-up, at an invitation and by its user.
Choice(u) ==
    IF user'[u] = NoUser \/ user'[u] = user[u]
       \/ \E r \in Workers : handler[r].op = "user" /\ handler'[r] = Idle
    THEN chosen[u] ELSE user'[u].secret

NotGranted == [email |-> None, secret |-> None]
Granted(o) ==
    IF account'[o] = NoAccount THEN NotGranted
    ELSE IF grant.owner = o /\ grant' = NoGrant
         THEN [email |-> account'[o].email, secret |-> grant.secret] ELSE granted[o]

\* A token is issued to the owner that logs in; a revocation ends it.
Issued ==
    LET standing == {i \in issued : account'[i.owner] # NoAccount}
        new == {[owner |-> o, id |-> account[o].id] : o \in {p \in Owners : account[p].id \in pass' \ pass}}
    IN  standing \cup new

Themes == {"growth", "company", "people", "portal"}

MCInit ==
    /\ SessionsInit /\ theme \in Themes /\ calm = TRUE
    /\ decided = [s \in Slugs |-> None] /\ chosen = [u \in Users |-> None]
    /\ granted = [o \in Owners |-> NotGranted] /\ issued = {}
MCNext ==
    /\ SessionsNext
    /\ theme' = theme
    /\ calm' = (calm /\ ~ Waiting /\ ~ GrantDies)
    /\ decided' = [s \in Slugs |-> IF calm' THEN Decision(s) ELSE None]
    /\ chosen' = [u \in Users |-> IF calm' THEN Choice(u) ELSE None]
    /\ granted' = [o \in Owners |-> IF calm' THEN Granted(o) ELSE NotGranted]
    /\ issued' = Issued
MCSpec == MCInit /\ [][MCNext]_<<allVars, history>>

(* Bounds: what each theme leaves alone. *)
Founding(s) == company[s] = NoCompany /\ company'[s] # NoCompany
Ops(theirs) == \A r \in Workers : handler'[r].op \in {"idle", "signup"} \cup theirs
Unlocked == \A s \in Slugs : Founding(s) \/ [company'[s] EXCEPT !.plan = company[s].plan] = company[s]
SamePlans == \A p \in Plans : plan'[p] = plan[p] \/ (p = Trial /\ plan'[p] = TrialRow)
SameRoles == \A s \in Slugs : role'[s] = role[s] \/ Founding(s)
OneTeam == Cardinality(Companies') <= 1 /\ Cardinality({r \in Workers : handler'[r].op = "signup"}) <= 1
OneSecret == Cardinality({user'[u].secret : u \in Users} \ {None}) <= 1
OneKind == \A id \in 1..MaxIds : Pair(id) \subseteq jwt' \/ Pair(id) \cap jwt' = {}
SignupTokensOnly == jwt' = jwt \/ \E s \in Slugs : Founding(s)
NoSockets == sockets' = {}
NoPortal == grant' = NoGrant /\ lastAccount' = 0
NothingHeld == held' = held
OneUser == Cardinality({u \in Users : user'[u] # NoUser}) <= 1

\* The first requests that overlap are the last.
UntilAnswered == calm \/ \E r \in Workers : handler[r] # Idle

\* Only a company alone grows.
OneGrows == Cardinality(Companies') <= 1 \/ \A r \in Workers : handler'[r].op \in {"idle", "signup"}
InvitedBare == \A u \in Users : user'[u] = user[u] \/ user'[u].role[2] \in {None, "Owner"}
RolesLost == \A s \in Slugs, n \in Roles :
    role'[s][n] # role[s][n] => Founding(s) \/ (n = "Owner" /\ role'[s][n] = NoCodes)

InTheme ==
    CASE theme = "growth" ->
           /\ Ops({"grow", "plan"}) /\ Unlocked /\ SameRoles /\ OneSecret /\ SignupTokensOnly
           /\ NoSockets /\ NoPortal /\ UntilAnswered
           /\ OneGrows /\ InvitedBare
           /\ plan'[Trial].cap = TrialCaps
      [] theme = "company" ->
           /\ Ops({"settings", "tenant"}) /\ SamePlans /\ SameRoles /\ NoPortal /\ NothingHeld
           /\ OneTeam /\ OneUser /\ OneSecret
           /\ \A s \in Companies' : company'[s].plan = Trial
      [] theme = "people" ->
           /\ Ops({"grow", "user", "password"}) /\ SamePlans /\ NoSockets /\ OneKind
           /\ NoPortal /\ NothingHeld /\ OneTeam /\ UntilAnswered
           /\ RolesLost /\ jwt \subseteq jwt'
           /\ \A s \in Slugs : company'[s] = company[s] \/ Founding(s)
           /\ \A r \in Workers : handler'[r].op = "grow" => handler'[r].res = "users"
      [] theme = "portal" ->
           /\ Ops({}) /\ SamePlans /\ NothingHeld /\ OneTeam /\ OneUser /\ NoSockets
           /\ (\A s \in Slugs : role'[s]["Cashier"] = role[s]["Cashier"] \/ Founding(s))
           /\ SignupTokensOnly /\ OneSecret
           /\ \A s \in Companies' : company'[s].status # "active" /\ company'[s].plan = Trial

(***************************************************************************)
(* Properties.                                                             *)
(***************************************************************************)
\* Served one at a time, requests never grow a company beyond its plan
\* (enforce_plan_limit counts before every user, branch and warehouse).
GrowsWithinPlan ==
    \A s \in Companies, res \in Resources :
        Count(s, res)' > Count(s, res) /\ Capped(s)' =>
            Count(s, res)' <= plan'[company'[s].plan].cap[res]
AloneGrowsWithinPlan == [][calm' => GrowsWithinPlan]_tenancyVars

\* Whatever happens: a portal token speaks for the customer or supplier it was
\* issued to and, once that access is revoked, for nobody, granted anew or not.
PassesStayWithOwner ==
    \A id \in pass : authenticate(id) \subseteq {i.owner : i \in {j \in issued : j.id = id}}

\* Served one at a time: a company has the status the operator gave it last,
\* everybody the password chosen last, and the credentials granted last open the
\* portal (unless the company is blocked or two addresses differ in case only),
\* whatever else is saved on those rows.
Twinned(o) == \E p \in Owners \ {o} : account[p] # NoAccount
                 /\ Folded[account[p].email] = Folded[granted[o].email]
AloneLastWordStands ==
    calm => /\ \A s \in Companies : company[s].status = decided[s]
            /\ \A u \in Users : user[u] # NoUser => user[u].secret = chosen[u]
            /\ \A o \in Owners :
                  granted[o].email # None /\ grant.owner # o /\ ~ Twinned(o)
                      /\ ~ company_is_blocked(EmployerOf[o])
                      => PortalOpensTo(granted[o].email, granted[o].secret, o)

(* The instance. *)
CONSTANTS n1, o1, o2, e1, E1, f1
TwoOwners == [o \in {o1, o2} |-> <<n1, 1>>]
CaseTwins == [e \in {e1, E1} |-> f1]
Cap(u, b, w) == [users |-> u, branches |-> b, warehouses |-> w]
TwoCaps == {Cap(2, 1, 1), Cap(1, 1, 2)}
RoomForTwo == Cap(2, 1, 1)
Stripped == {{}}
Interchangeable == Permutations(Workers) \cup Permutations(Users) \cup Permutations(Secrets)
=============================================================================
