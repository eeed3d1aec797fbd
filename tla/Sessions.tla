------------------------------ MODULE Sessions -----------------------------
(***************************************************************************)
(* The doors of the system, on top of Tenancy: staff log in for a pair of  *)
(* JWTs (accounts/token.py, core/authentication.py), open sockets with one *)
(* (core/ws_auth.py, the consumers), and customers and suppliers log in to *)
(* the portal with an account that staff grant, reset and revoke           *)
(* (apps/portal).                                                          *)
(*                                                                         *)
(* A token carries a primary key and nothing else: whatever it opens is    *)
(* looked up again at every use.  Tokens are kept until they expire.       *)
(* Granting portal access is two commits, the account and its password.    *)
(***************************************************************************)
EXTENDS Tenancy

CONSTANTS
    Owners,      \* customers and suppliers
    EmployerOf,  \* EmployerOf[o]: the company whose record o is
    Emails,      \* addresses of portal accounts
    Folded,      \* Folded[e]: the address in lower case, as a login compares it
    MaxAccounts  \* bound: portal accounts ever created

ASSUME SessionsConstants ==
    /\ EmployerOf \in [Owners -> Slugs]
    /\ None \notin Owners /\ None \notin Emails /\ DOMAIN Folded = Emails
    /\ MaxAccounts \in Nat

VARIABLES
    jwt,          \* the JWTs that have not expired, by kind and user id
    sockets,      \* the ids of the users with an open socket
    account,      \* the portal account of each customer and supplier
    lastAccount,  \* the primary key of the newest portal account
    pass,         \* the portal tokens that have not expired, by account id
    grant         \* the grant under way between its two commits

sessionVars == <<jwt, sockets, account, lastAccount, pass, grant>>
allVars == <<tenancyVars, sessionVars>>

NoAccount == [id |-> 0, email |-> None, secret |-> None]
NoGrant == [owner |-> None, id |-> 0, secret |-> None]

SessionsTypeOK ==
    /\ jwt \subseteq [kind : {"access", "refresh"}, id : Nat]
    /\ sockets \subseteq Nat
    /\ account \in [Owners -> [id : Nat, email : Emails \cup {None}, secret : Secrets \cup {None}]]
    /\ lastAccount \in Nat
    /\ pass \subseteq Nat
    /\ grant \in [owner : Owners, id : Nat, secret : Secrets] \cup {NoGrant}

SessionsInit ==
    /\ TenancyInit
    /\ jwt = {} /\ sockets = {} /\ pass = {}
    /\ account = [o \in Owners |-> NoAccount] /\ lastAccount = 0 /\ grant = NoGrant

Pair(id) == [kind : {"access", "refresh"}, id : {id}]
Access(u) == [kind |-> "access", id |-> user[u].id]

(***************************************************************************)
(* Staff.                                                                  *)
(***************************************************************************)
\* Without the check that TenantAwareTokenObtainPairSerializer adds.
loginAnywhere(u, secret) ==
    /\ user[u] # NoUser /\ user[u].active /\ user[u].secret = secret
    /\ jwt' = jwt \cup Pair(user[u].id)
    /\ UNCHANGED <<tenancyVars, sockets, account, lastAccount, pass, grant>>
\* The user's own check (password, active) and then the company's.
Login(u, secret) ==
    /\ Admitted(u) /\ user[u].secret = secret
    /\ jwt' = jwt \cup Pair(user[u].id)
    /\ UNCHANGED <<tenancyVars, sockets, account, lastAccount, pass, grant>>

\* TokenRefreshView asks the token only; it rotates the refresh token too.
Refresh(id) ==
    /\ [kind |-> "refresh", id |-> id] \in jwt
    /\ jwt' = jwt \cup Pair(id)
    /\ UNCHANGED <<tenancyVars, sockets, account, lastAccount, pass, grant>>

ExpireToken(t) ==
    /\ t \in jwt /\ jwt' = jwt \ {t}
    /\ UNCHANGED <<tenancyVars, sockets, account, lastAccount, pass, grant>>

\* The middleware finds the user, blocked or not; the consumer then accepts.
ConnectSocket(u) ==
    /\ user[u] # NoUser /\ Access(u) \in jwt /\ ~ company_is_blocked(user[u].company)
    /\ user[u].id \notin sockets
    /\ sockets' = sockets \cup {user[u].id}
    /\ UNCHANGED <<tenancyVars, jwt, account, lastAccount, pass, grant>>

Disconnect(id) ==
    /\ id \in sockets /\ sockets' = sockets \ {id}
    /\ UNCHANGED <<tenancyVars, jwt, account, lastAccount, pass, grant>>

\* A new owner gets the tokens with the answer to the sign-up.
SignupAnswer(r) ==
    LET h == handler[r] IN
    /\ Signup(r)
    /\ jwt' = IF lastId' # lastId THEN jwt \cup Pair(lastId') ELSE jwt
    /\ UNCHANGED <<sockets, account, lastAccount, pass, grant>>

\* Every other staff request comes with an access token.
Api(u) ==
    /\ Access(u) \in jwt /\ StaffStep(u)
    /\ UNCHANGED sessionVars

(***************************************************************************)
(* The portal.                                                             *)
(***************************************************************************)
\* update_or_create: a new row, or the same one with the new address; refused
\* when another account has that address.
\* Accounts numbered by how many there are.
recountedRow(o, e) ==
    IF account[o] = NoAccount
    THEN [id |-> Cardinality({p \in Owners : account[p] # NoAccount}) + 1, email |-> e, secret |-> None]
    ELSE [account[o] EXCEPT !.email = e]
AccountRow(o, e) ==
    IF account[o] = NoAccount THEN [id |-> lastAccount + 1, email |-> e, secret |-> None]
    ELSE [account[o] EXCEPT !.email = e]

grant_portal_access(u, o, e, secret) ==
    /\ grant = NoGrant /\ Access(u) \in jwt
    /\ Admitted(u) /\ EmployerOf[o] = user[u].company
    /\ Permitted(u, "customers", "plain", "portal_access", "POST")
    /\ \A p \in Owners \ {o} : account[p].email # e
    /\ account[o] # NoAccount \/ lastAccount < MaxAccounts
    /\ account' = [account EXCEPT ![o] = AccountRow(o, e)]
    /\ lastAccount' = IF account[o] = NoAccount THEN lastAccount + 1 ELSE lastAccount
    /\ grant' = [owner |-> o, id |-> AccountRow(o, e).id, secret |-> secret]
    /\ UNCHANGED <<tenancyVars, jwt, sockets, pass>>

\* save(update_fields=["password"]): an error if access was revoked meanwhile.
SetPortalPassword ==
    /\ grant # NoGrant
    /\ account' = IF account[grant.owner].id = grant.id
                  THEN [account EXCEPT ![grant.owner].secret = grant.secret] ELSE account
    /\ grant' = NoGrant
    /\ UNCHANGED <<tenancyVars, jwt, sockets, lastAccount, pass>>

\* The process dies between the two commits.
GrantDies ==
    /\ grant # NoGrant /\ grant' = NoGrant
    /\ UNCHANGED <<tenancyVars, jwt, sockets, account, lastAccount, pass>>

revoke_portal_access(u, o) ==
    /\ Access(u) \in jwt /\ Admitted(u) /\ EmployerOf[o] = user[u].company
    /\ Permitted(u, "customers", "plain", "portal_access", "DELETE")
    /\ account[o] # NoAccount
    /\ account' = [account EXCEPT ![o] = NoAccount]
    /\ UNCHANGED <<tenancyVars, jwt, sockets, lastAccount, pass, grant>>

\* email__iexact must name one account; two are an error.
AccountsAt(e) == {o \in Owners : account[o] # NoAccount /\ Folded[account[o].email] = Folded[e]}
PortalOpensTo(e, secret, o) ==
    /\ AccountsAt(e) = {o}
    /\ ~ company_is_blocked(EmployerOf[o])
    /\ account[o].secret = secret

PortalLogin(e, secret, o) ==
    /\ PortalOpensTo(e, secret, o)
    /\ pass' = pass \cup {account[o].id}
    /\ UNCHANGED <<tenancyVars, jwt, sockets, account, lastAccount, grant>>

ExpirePass(id) ==
    /\ id \in pass /\ pass' = pass \ {id}
    /\ UNCHANGED <<tenancyVars, jwt, sockets, account, lastAccount, grant>>

\* PortalTokenAuthentication.authenticate: whom a portal token speaks for.
authenticate(id) == {o \in Owners : /\ account[o] # NoAccount /\ account[o].id = id
                                    /\ ~ company_is_blocked(EmployerOf[o])}

(***************************************************************************)
(* The system: Tenancy behind its doors.                                   *)
(***************************************************************************)
Behind(step) == step /\ UNCHANGED sessionVars

StaffDoor ==
    \/ \E u \in Users, secret \in Secrets : Login(u, secret)
    \/ \E id \in 1..MaxIds : Refresh(id)
    \/ \E t \in [kind : {"access", "refresh"}, id : 1..MaxIds] : ExpireToken(t)
    \/ \E u \in Users : ConnectSocket(u)
    \/ \E id \in 1..MaxIds : Disconnect(id)

PortalDoor ==
    \/ \E u \in Users, o \in Owners, e \in Emails, secret \in Secrets :
          grant_portal_access(u, o, e, secret)
    \/ SetPortalPassword
    \/ GrantDies
    \/ \E u \in Users, o \in Owners : revoke_portal_access(u, o)
    \/ \E e \in Emails, secret \in Secrets, o \in Owners : PortalLogin(e, secret, o)
    \/ \E id \in 1..MaxAccounts : ExpirePass(id)

SessionsNext ==
    \/ \E u \in Users : Api(u)
    \/ Behind(OperatorStep)
    \/ Behind(CheckStep)
    \/ \E r \in Workers : SignupAnswer(r)
    \/ Behind(CommitStep)
    \/ StaffDoor
    \/ PortalDoor

SessionsSpec == SessionsInit /\ [][SessionsNext]_allVars

(***************************************************************************)
(* Properties.                                                             *)
(***************************************************************************)
\* Every door checks the company: while it is blocked nobody of it logs in, opens
\* a socket, gets a portal token or is served a request, in one statement or in
\* several (company_is_blocked is called in four places).  What was let in before
\* goes on: requests in flight, sockets, the JWTs of a refresh token.

\* A login hands out a refresh token; a renewal needs one.
LogsIn(u) == [kind |-> "refresh", id |-> user[u].id] \in jwt' \ jwt
Begins(r, s) ==
    /\ handler[r] = Idle
    /\ \/ handler'[r].op \in {"grow", "settings"} /\ handler'[r].slug = s
       \/ handler'[r].op \in {"user", "password"} /\ user[handler'[r].user].company = s
Deleted(u) == user'[u] = NoUser
\* A role regranted or deleted, a branch or warehouse closed, a user deleted,
\* portal access granted or revoked: one statement each.
WritesFor(s) ==
    \/ role'[s] # role[s]
    \/ \E x \in {"branches", "warehouses"} : held'[s][x] < held[s][x]
    \/ \E u \in Staff(s) : Deleted(u)
    \/ grant = NoGrant /\ grant' # NoGrant /\ EmployerOf[grant'.owner] = s
    \/ \E o \in Owners : /\ EmployerOf[o] = s
                          /\ account[o] # NoAccount /\ account'[o] = NoAccount
NewcomersOf(s) ==
    \/ \E u \in Staff(s) : user[u].id \in sockets' \ sockets \/ LogsIn(u)
    \/ \E o \in Owners : EmployerOf[o] = s /\ account[o].id \in pass' \ pass
    \/ \E r \in Workers : Begins(r, s)
    \/ WritesFor(s)
Barred == \A s \in Companies : company_is_blocked(s) => ~ NewcomersOf(s)
NobodyEntersWhileBlocked == [][Barred]_allVars
=============================================================================
