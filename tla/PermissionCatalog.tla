------------------------- MODULE PermissionCatalog -------------------------
(***************************************************************************)
(* Who may call what: the permission catalogue and the starter roles of    *)
(* apps/accounts/permissions_catalog.py, and the check every guarded view  *)
(* makes, core/permissions.py.  A permission code "module.action" is the   *)
(* pair of its parts.                                                      *)
(***************************************************************************)

None == "none"

Modules == {"products", "inventory", "warehouses", "purchases", "suppliers", "sales",
            "customers", "pos", "accounting", "reports", "users", "settings"}
Actions == {"view", "add", "change", "delete", "approve"}

permission_code(module, action) == <<module, action>>

\* The rows the data migration puts into the catalogue before any sign-up.
all_permission_codes == {permission_code(m, a) : m \in Modules, a \in Actions}

\* A template lists, per module, the actions it grants.
RoleNames == {"Owner", "Admin", "Inventory Manager", "Warehouse Manager", "Sales Person",
              "Cashier", "Accountant", "Procurement Officer", "Delivery Staff"}
ROLE_TEMPLATES ==
    [name \in RoleNames |->
       CASE name \in {"Owner", "Admin"} -> {<<m, {"*"}>> : m \in Modules}
         [] name = "Inventory Manager" ->
              {<<"products", {"*"}>>, <<"inventory", {"*"}>>, <<"warehouses", {"*"}>>,
               <<"reports", {"view"}>>}
         [] name = "Warehouse Manager" ->
              {<<"inventory", {"*"}>>, <<"warehouses", {"*"}>>, <<"products", {"view"}>>,
               <<"reports", {"view"}>>, <<"purchases", {"view", "change"}>>}
         [] name = "Sales Person" ->
              {<<"sales", {"view", "add", "change"}>>, <<"customers", {"*"}>>,
               <<"products", {"view"}>>, <<"reports", {"view"}>>}
         [] name = "Cashier" ->
              {<<"pos", {"*"}>>, <<"sales", {"view", "add"}>>, <<"customers", {"view", "add"}>>,
               <<"inventory", {"view"}>>}
         [] name = "Accountant" ->
              {<<"accounting", {"*"}>>, <<"reports", {"view"}>>, <<"sales", {"view"}>>,
               <<"purchases", {"view"}>>}
         [] name = "Procurement Officer" ->
              {<<"purchases", {"*"}>>, <<"suppliers", {"*"}>>, <<"products", {"view"}>>,
               <<"reports", {"view"}>>}
         [] name = "Delivery Staff" -> {<<"inventory", {"view"}>>, <<"sales", {"view"}>>}]

resolve_codes_for_role(template) ==
    UNION {{permission_code(grant[1], a) : a \in IF grant[2] = {"*"} THEN Actions ELSE grant[2]}
             : grant \in template}

\* What a starter role may do: only the codes that the catalogue holds.
SeededCodes(name) == resolve_codes_for_role(ROLE_TEMPLATES[name]) \cap all_permission_codes

(***************************************************************************)
(* A guarded request: the module its view names, the view's action, the    *)
(* HTTP method, and the catalogue actions the view overrides.              *)
(***************************************************************************)
MethodAction == [GET |-> "view", HEAD |-> "view", OPTIONS |-> "view", POST |-> "add",
                 PUT |-> "change", PATCH |-> "change", DELETE |-> "delete"]

\* A slip in a view: an action that the catalogue does not have.
misspeltOverrides == [receipt |-> [create |-> "change"],
                      request |-> [approve |-> "approve", reject |-> "reject"],
                      plain   |-> <<>>]
\* The views that override the method's action: receipts and purchase requests.
Overrides == [receipt |-> [create |-> "change"],
              request |-> [approve |-> "approve", reject |-> "approve"],
              plain   |-> <<>>]

CatalogAction(view, action, method) ==
    IF action \in DOMAIN Overrides[view] THEN Overrides[view][action] ELSE MethodAction[method]

\* has_permission for a user whose role grants codes (None: the user has no role).
HasModulePermission(hasRole, codes, module, view, action, method) ==
    \/ module = None
    \/ hasRole /\ permission_code(module, CatalogAction(view, action, method)) \in codes

\* Every guard of the API: the modules that views name, with each method and
\* each action of their own.
GuardedModules == {"sales", "customers", "accounting", "warehouses", "inventory", "products",
                   "reports", "suppliers", "pos", "purchases"}
Guards == {<<m, "plain", "custom", method>> : m \in GuardedModules, method \in DOMAIN MethodAction}
          \cup {<<"purchases", "receipt", "create", "POST">>}
          \cup {<<"purchases", "request", a, "POST">> : a \in {"approve", "reject", "submit", "convert"}}
=============================================================================
