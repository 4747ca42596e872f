----------------------------- MODULE Warehouse -----------------------------
(***************************************************************************)
(* The warehouses of an organization and the roles its members have in     *)
(* them, while members come, change their role in the organization and go,  *)
(* and while the organization is deleted.                                  *)
(*                                                                         *)
(* Requests run in READ COMMITTED transactions as in Membership.  A save of *)
(* TypeORM is up to three statements: it loads the row again, and inserts  *)
(* it when it finds none, or updates it when its role differs.             *)
(*                                                                         *)
(* Owners of the organization may do here what its administrators may, and  *)
(* both are its "admin"; an account of another organization is one that is  *)
(* "new" for ever.                                                         *)
(***************************************************************************)
EXTENDS FiniteSets

CONSTANTS Users, Warehouses, Requests, None

OrgRoles == {"admin", "member"}

WarehouseRoles == {"admin", "manager", "staff"}

ASSUME WarehouseAssumption ==
  None \notin OrgRoles \cup WarehouseRoles \cup Requests \cup Users \cup Warehouses

VARIABLES
  org,        \* does the organization exist?
  orgRole,    \* the role of its members; other accounts are new or deleted
  warehouse,  \* a warehouse is new, live or deleted
  role,       \* table user_warehouse_role, as committed
  lock,       \* the request whose uncommitted write holds a row of it
  pc,         \* the next statement of a request
  req         \* what a request carries

vars == <<org, orgRole, warehouse, role, lock, pc, req>>

tables == <<org, orgRole, warehouse, role>>

\* The actor matters until its role is known, at the statement that writes.
Request == [op: {"create", "add", "update"}, actor: Users \cup {None}, target: Users,
            warehouse: Warehouses, newRole: WarehouseRoles,
            actorNow: WarehouseRoles \cup {None}]

Steps == {"idle", "createWarehouse", "member", "find", "reload", "insert", "insertRow",
          "update", "updateRow", "commit"}

Init ==
  /\ org = TRUE
  /\ orgRole \in [Users -> OrgRoles \cup {"new"}]
  /\ warehouse \in [Warehouses -> {"new", "live"}]
  /\ role \in [Warehouses -> [Users -> WarehouseRoles \cup {None}]]
  /\ \A w \in Warehouses, u \in Users :
       role[w][u] # None => warehouse[w] = "live" /\ orgRole[u] \in OrgRoles
  /\ lock = [w \in Warehouses |-> [u \in Users |-> None]]
  /\ pc = [r \in Requests |-> "idle"]
  /\ req = [r \in Requests |-> None]

(***************************************************************************)
(* Permissions                                                             *)
(***************************************************************************)
WAREHOUSE_INVITATION_PERMISSIONS ==
  [admin |-> WarehouseRoles, manager |-> {"staff"}, staff |-> {}]

is_org_admin(u) == orgRole[u] = "admin"

is_warehouse_org_member(u) == orgRole[u] \in OrgRoles

is_warehouse_admin(u, w) == role[w][u] \in {"admin", "manager"}

\* Who administers the organization administers its warehouses.
Standing(u, w) == IF is_org_admin(u) THEN "admin" ELSE role[w][u]

\* Mutant: managers may do what administrators may.
Bug_can_manage(actor_role, target_role) == actor_role \in {"admin", "manager"}

can_manage_warehouse_role(actor_role, target_role) ==
  actor_role = "admin" \/ (actor_role = "manager" /\ target_role = "staff")

\* Policy uwr_select.
Visible(r) ==
  LET q == req[r] IN
  /\ role[q.warehouse][q.target] # None
  /\ \/ q.target = q.actor
     \/ is_org_admin(q.actor)
     \/ is_warehouse_admin(q.actor, q.warehouse)

Permits(q, target_role) == can_manage_warehouse_role(q.actorNow, target_role)

\* The role a statement sees when it starts, with which its policy is evaluated.
Snapshot(r) ==
  [req[r] EXCEPT !.actorNow = Standing(req[r].actor, req[r].warehouse), !.actor = None]

(***************************************************************************)
(* Transactions                                                            *)
(***************************************************************************)
Goto(r, step) == pc' = [pc EXCEPT ![r] = step]

Begin(r, step, op, a, t, w, new) ==
  /\ pc[r] = "idle"
  /\ req' = [req EXCEPT ![r] = [op |-> op, actor |-> a, target |-> t, warehouse |-> w,
                                newRole |-> new, actorNow |-> None]]
  /\ Goto(r, step)
  /\ UNCHANGED <<tables, lock>>

Stay == UNCHANGED <<lock, req>>

\* The transaction ends, committed or not, and its locks with it.
End(r) ==
  /\ Goto(r, "idle")
  /\ req' = [req EXCEPT ![r] = None]
  /\ lock' = [w \in Warehouses |-> [u \in Users |->
                IF lock[w][u] = r THEN None ELSE lock[w][u]]]

Lock(r) == lock' = [lock EXCEPT ![req[r].warehouse][req[r].target] = r]

Free(r) == lock[req[r].warehouse][req[r].target] = None

Rollback(r) == pc[r] # "idle" /\ End(r) /\ UNCHANGED tables

(***************************************************************************)
(* The requests, from their guards on                                      *)
(***************************************************************************)
\* POST /warehouses makes its creator the administrator of the new warehouse.
BeginCreate(r, a, w) ==
  /\ is_org_admin(a)
  /\ warehouse[w] = "new"
  /\ \A s \in Requests : pc[s] # "idle" => req[s].warehouse # w
  /\ Begin(r, "createWarehouse", "create", a, a, w, "admin")

\* POST /warehouses/users: the guard finds the role that must permit the new one.
BeginAdd(r, a, t, w, new) ==
  /\ role[w][a] # None
  /\ new \in WAREHOUSE_INVITATION_PERMISSIONS[role[w][a]]
  /\ Begin(r, "member", "add", a, t, w, new)

\* PATCH /warehouses/users, for administrators of the warehouse.
BeginUpdate(r, a, t, w, new) ==
  /\ role[w][a] = "admin"
  /\ Begin(r, "find", "update", a, t, w, new)

CreateWarehouse(r) ==
  /\ pc[r] = "createWarehouse"
  /\ IF org THEN Goto(r, "insert") /\ Stay ELSE End(r)
  /\ UNCHANGED tables

Member(r) ==
  /\ pc[r] = "member"
  /\ IF is_warehouse_org_member(req[r].target) THEN Goto(r, "find") /\ Stay ELSE End(r)
  /\ UNCHANGED tables

\* findRole: an addition must find nothing, an update the row.
Find(r) ==
  /\ pc[r] = "find"
  /\ IF Visible(r) <=> req[r].op = "update" THEN Goto(r, "reload") /\ Stay ELSE End(r)
  /\ UNCHANGED tables

\* save loads the row again.  An addition may find it now.
Reload(r) ==
  LET q == req[r] IN
  /\ pc[r] = "reload"
  /\ IF ~Visible(r) THEN Goto(r, "insert") /\ Stay
     ELSE IF role[q.warehouse][q.target] = q.newRole THEN End(r)
     ELSE Goto(r, "update") /\ Stay
  /\ UNCHANGED tables

(***************************************************************************)
(* The writes                                                              *)
(***************************************************************************)
\* INSERT, policy uwr_insert.
Insert(r) ==
  LET q == Snapshot(r) IN
  /\ pc[r] = "insert"
  /\ IF Permits(q, q.newRole) /\ is_warehouse_org_member(q.target)
     THEN req' = [req EXCEPT ![r] = q] /\ Goto(r, "insertRow") /\ UNCHANGED lock
     ELSE End(r)
  /\ UNCHANGED tables

\* Mutant: no foreign key from the role to the account.
BugAccountExists(u) == TRUE

AccountExists(u) == orgRole[u] # "deleted"

WarehouseExists(q) == warehouse[q.warehouse] = "live" \/ q.op = "create"

\* The primary key and the foreign keys, looked up when whoever else holds the
\* row has ended: the row and what it refers to stay locked until the commit.
InsertRow(r) ==
  LET q == req[r] IN
  /\ pc[r] = "insertRow"
  /\ Free(r)
  /\ IF /\ role[q.warehouse][q.target] = None
        /\ AccountExists(q.target) /\ WarehouseExists(q)
     THEN Lock(r) /\ Goto(r, "commit") /\ UNCHANGED req
     ELSE End(r)
  /\ UNCHANGED tables

\* UPDATE, policy uwr_update: USING the old role, WITH CHECK the new one.
Update(r) ==
  LET q == Snapshot(r) IN
  /\ pc[r] = "update"
  /\ IF /\ Visible(r)
        /\ Permits(q, role[q.warehouse][q.target]) /\ Permits(q, q.newRole)
        /\ is_warehouse_org_member(q.target)
     THEN req' = [req EXCEPT ![r] = q] /\ Goto(r, "updateRow") /\ UNCHANGED lock
     ELSE End(r)
  /\ UNCHANGED tables

\* The row it gets may have changed while it waited; the policy looks again.
UpdateRow(r) ==
  LET q == req[r]  old == role[q.warehouse][q.target] IN
  /\ pc[r] = "updateRow"
  /\ Free(r)
  /\ IF old # None /\ Permits(q, old)
     THEN Lock(r) /\ Goto(r, "commit") /\ UNCHANGED req
     ELSE End(r)
  /\ UNCHANGED tables

\* Mutant: the creator of a warehouse owns it.
BugWritten(q) == IF q.op = "create" THEN "owner" ELSE q.newRole

Written(q) == q.newRole

Commit(r) ==
  LET q == req[r] IN
  /\ pc[r] = "commit"
  /\ role' = [role EXCEPT ![q.warehouse][q.target] = Written(q)]
  /\ warehouse' = IF q.op = "create" THEN [warehouse EXCEPT ![q.warehouse] = "live"]
                  ELSE warehouse
  /\ End(r)
  /\ UNCHANGED <<org, orgRole>>

(***************************************************************************)
(* What happens in the organization meanwhile                              *)
(***************************************************************************)
SetOrgRole(u, new) ==
  /\ orgRole[u] \in OrgRoles \ {new}
  /\ orgRole' = [orgRole EXCEPT ![u] = new]
  /\ UNCHANGED <<org, warehouse, role, lock, pc, req>>

\* grant_invite_role for a new account, with a role in a warehouse or without.
AcceptInvite(u, w, new) ==
  /\ orgRole[u] = "new" /\ org
  /\ new # None => warehouse[w] = "live"
  /\ orgRole' = [orgRole EXCEPT ![u] = "member"]
  /\ role' = [role EXCEPT ![w][u] = new]
  /\ UNCHANGED <<org, warehouse, lock, pc, req>>

\* The deletion of an account waits for the rows that refer to it, and cascades.
RemoveMember(u) ==
  /\ orgRole[u] \in OrgRoles
  /\ \A w \in Warehouses : lock[w][u] = None
  /\ orgRole' = [orgRole EXCEPT ![u] = "deleted"]
  /\ role' = [w \in Warehouses |-> [role[w] EXCEPT ![u] = None]]
  /\ UNCHANGED <<org, warehouse, lock, pc, req>>

\* A request that has inserted a warehouse holds the organization.
Creating(r) == pc[r] \in {"insert", "insertRow", "commit"} /\ req[r].op = "create"

DeleteOrganization ==
  /\ org
  /\ \A r \in Requests : ~Creating(r)
  /\ \A w \in Warehouses, u \in Users : lock[w][u] = None
  /\ org' = FALSE
  /\ orgRole' = [u \in Users |-> IF orgRole[u] \in OrgRoles THEN "deleted" ELSE orgRole[u]]
  /\ warehouse' = [w \in Warehouses |->
                     IF warehouse[w] = "live" THEN "deleted" ELSE warehouse[w]]
  /\ role' = [w \in Warehouses |-> [u \in Users |-> None]]
  /\ UNCHANGED <<lock, pc, req>>

Next ==
  \/ \E r \in Requests, a \in Users, w \in Warehouses :
       \/ BeginCreate(r, a, w)
       \/ \E t \in Users, new \in WarehouseRoles :
            BeginAdd(r, a, t, w, new) \/ BeginUpdate(r, a, t, w, new)
  \/ \E r \in Requests :
       \/ CreateWarehouse(r) \/ Member(r) \/ Find(r) \/ Reload(r) \/ Insert(r)
       \/ InsertRow(r) \/ Update(r) \/ UpdateRow(r) \/ Commit(r) \/ Rollback(r)
  \/ \E u \in Users : \/ \E new \in OrgRoles : SetOrgRole(u, new)
                      \/ RemoveMember(u)
                      \/ \E w \in Warehouses, new \in WarehouseRoles \cup {None} :
                           AcceptInvite(u, w, new)
  \/ DeleteOrganization

Spec == Init /\ [][Next]_vars

(***************************************************************************)
(* Properties                                                              *)
(***************************************************************************)
TypeOK ==
  /\ org \in BOOLEAN
  /\ orgRole \in [Users -> OrgRoles \cup {"new", "deleted"}]
  /\ warehouse \in [Warehouses -> {"new", "live", "deleted"}]
  /\ role \in [Warehouses -> [Users -> WarehouseRoles \cup {None}]]
  /\ lock \in [Warehouses -> [Users -> Requests \cup {None}]]
  /\ pc \in [Requests -> Steps]
  /\ req \in [Requests -> Request \cup {None}]

\* Whoever has a role in a warehouse is a member of the organization that owns
\* it, although members are removed, and the organization deleted, while they
\* are being added.
RolesWithinOrganization ==
  \A w \in Warehouses, u \in Users :
    role[w][u] # None => warehouse[w] = "live" /\ orgRole[u] \in OrgRoles

\* Staff is all a manager can make, and unmake: any other change of a role is by
\* somebody who, when the statement began, administered the warehouse or the
\* organization, whatever the guards had found and whoever changed the row first.
OnlyAdminsPromote ==
  [][\A r \in Requests :
       LET q == req[r] IN
       (/\ Commit(r)
        /\ {q.newRole, role[q.warehouse][q.target]} \cap {"admin", "manager"} # {})
       => q.actorNow = "admin"]_vars

=============================================================================
