---------------------------- MODULE Membership ----------------------------
(***************************************************************************)
(* The members of one organization and the requests that change their      *)
(* roles, remove them, or delete their own account.                        *)
(*                                                                         *)
(* Every request runs in a READ COMMITTED transaction: each statement reads *)
(* what is committed when it starts, a write is invisible until the commit *)
(* and locks its row, and a second writer of the row waits and then looks  *)
(* at the row again.  One statement is one action, so two requests          *)
(* interleave as they do on the connections of a pool.                     *)
(*                                                                         *)
(* The guards of a request run before its transaction: the role they find  *)
(* travels with the request as orgRole, however long it takes.             *)
(***************************************************************************)
EXTENDS Integers, FiniteSets, OrganizationRoles

CONSTANTS
  Users,      \* the accounts
  Requests,   \* requests that may be in flight
  None

ASSUME MembershipAssumption ==
  /\ IsFiniteSet(Users)
  /\ None \notin {"owner", "admin", "member"} \cup Requests

VARIABLES
  role,   \* user_org_role as committed: the role of a member, or None
  lock,   \* the request whose uncommitted write holds the row of a user
  pc,     \* the next statement of a request
  req     \* what a request carries

vars == <<role, lock, pc, req>>

Operations == {"update", "remove", "leave"}

Request == [op: Operations, actor: Users, target: Users, newRole: Roles,
            orgRole: Roles \cup {None}, actorNow: Roles \cup {None}]

Steps == {"idle", "find", "membership", "count", "write", "lock", "commit"}

(***************************************************************************)
(* Permissions                                                             *)
(***************************************************************************)
\* can_manage_org_role, and assertCanManage of the service.
CanManage(actorRole, targetRole) ==
  actorRole # None /\ targetRole \in ORG_INVITATION_PERMISSIONS[actorRole]

is_org_admin(u) == role[u] \in {"owner", "admin"}

\* Policy uor_select: one's own row, and every row for owners and admins.
Visible(r, u) ==
  role[u] # None /\ (u = req[r].actor \/ is_org_admin(req[r].actor))

Owners == {u \in Users : role[u] = "owner"}

Free(r, u) == lock[u] \in {None, r}

Init ==
  /\ role \in [Users -> Roles \cup {None}]
  /\ Owners # {}
  /\ lock = [u \in Users |-> None]
  /\ pc = [r \in Requests |-> "idle"]
  /\ req = [r \in Requests |-> None]

(***************************************************************************)
(* The statements                                                          *)
(***************************************************************************)
Goto(r, step) == pc' = [pc EXCEPT ![r] = step]

\* The transaction ends, committed or not, and its locks with it.
End(r) ==
  /\ Goto(r, "idle")
  /\ req' = [req EXCEPT ![r] = None]
  /\ lock' = [u \in Users |-> IF lock[u] = r THEN None ELSE lock[u]]

\* OrganizationRolesGuard, then PATCH or DELETE /organizations/users.
BeginManage(r, op, a, t, new) ==
  /\ pc[r] = "idle"
  /\ op = "update" \/ (op = "remove" /\ new = "member")
  /\ is_org_admin(a)
  /\ req' = [req EXCEPT ![r] = [op |-> op, actor |-> a, target |-> t,
                                newRole |-> new, orgRole |-> role[a],
                                actorNow |-> None]]
  /\ Goto(r, "find")
  /\ UNCHANGED <<role, lock>>

\* DELETE /users: deleteUser finds the account and its password right.  A user
\* who is being removed by somebody else may still come in.
BeginLeave(r, a) ==
  /\ pc[r] = "idle"
  /\ role[a] # None
  /\ req' = [req EXCEPT ![r] = [op |-> "leave", actor |-> a, target |-> a,
                                newRole |-> "member", orgRole |-> None,
                                actorNow |-> None]]
  /\ Goto(r, "membership")
  /\ UNCHANGED <<role, lock>>

\* findMembership and the assertCanManage on what it found.  An update to owner
\* skips assertNotLastOwner.
Find(r) ==
  LET q == req[r] IN
  /\ pc[r] = "find"
  /\ IF /\ Visible(r, q.target)
        /\ CanManage(q.orgRole, role[q.target])
        /\ q.op = "update" => CanManage(q.orgRole, q.newRole)
     THEN /\ Goto(r, IF q.op = "update" /\ q.newRole = "owner"
                     THEN "write" ELSE "membership")
          /\ UNCHANGED <<lock, req>>
     ELSE End(r)
  /\ UNCHANGED role

\* assertNotLastOwner, first query: only an owner's departure matters.
Membership(r) ==
  LET t == req[r].target IN
  /\ pc[r] = "membership"
  /\ Goto(r, IF Visible(r, t) /\ role[t] = "owner" THEN "count" ELSE "write")
  /\ UNCHANGED <<role, lock, req>>

EnoughOwners(n) == n > 1

\* assertNotLastOwner, second query: counts the owners it can see.
Count(r) ==
  /\ pc[r] = "count"
  /\ IF EnoughOwners(Cardinality({u \in Owners : Visible(r, u)}))
     THEN Goto(r, "write") /\ UNCHANGED <<lock, req>>
     ELSE End(r)
  /\ UNCHANGED role

\* Mutant: the policy uor_update_org_admin is missing.
BugUpdatePolicy(actorRole, old, new) == TRUE

\* Policy uor_update_org_admin: USING the old role, WITH CHECK the new one.
UpdatePolicy(actorRole, old, new) ==
  CanManage(actorRole, old) /\ CanManage(actorRole, new)

\* save: an unchanged role is not written, and the UPDATE starts by fixing the
\* roles its policy is evaluated with.  A row the policy hides is not updated,
\* and no error says so; a row that is gone is an error.
Save(r) ==
  LET q == req[r]  old == role[q.target] IN
  /\ pc[r] = "write" /\ q.op = "update"
  /\ IF /\ Visible(r, q.target) /\ old # q.newRole
        /\ UpdatePolicy(role[q.actor], old, q.newRole)
     THEN /\ req' = [req EXCEPT ![r].actorNow = role[q.actor]]
          /\ Goto(r, "lock")
          /\ UNCHANGED lock
     ELSE End(r)
  /\ UNCHANGED role

\* The UPDATE gets its row, which another transaction may have changed while it
\* waited: the policy is evaluated again on the row it got.
UpdateRow(r) ==
  LET q == req[r]  t == q.target IN
  /\ pc[r] = "lock"
  /\ Free(r, t)
  /\ IF role[t] # None /\ UpdatePolicy(q.actorNow, role[t], q.newRole)
     THEN /\ lock' = [lock EXCEPT ![t] = r]
          /\ Goto(r, "commit")
          /\ UNCHANGED req
     ELSE End(r)
  /\ UNCHANGED role

\* The DELETE of the account, which cascades to the membership.  Table "user"
\* has no policy: nothing is looked at again.
DeleteRow(r) ==
  LET q == req[r]  t == q.target IN
  /\ pc[r] = "write" /\ q.op # "update"
  /\ Free(r, t)
  /\ IF role[t] # None
     THEN /\ lock' = [lock EXCEPT ![t] = r]
          /\ Goto(r, "commit")
          /\ UNCHANGED req
     ELSE End(r)
  /\ UNCHANGED role

\* Mutant: a removed member is only marked as one.
BugSoftDelete(r) == IF req[r].op = "update" THEN req[r].newRole ELSE "removed"

Written(r) == IF req[r].op = "update" THEN req[r].newRole ELSE None

Commit(r) ==
  /\ pc[r] = "commit"
  /\ role' = [role EXCEPT ![req[r].target] = Written(r)]
  /\ End(r)

\* A statement fails, or the process does.
Rollback(r) ==
  /\ pc[r] # "idle"
  /\ End(r)
  /\ UNCHANGED role

Next ==
  \E r \in Requests :
    \/ \E op \in Operations, a, t \in Users, new \in Roles :
         BeginManage(r, op, a, t, new)
    \/ \E a \in Users : BeginLeave(r, a)
    \/ Find(r) \/ Membership(r) \/ Count(r) \/ Save(r) \/ UpdateRow(r)
    \/ DeleteRow(r) \/ Commit(r) \/ Rollback(r)

Spec == Init /\ [][Next]_vars

(***************************************************************************)
(* Properties                                                              *)
(***************************************************************************)
TypeOK ==
  /\ role \in [Users -> Roles \cup {None}]
  /\ lock \in [Users -> Requests \cup {None}]
  /\ pc \in [Requests -> Steps]
  /\ req \in [Requests -> Request \cup {None}]

\* Whatever changes meanwhile, a committed role change replaces a role that the
\* actor could manage by one that the actor could grant, judged by the actor's
\* role when the UPDATE began and not by the stale one of the guard.
RoleChangesAuthorized ==
  [][\A r \in Requests : (Commit(r) /\ req[r].op = "update") =>
       /\ CanManage(req[r].actorNow, role[req[r].target])
       /\ CanManage(req[r].actorNow, req[r].newRole)]_vars

\* Only an owner makes an owner: no sequence of requests lets an administrator
\* become one.
OwnersAppointOwners ==
  [][\A u \in Users : (role[u] # "owner" /\ role'[u] = "owner") =>
       \E r \in Requests : pc[r] = "commit" /\ req[r].actorNow = "owner"]_vars

\* userOrganizationRole.service.ts:68: "An organization must have at least one
\* owner", for as long as it has a member at all.
AtLeastOneOwner == Owners # {}

=============================================================================
