-------------------------- MODULE WarehouseProofs --------------------------
(***************************************************************************)
(* What holds of the roles in every number of warehouses, for every number *)
(* of members and of concurrent requests.                                  *)
(***************************************************************************)
EXTENDS Warehouse, TLAPS

-----------------------------------------------------------------------------
(* Type correctness *)

\* The statements whose policy has been evaluated.
Allowed == {"insertRow", "updateRow", "commit"}

Carries ==
  \A r \in Requests :
    pc[r] # "idle" => req[r] \in Request /\ (pc[r] \notin Allowed => req[r].actor \in Users)

Typed == TypeOK /\ Carries

\* The statements that leave the tables alone.
Quiet(r) ==
  \/ \E a \in Users, w \in Warehouses :
       \/ BeginCreate(r, a, w)
       \/ \E t \in Users, new \in WarehouseRoles :
            BeginAdd(r, a, t, w, new) \/ BeginUpdate(r, a, t, w, new)
  \/ CreateWarehouse(r) \/ Member(r) \/ Find(r) \/ Reload(r) \/ Insert(r) \/ InsertRow(r)
  \/ Update(r) \/ UpdateRow(r) \/ Rollback(r)

\* What happens in the organization.
Outside ==
  \/ \E u \in Users : \/ \E new \in OrgRoles : SetOrgRole(u, new)
                      \/ RemoveMember(u)
                      \/ \E w \in Warehouses, new \in WarehouseRoles \cup {None} :
                           AcceptInvite(u, w, new)
  \/ DeleteOrganization

LEMMA NextSteps == Next <=> (\E r \in Requests : Quiet(r) \/ Commit(r)) \/ Outside
BY DEF Next, Quiet, Outside

\* What a request carries at a statement, and its types.
LEMMA Carried ==
  ASSUME Typed, NEW r \in Requests, pc[r] # "idle"
  PROVE  /\ req[r] \in Request /\ req[r].warehouse \in Warehouses
         /\ req[r].target \in Users
         /\ pc[r] \notin Allowed => req[r].actor \in Users
         /\ req[r].newRole \in WarehouseRoles
BY DEF Typed, Carries, Request

\* Every quiet statement ends its transaction, begins it, goes on, takes a
\* snapshot, or takes its lock.
LEMMA QuietShapes ==
  ASSUME Typed, NEW r \in Requests, Quiet(r)
  PROVE  /\ UNCHANGED tables
         /\ \/ End(r)
            \/ /\ lock' = lock
               /\ \E step \in Steps, q \in Request :
                    /\ step \notin Allowed => q.actor \in Users
                    /\ pc' = [pc EXCEPT ![r] = step]
                    /\ req' = [req EXCEPT ![r] = q]
            \/ /\ pc[r] # "idle" /\ Free(r) /\ Lock(r) /\ req' = req
               /\ pc' = [pc EXCEPT ![r] = "commit"]
<1> USE DEF Goto
<1>1. ASSUME NEW a \in Users, NEW t \in Users, NEW w \in Warehouses,
             NEW new \in WarehouseRoles, NEW step \in Steps,
             NEW op \in {"create", "add", "update"}, Begin(r, step, op, a, t, w, new)
      PROVE  /\ UNCHANGED tables /\ lock' = lock
             /\ \E q \in Request : /\ q.actor \in Users
                                   /\ pc' = [pc EXCEPT ![r] = step]
                                   /\ req' = [req EXCEPT ![r] = q]
  <2> DEFINE q == [op |-> op, actor |-> a, target |-> t, warehouse |-> w, newRole |-> new,
                   actorNow |-> None]
  <2>1. q \in Request /\ q.actor \in Users
    BY DEF Request
  <2> QED
    BY <1>1, <2>1 DEF Begin
<1>2. CASE \E a \in Users, w \in Warehouses :
             \/ BeginCreate(r, a, w)
             \/ \E t \in Users, new \in WarehouseRoles :
                  BeginAdd(r, a, t, w, new) \/ BeginUpdate(r, a, t, w, new)
  BY <1>1, <1>2 DEF BeginCreate, BeginAdd, BeginUpdate, Steps, WarehouseRoles
<1>3. CASE CreateWarehouse(r) \/ Member(r) \/ Find(r) \/ Reload(r)
  <2>1. UNCHANGED tables /\ pc[r] # "idle"
    BY <1>3 DEF CreateWarehouse, Member, Find, Reload
  <2>2. /\ req[r] \in Request /\ req = [req EXCEPT ![r] = req[r]]
        /\ req[r].actor \in Users
    BY <1>3, <2>1, Carried
       DEF Typed, TypeOK, Allowed, CreateWarehouse, Member, Find, Reload
  <2>3. End(r) \/ \E step \in Steps : Goto(r, step) /\ Stay
    BY <1>3 DEF CreateWarehouse, Member, Find, Reload, Steps
  <2> QED
    BY <2>1, <2>2, <2>3 DEF Stay
<1>4. CASE Insert(r) \/ Update(r)
  <2>1. UNCHANGED tables /\ pc[r] # "idle"
    BY <1>4 DEF Insert, Update
  <2>2. Snapshot(r) \in Request
    <3>1. Standing(req[r].actor, req[r].warehouse) \in WarehouseRoles \cup {None}
      BY <1>4, <2>1, Carried
         DEF Standing, Typed, TypeOK, WarehouseRoles, Allowed, Insert, Update
    <3> QED
      BY <2>1, <3>1, Carried DEF Snapshot, Request
  <2> QED
    BY <1>4, <2>1, <2>2 DEF Insert, Update, Steps, Allowed
<1>5. CASE InsertRow(r) \/ UpdateRow(r)
  BY <1>5 DEF InsertRow, UpdateRow
<1>6. CASE Rollback(r)
  BY <1>6 DEF Rollback
<1> QED
  BY <1>2, <1>3, <1>4, <1>5, <1>6 DEF Quiet

LEMMA EndTyped ==
  ASSUME Typed, NEW r \in Requests, End(r)
  PROVE  /\ lock' \in [Warehouses -> [Users -> Requests \cup {None}]]
         /\ pc' \in [Requests -> Steps] /\ req' \in [Requests -> Request \cup {None}]
         /\ Carries'
BY DEF Typed, TypeOK, Carries, End, Goto, Steps

LEMMA QuietTyped ==
  ASSUME Typed, NEW r \in Requests, Quiet(r)
  PROVE  Typed'
<1>1. CASE End(r)
  BY <1>1, EndTyped, QuietShapes DEF Typed, TypeOK, tables
<1>2. ASSUME lock' = lock, NEW step \in Steps, NEW q \in Request,
             step \notin Allowed => q.actor \in Users,
             pc' = [pc EXCEPT ![r] = step], req' = [req EXCEPT ![r] = q]
      PROVE  Typed'
  BY <1>2, QuietShapes DEF Typed, TypeOK, Carries, tables
<1>3. CASE pc[r] # "idle" /\ Lock(r) /\ req' = req /\ pc' = [pc EXCEPT ![r] = "commit"]
  <2>1. lock' \in [Warehouses -> [Users -> Requests \cup {None}]]
    BY <1>3, Carried DEF Lock, Typed, TypeOK
  <2>2. pc' \in [Requests -> Steps]
    BY <1>3 DEF Typed, TypeOK, Steps
  <2>3. Carries'
    BY <1>3 DEF Typed, TypeOK, Carries, Allowed
  <2> QED
    BY <1>3, <2>1, <2>2, <2>3, QuietShapes DEF Typed, TypeOK, tables
<1> QED
  BY <1>1, <1>2, <1>3, QuietShapes

LEMMA CommitTyped ==
  ASSUME Typed, NEW r \in Requests, Commit(r)
  PROVE  Typed'
<1>1. /\ req[r].warehouse \in Warehouses /\ req[r].target \in Users
      /\ req[r].newRole \in WarehouseRoles
  BY Carried DEF Commit
<1>2. role' \in [Warehouses -> [Users -> WarehouseRoles \cup {None}]]
  BY <1>1 DEF Commit, Written, Typed, TypeOK
<1>3. warehouse' \in [Warehouses -> {"new", "live", "deleted"}]
  BY <1>1 DEF Commit, Typed, TypeOK
<1> QED
  BY <1>2, <1>3, EndTyped DEF Commit, Typed, TypeOK

LEMMA OutsideTyped ==
  ASSUME Typed, Outside
  PROVE  Typed'
<1> USE DEF Typed, TypeOK, Carries
<1>1. ASSUME NEW u \in Users, NEW new \in OrgRoles, SetOrgRole(u, new)
      PROVE  Typed'
  BY <1>1 DEF SetOrgRole
<1>2. ASSUME NEW u \in Users, RemoveMember(u)
      PROVE  Typed'
  BY <1>2 DEF RemoveMember
<1>3. ASSUME NEW u \in Users, NEW w \in Warehouses, NEW new \in WarehouseRoles \cup {None},
             AcceptInvite(u, w, new)
      PROVE  Typed'
  BY <1>3 DEF AcceptInvite, OrgRoles
<1>4. CASE DeleteOrganization
  BY <1>4 DEF DeleteOrganization
<1> QED
  BY <1>1, <1>2, <1>3, <1>4 DEF Outside

LEMMA TypedInit == Init => Typed
BY DEF Init, Typed, TypeOK, Carries, Steps

LEMMA TypedStep == Typed /\ [Next]_vars => Typed'
<1>1. Typed /\ UNCHANGED vars => Typed'
  BY DEF vars, Typed, TypeOK, Carries
<1> QED
  BY <1>1, QuietTyped, CommitTyped, OutsideTyped, NextSteps

\* The variables have their types in every reachable state.
THEOREM TypeCorrect == Spec => []TypeOK
<1>1. Typed => TypeOK
  BY DEF Typed
<1> QED
  BY TypedInit, TypedStep, <1>1, PTL DEF Spec

-----------------------------------------------------------------------------
(* What a request that has passed its policy may rely on until it commits *)

Sound(r) ==
  LET q == req[r]  old == role[q.warehouse][q.target] IN
  /\ pc[r] \in Allowed => Permits(q, q.newRole)
  /\ pc[r] = "insertRow" => orgRole[q.target] \in OrgRoles \cup {"deleted"}
  /\ pc[r] = "commit" =>
       /\ lock[q.warehouse][q.target] = r
       /\ orgRole[q.target] \in OrgRoles
       /\ q.op # "create" => warehouse[q.warehouse] = "live"
       /\ old # None => Permits(q, old)

Held == \A r \in Requests : Sound(r)

Inv == Typed /\ RolesWithinOrganization /\ Held

\* A quiet statement of one request takes nothing from another.
LEMMA OthersKept ==
  ASSUME Typed, NEW r \in Requests, NEW s \in Requests, s # r, Quiet(r), Sound(s)
  PROVE  Sound(s)'
<1>1. UNCHANGED tables
  BY QuietShapes
<1>2. pc'[s] = pc[s] /\ req'[s] = req[s]
  BY QuietShapes DEF End, Goto, Typed, TypeOK
<1>3. ASSUME pc[s] = "commit"
      PROVE  lock'[req[s].warehouse][req[s].target] = lock[req[s].warehouse][req[s].target]
  <2>1. req[s].warehouse \in Warehouses /\ req[s].target \in Users
    BY <1>3, Carried
  <2>2. lock[req[s].warehouse][req[s].target] = s /\ s # None
    BY <1>3, WarehouseAssumption DEF Sound
  <2>3. CASE End(r)
    BY <2>1, <2>2, <2>3 DEF End
  <2>4. CASE pc[r] # "idle" /\ Free(r) /\ Lock(r)
    <3>1. req[r].warehouse \in Warehouses /\ req[r].target \in Users
      BY <2>4, Carried
    <3> QED
      BY <2>1, <2>2, <2>4, <3>1 DEF Free, Lock, Typed, TypeOK
  <2> QED
    BY <2>3, <2>4, QuietShapes
<1> QED
  BY <1>1, <1>2, <1>3 DEF Sound, Allowed, Permits, tables

\* What the policies and the constraints leave to a request.
LEMMA StepSound ==
  ASSUME Inv, NEW r \in Requests, Quiet(r)
  PROVE  Sound(r)'
<1> USE DEF Inv, Held
<1>1. UNCHANGED tables
  BY QuietShapes
<1>2. CASE pc'[r] \notin Allowed
  BY <1>2 DEF Sound, Allowed
<1>3. CASE pc'[r] \in Allowed
  <2>1. Insert(r) \/ Update(r) \/ InsertRow(r) \/ UpdateRow(r)
    <3>1. pc \in [Requests -> Steps]
      BY DEF Typed, TypeOK
    <3> QED
      BY <1>3, <3>1 DEF Quiet, BeginCreate, BeginAdd, BeginUpdate, Begin, CreateWarehouse,
         Member, Find, Reload, Rollback, End, Goto, Allowed
  <2>2. /\ pc \in [Requests -> Steps] /\ req \in [Requests -> Request \cup {None}]
        /\ pc[r] # "idle" /\ req[r] \in Request
        /\ req[r].warehouse \in Warehouses /\ req[r].target \in Users
    BY <2>1, Carried DEF Typed, TypeOK, Insert, Update, InsertRow, UpdateRow
  <2>3. CASE Insert(r)
    <3>1. /\ req'[r] = Snapshot(r) /\ pc'[r] = "insertRow"
          /\ Permits(Snapshot(r), Snapshot(r).newRole)
          /\ is_warehouse_org_member(Snapshot(r).target)
      BY <1>3, <2>2, <2>3 DEF Insert, End, Goto, Allowed
    <3> QED
      BY <1>1, <3>1 DEF Sound, is_warehouse_org_member, Permits, Allowed, tables
  <2>4. CASE Update(r)
    <3>1. /\ req'[r] = Snapshot(r) /\ pc'[r] = "updateRow"
          /\ Permits(Snapshot(r), Snapshot(r).newRole)
      BY <1>3, <2>2, <2>4 DEF Update, End, Goto, Allowed
    <3> QED
      BY <3>1 DEF Sound, Permits, Allowed
  <2>5. CASE InsertRow(r) \/ UpdateRow(r)
    <3>1. Lock(r) /\ pc'[r] = "commit" /\ req'[r] = req[r]
      BY <1>3, <2>2, <2>5 DEF InsertRow, UpdateRow, End, Goto, Allowed
    <3>2. lock'[req[r].warehouse][req[r].target] = r
      BY <2>2, <3>1 DEF Lock, Typed, TypeOK
    <3>3. Permits(req[r], req[r].newRole)
      BY <2>5 DEF Sound, Allowed, InsertRow, UpdateRow
    <3>4. CASE InsertRow(r)
      <4>1. /\ role[req[r].warehouse][req[r].target] = None
            /\ AccountExists(req[r].target) /\ WarehouseExists(req[r])
        BY <1>3, <2>2, <3>4 DEF InsertRow, End, Goto, Allowed
      <4>2. orgRole[req[r].target] \in OrgRoles
        BY <3>4, <4>1 DEF InsertRow, Sound, AccountExists
      <4> QED
        BY <1>1, <3>1, <3>2, <3>3, <4>1, <4>2
           DEF Sound, WarehouseExists, Permits, Allowed, tables
    <3>5. CASE UpdateRow(r)
      <4>1. /\ role[req[r].warehouse][req[r].target] # None
            /\ Permits(req[r], role[req[r].warehouse][req[r].target])
        BY <1>3, <2>2, <3>5 DEF UpdateRow, End, Goto, Allowed
      <4>2. /\ warehouse[req[r].warehouse] = "live"
            /\ orgRole[req[r].target] \in OrgRoles
        BY <2>2, <4>1 DEF RolesWithinOrganization
      <4> QED
        BY <1>1, <3>1, <3>2, <3>3, <4>1, <4>2 DEF Sound, Permits, Allowed, tables
    <3> QED
      BY <2>5, <3>4, <3>5
  <2> QED
    BY <2>1, <2>3, <2>4, <2>5
<1> QED
  BY <1>2, <1>3

LEMMA QuietKeeps ==
  ASSUME Inv, NEW r \in Requests, Quiet(r)
  PROVE  Inv'
<1>1. UNCHANGED tables
  BY QuietShapes DEF Inv
<1>2. RolesWithinOrganization'
  BY <1>1 DEF Inv, RolesWithinOrganization, tables
<1>3. Held'
  BY OthersKept, StepSound DEF Inv, Held
<1> QED
  BY <1>2, <1>3, QuietTyped DEF Inv

\* A commit writes the row the request holds, and no other.
LEMMA CommitKeeps ==
  ASSUME Inv, NEW r \in Requests, Commit(r)
  PROVE  Inv'
<1> DEFINE w == req[r].warehouse
           t == req[r].target
<1> USE DEF Inv
<1>1. w \in Warehouses /\ t \in Users /\ req[r].newRole \in WarehouseRoles
  BY Carried DEF Commit
<1>2. /\ lock[w][t] = r /\ orgRole[t] \in OrgRoles
      /\ req[r].op # "create" => warehouse[w] = "live"
  BY DEF Held, Sound, Commit
<1>3. /\ \A v \in Warehouses, u \in Users :
           <<v, u>> # <<w, t>> => role'[v][u] = role[v][u]
      /\ \A v \in Warehouses : warehouse[v] = "live" => warehouse'[v] = "live"
      /\ warehouse'[w] = "live" /\ orgRole' = orgRole
  BY <1>1, <1>2 DEF Commit, Typed, TypeOK
<1>4. RolesWithinOrganization'
  BY <1>1, <1>2, <1>3 DEF RolesWithinOrganization
<1>5. ASSUME NEW s \in Requests, s # r
      PROVE  Sound(s)'
  <2>1. pc'[s] = pc[s] /\ req'[s] = req[s] /\ Sound(s)
    BY <1>5 DEF Commit, End, Goto, Typed, TypeOK, Held
  <2>2. CASE pc[s] = "commit"
    <3>1. req[s].warehouse \in Warehouses /\ req[s].target \in Users
      BY <2>2, Carried
    <3>2. <<req[s].warehouse, req[s].target>> # <<w, t>>
      BY <1>2, <1>5, <2>1, <2>2 DEF Sound
    <3>3. lock'[req[s].warehouse][req[s].target] = s
      BY <1>5, <2>1, <2>2, <3>1 DEF Sound, Commit, End
    <3> QED
      BY <1>3, <2>1, <2>2, <3>1, <3>2, <3>3 DEF Sound, Permits, Allowed
  <2>3. CASE pc[s] # "commit"
    BY <1>3, <2>1, <2>3 DEF Sound, Permits, Allowed
  <2> QED
    BY <2>2, <2>3
<1>6. Sound(r)'
  BY DEF Sound, Commit, End, Goto, Typed, TypeOK, Allowed
<1> QED
  BY <1>4, <1>5, <1>6, CommitTyped DEF Held

\* The organization leaves a locked row alone, and roles to members.
LEMMA OutsideKeeps ==
  ASSUME Inv, Outside
  PROVE  Inv'
<1> USE DEF Inv
<1>1. pc' = pc /\ req' = req /\ lock' = lock
  BY DEF Outside, SetOrgRole, RemoveMember, AcceptInvite, DeleteOrganization
<1>2. \A s \in Requests : pc[s] # "idle" =>
        req[s].warehouse \in Warehouses /\ req[s].target \in Users
  BY Carried
<1>3. \A s \in Requests : s # None
  BY WarehouseAssumption
<1>4. ASSUME NEW u \in Users, NEW new \in OrgRoles, SetOrgRole(u, new)
      PROVE  RolesWithinOrganization' /\ Held'
  <2>1. RolesWithinOrganization'
    BY <1>4 DEF SetOrgRole, RolesWithinOrganization, Typed, TypeOK
  <2>2. Held'
    BY <1>2, <1>4 DEF SetOrgRole, Held, Sound, Permits, Allowed, Typed, TypeOK
  <2> QED
    BY <2>1, <2>2
<1>5. ASSUME NEW u \in Users, RemoveMember(u)
      PROVE  RolesWithinOrganization' /\ Held'
  <2>1. RolesWithinOrganization'
    BY <1>5 DEF RemoveMember, RolesWithinOrganization, Typed, TypeOK
  <2>2. ASSUME NEW s \in Requests
        PROVE  Sound(s)'
    <3>1. CASE pc[s] = "commit"
      <4>1. req[s].target # u
        BY <1>2, <1>3, <1>5, <3>1 DEF RemoveMember, Held, Sound
      <4> QED
        BY <1>1, <1>2, <1>5, <3>1, <4>1
           DEF RemoveMember, Held, Sound, Permits, Allowed, Typed, TypeOK
    <3>2. CASE pc[s] # "commit"
      BY <1>1, <1>2, <1>5, <3>2
         DEF RemoveMember, Held, Sound, Permits, Allowed, Typed, TypeOK
    <3> QED
      BY <3>1, <3>2
  <2> QED
    BY <2>1, <2>2 DEF Held
<1>6. ASSUME NEW u \in Users, NEW w \in Warehouses, NEW new \in WarehouseRoles \cup {None},
             AcceptInvite(u, w, new)
      PROVE  RolesWithinOrganization' /\ Held'
  <2>1. /\ \A v \in Warehouses, x \in Users : x # u => role'[v][x] = role[v][x]
        /\ \A x \in Users : x # u => orgRole'[x] = orgRole[x]
        /\ orgRole'[u] \in OrgRoles /\ orgRole[u] \notin OrgRoles
        /\ orgRole[u] \notin {"deleted"} /\ warehouse' = warehouse
    BY <1>6 DEF AcceptInvite, OrgRoles, Typed, TypeOK
  <2>2. \A v \in Warehouses : role'[v][u] # None => warehouse[v] = "live"
    BY <1>6 DEF AcceptInvite, RolesWithinOrganization, Typed, TypeOK
  <2>3. RolesWithinOrganization'
    BY <2>1, <2>2 DEF RolesWithinOrganization
  <2>4. Held'
    BY <1>1, <1>2, <2>1 DEF Held, Sound, Permits, Allowed
  <2> QED
    BY <2>3, <2>4
<1>7. CASE DeleteOrganization
  <2>1. RolesWithinOrganization'
    BY <1>7 DEF DeleteOrganization, RolesWithinOrganization
  <2>2. \A s \in Requests : pc[s] # "commit"
    BY <1>2, <1>3, <1>7 DEF DeleteOrganization, Held, Sound
  <2>3. Held'
    BY <1>1, <1>2, <1>7, <2>2 DEF DeleteOrganization, Held, Sound, Permits, Allowed
  <2> QED
    BY <2>1, <2>3, OutsideTyped
<1> QED
  BY <1>4, <1>5, <1>6, <1>7, OutsideTyped DEF Outside

LEMMA InvInit == Init => Inv
<1>1. Init => RolesWithinOrganization /\ Held
  BY DEF Init, RolesWithinOrganization, Held, Sound, Allowed
<1> QED
  BY <1>1, TypedInit DEF Inv

LEMMA InvStep == Inv /\ [Next]_vars => Inv'
<1>1. Inv /\ UNCHANGED vars => Inv'
  <2>1. Typed /\ UNCHANGED vars => Typed'
    BY TypedStep
  <2> QED
    BY <2>1 DEF vars, Inv, RolesWithinOrganization, Held, Sound, Permits
<1> QED
  BY <1>1, QuietKeeps, CommitKeeps, OutsideKeeps, NextSteps

\* Nobody has a role in a warehouse of an organization they do not belong to,
\* however additions, removals and the deletion of the organization interleave.
THEOREM RolesStayWithin == Spec => []RolesWithinOrganization
<1>1. Inv => RolesWithinOrganization
  BY DEF Inv
<1> QED
  BY InvInit, InvStep, <1>1, PTL DEF Spec

-----------------------------------------------------------------------------
\* Whoever makes or unmakes an administrator or a manager administered the
\* warehouse or the organization when the statement that does it began.
THEOREM PromotionsAreByAdmins == Spec => OnlyAdminsPromote
<1> DEFINE Promotion(r) ==
      /\ Commit(r)
      /\ {req[r].newRole, role[req[r].warehouse][req[r].target]}
           \cap {"admin", "manager"} # {}
<1>1. ASSUME Inv, NEW r \in Requests, Promotion(r)
      PROVE  req[r].actorNow = "admin"
  <2>1. /\ Permits(req[r], req[r].newRole)
        /\ \/ role[req[r].warehouse][req[r].target] = None
           \/ Permits(req[r], role[req[r].warehouse][req[r].target])
    BY <1>1 DEF Inv, Held, Sound, Allowed, Commit
  <2>2. None \notin {"admin", "manager"}
    BY WarehouseAssumption DEF WarehouseRoles
  <2> QED
    BY <1>1, <2>1, <2>2 DEF Permits, can_manage_warehouse_role
<1>2. Inv /\ [Next]_vars =>
        [\A r \in Requests : Promotion(r) => req[r].actorNow = "admin"]_vars
  BY <1>1
<1> QED
  BY InvInit, InvStep, <1>2, PTL DEF Spec, OnlyAdminsPromote

=============================================================================
