-------------------------- MODULE MembershipProofs --------------------------
(***************************************************************************)
(* What the transactions of Membership guarantee for every number of users *)
(* and of concurrent requests, and which overlaps can cost the last owner. *)
(***************************************************************************)
EXTENDS Membership, FiniteSetTheorems, TLAPS

-----------------------------------------------------------------------------
(* Type correctness *)

\* A request that has begun carries its parameters.
Carries == \A r \in Requests : pc[r] # "idle" => req[r] \in Request

Typed == TypeOK /\ Carries

\* Ending a request keeps the types, whatever the roles become.
LEMMA EndTyped ==
  ASSUME Typed, NEW r \in Requests, End(r), role' \in [Users -> Roles \cup {None}]
  PROVE  Typed'
BY DEF Typed, TypeOK, Carries, End, Goto, Steps

LEMMA TypedNext == Typed /\ [Next]_vars => Typed'
<1> SUFFICES ASSUME Typed, [Next]_vars PROVE Typed'
  OBVIOUS
<1> USE DEF Typed, TypeOK, Carries, Goto, Steps
<1>1. ASSUME NEW r \in Requests, NEW op \in Operations, NEW a \in Users,
             NEW t \in Users, NEW new \in Roles, BeginManage(r, op, a, t, new)
      PROVE  Typed'
  BY <1>1 DEF BeginManage, Request
<1>2. ASSUME NEW r \in Requests, NEW a \in Users, BeginLeave(r, a)
      PROVE  Typed'
  BY <1>2 DEF BeginLeave, Request, Operations, Roles
<1>3. ASSUME NEW r \in Requests, Find(r) PROVE Typed'
  BY <1>3, EndTyped DEF Find
<1>4. ASSUME NEW r \in Requests, Membership(r) PROVE Typed'
  BY <1>4 DEF Membership
<1>5. ASSUME NEW r \in Requests, Count(r) PROVE Typed'
  BY <1>5, EndTyped DEF Count
<1>6. ASSUME NEW r \in Requests, Save(r) PROVE Typed'
  <2>1. req[r] \in Request
    BY <1>6 DEF Save
  <2>2. req[r].actor \in Users
    BY <2>1 DEF Request
  <2>3. [req[r] EXCEPT !.actorNow = role[req[r].actor]] \in Request
    BY <2>1, <2>2 DEF Request
  <2> QED
    BY <1>6, <2>3, EndTyped DEF Save
<1>7. ASSUME NEW r \in Requests, UpdateRow(r) \/ DeleteRow(r) PROVE Typed'
  BY <1>7, EndTyped DEF UpdateRow, DeleteRow
<1>8. ASSUME NEW r \in Requests, Commit(r) PROVE Typed'
  <2>1. Written(r) \in Roles \cup {None}
    BY <1>8 DEF Commit, Written, Request
  <2>2. role' \in [Users -> Roles \cup {None}]
    BY <1>8, <2>1 DEF Commit
  <2> QED
    BY <1>8, <2>2, EndTyped DEF Commit
<1>9. ASSUME NEW r \in Requests, Rollback(r) PROVE Typed'
  BY <1>9, EndTyped DEF Rollback
<1>10. CASE UNCHANGED vars
  BY <1>10 DEF vars
<1> QED
  BY <1>1, <1>2, <1>3, <1>4, <1>5, <1>6, <1>7, <1>8, <1>9, <1>10 DEF Next

\* In every reachable state the variables have their types.
THEOREM TypeCorrect == Spec => []TypeOK
<1>1. Init => Typed
  BY DEF Init, Typed, TypeOK, Carries, Steps
<1>2. Typed => TypeOK
  BY DEF Typed
<1> QED
  BY <1>1, <1>2, TypedNext, PTL DEF Spec

-----------------------------------------------------------------------------
(* Role changes *)

\* The lock a writer holds keeps the row it checked as it was.
Authorized(r) ==
  LET q == req[r] IN
    pc[r] = "commit" =>
      /\ lock[q.target] = r
      /\ q.op = "update" => UpdatePolicy(q.actorNow, role[q.target], q.newRole)

AllAuthorized == \A r \in Requests : Authorized(r)

\* A step of one request leaves alone what another one relies on.
LEMMA AuthorizedNext == Typed /\ AllAuthorized /\ [Next]_vars => AllAuthorized'
<1> SUFFICES ASSUME Typed, AllAuthorized, [Next]_vars, NEW s \in Requests
             PROVE  Authorized(s)'
  BY DEF AllAuthorized
<1> USE DEF Typed, TypeOK, Carries, Goto, Steps
<1>0. Authorized(s) /\ \A u \in Users : lock[u] = s => lock[u] # None
  BY MembershipAssumption DEF AllAuthorized
<1>1. ASSUME NEW r \in Requests, End(r), UNCHANGED role PROVE Authorized(s)'
  BY <1>0, <1>1, MembershipAssumption DEF End, Authorized, Request
<1>2. ASSUME NEW r \in Requests, Commit(r) PROVE Authorized(s)'
  <2>1. Authorized(r)
    BY DEF AllAuthorized
  <2>2. CASE s = r
    BY <1>2, <2>2 DEF Commit, End, Authorized
  <2>3. CASE s # r /\ pc[s] = "commit"
    <3>1. req[s] \in Request /\ req[r] \in Request
      BY <1>2, <2>3 DEF Commit
    <3>2. req[s].target # req[r].target
      BY <1>0, <1>2, <2>1, <2>3 DEF Commit, Authorized
    <3> QED
      BY <1>0, <1>2, <2>3, <3>1, <3>2 DEF Commit, End, Authorized, Request
  <2>4. CASE s # r /\ pc[s] # "commit"
    BY <1>2, <2>4 DEF Commit, End, Authorized
  <2> QED
    BY <2>2, <2>3, <2>4
<1>3. ASSUME NEW r \in Requests, UpdateRow(r) PROVE Authorized(s)'
  <2>1. CASE End(r)
    BY <1>1, <1>3, <2>1 DEF UpdateRow
  <2>2. CASE ~End(r)
    BY <1>0, <1>3, <2>2, MembershipAssumption
       DEF UpdateRow, Free, Authorized, Request
  <2> QED
    BY <2>1, <2>2
<1>4. ASSUME NEW r \in Requests, DeleteRow(r) PROVE Authorized(s)'
  <2>1. CASE End(r)
    BY <1>1, <1>4, <2>1 DEF DeleteRow
  <2>2. CASE ~End(r)
    BY <1>0, <1>4, <2>2, MembershipAssumption
       DEF DeleteRow, Free, Authorized, Request
  <2> QED
    BY <2>1, <2>2
<1>5. ASSUME NEW r \in Requests, Find(r) \/ Count(r) \/ Save(r) \/ Rollback(r)
      PROVE  Authorized(s)'
  <2>1. CASE End(r)
    BY <1>1, <1>5, <2>1 DEF Find, Count, Save, Rollback
  <2>2. CASE ~End(r)
    BY <1>0, <1>5, <2>2 DEF Find, Count, Save, Rollback, Authorized
  <2> QED
    BY <2>1, <2>2
<1>6. ASSUME NEW r \in Requests, Membership(r) PROVE Authorized(s)'
  BY <1>0, <1>6 DEF Membership, Authorized
<1>7. ASSUME NEW r \in Requests, NEW op \in Operations, NEW a \in Users,
             NEW t \in Users, NEW new \in Roles, BeginManage(r, op, a, t, new)
      PROVE  Authorized(s)'
  BY <1>0, <1>7 DEF BeginManage, Authorized
<1>8. ASSUME NEW r \in Requests, NEW a \in Users, BeginLeave(r, a)
      PROVE  Authorized(s)'
  BY <1>0, <1>8 DEF BeginLeave, Authorized
<1>9. CASE UNCHANGED vars
  BY <1>0, <1>9 DEF vars, Authorized
<1> QED
  BY <1>2, <1>3, <1>4, <1>5, <1>6, <1>7, <1>8, <1>9 DEF Next

LEMMA AuthorizedInvariant == Spec => [](Typed /\ AllAuthorized)
<1>1. Init => Typed /\ AllAuthorized
  BY DEF Init, Typed, TypeOK, Carries, Steps, AllAuthorized, Authorized
<1> QED
  BY <1>1, TypedNext, AuthorizedNext, PTL DEF Spec

\* A committed role change was within the powers its actor had when the UPDATE
\* began, over the role it replaces and the role it grants.
THEOREM RoleChangesSafe == Spec => RoleChangesAuthorized
<1>1. AllAuthorized =>
        \A r \in Requests : (Commit(r) /\ req[r].op = "update") =>
          /\ CanManage(req[r].actorNow, role[req[r].target])
          /\ CanManage(req[r].actorNow, req[r].newRole)
  BY DEF AllAuthorized, Authorized, Commit, UpdatePolicy
<1> QED
  BY <1>1, AuthorizedInvariant, PTL DEF RoleChangesAuthorized

\* Whoever becomes an owner was made one by an owner.
THEOREM OwnersSafe == Spec => OwnersAppointOwners
<1>1. Typed /\ AllAuthorized /\ [Next]_vars =>
        [\A u \in Users : (role[u] # "owner" /\ role'[u] = "owner") =>
           \E r \in Requests : pc[r] = "commit" /\ req[r].actorNow = "owner"]_vars
  <2> SUFFICES ASSUME Typed, AllAuthorized, Next, NEW u \in Users,
                      role[u] # "owner", role'[u] = "owner"
               PROVE  \E r \in Requests :
                        pc[r] = "commit" /\ req[r].actorNow = "owner"
    BY DEF vars
  <2>1. PICK r \in Requests : Commit(r)
    BY DEF Next, BeginManage, BeginLeave, Find, Membership, Count, Save,
           UpdateRow, DeleteRow, Rollback
  <2>2. req[r].target = u /\ Written(r) = "owner"
    BY <2>1 DEF Commit, Typed, TypeOK
  <2>3. req[r].op = "update" /\ req[r].newRole = "owner"
    BY <2>2, MembershipAssumption DEF Written
  <2>4. CanManage(req[r].actorNow, "owner")
    BY <2>1, <2>3 DEF AllAuthorized, Authorized, Commit, UpdatePolicy
  <2>5. req[r] \in Request /\ pc[r] = "commit"
    BY <2>1 DEF Commit, Typed, Carries
  <2>6. req[r].actorNow = "owner"
    BY <2>4, <2>5 DEF CanManage, ORG_INVITATION_PERMISSIONS, Request, Roles
  <2> QED
    BY <2>5, <2>6
<1> QED
  BY <1>1, AuthorizedInvariant, PTL DEF Spec, OwnersAppointOwners

-----------------------------------------------------------------------------
(* The last owner *)

\* Would the request take the ownership away from its target?
Demotes(r) == req[r].op # "update" \/ req[r].newRole # "owner"

\* A request whose target goes, and that may have been told it can.
Deciding(r) ==
  pc[r] \in {"membership", "count", "write", "lock", "commit"} /\ Demotes(r)

\* While a request decides, no owner goes by another; and nobody demotes an
\* actor who is about to look for the membership, and would no longer see it.
ChecksStand ==
  \A r, s \in Requests :
    (Commit(r) /\ Demotes(r) /\ Deciding(s) /\ r # s) =>
      /\ role[req[r].target] # "owner"
      /\ pc[s] = "membership" => req[r].target # req[s].actor

\* What a request has been told: that it sees its target, then that the target
\* is not the only owner.
Safe(r) ==
  /\ pc[r] = "membership" => /\ Demotes(r)
                             /\ \/ req[r].actor = req[r].target
                                \/ is_org_admin(req[r].actor)
  /\ (pc[r] \in {"write", "lock", "commit"} /\ Demotes(r)) =>
       \E o \in Owners : o # req[r].target

SafeInv == Owners # {} /\ \A r \in Requests : Safe(r)

\* More than one owner means one that is not the target.
LEMMA AnotherOwner ==
  ASSUME NEW S \in SUBSET Users, NEW t, EnoughOwners(Cardinality(S))
  PROVE  \E o \in S : o # t
<1> SUFFICES ASSUME \A o \in S : o = t PROVE FALSE
  OBVIOUS
<1>1. S = {} \/ S = {t}
  OBVIOUS
<1>2. Cardinality(S) \in {0, 1}
  BY <1>1, FS_EmptySet, FS_Singleton
<1> QED
  BY <1>2 DEF EnoughOwners

\* assertNotLastOwner is right about what it sees.
LEMMA Checks ==
  ASSUME Typed, SafeInv, NEW r \in Requests, Membership(r) \/ Count(r)
  PROVE  Safe(r)'
<1> USE DEF Typed, TypeOK, Carries, Goto, Steps
<1>1. /\ req[r] \in Request /\ Owners # {} /\ Safe(r) /\ pc[r] # "idle"
      /\ role' = role
  BY DEF SafeInv, Membership, Count
<1>2. ASSUME pc'[r] = "write", req' = req, \E o \in Owners : o # req[r].target
      PROVE  Safe(r)'
  BY <1>1, <1>2 DEF Safe, Demotes, Owners
<1>3. CASE Membership(r)
  <2>1. CASE Visible(r, req[r].target) /\ role[req[r].target] = "owner"
    BY <1>1, <1>3, <2>1 DEF Membership, Safe
  <2>2. CASE ~(Visible(r, req[r].target) /\ role[req[r].target] = "owner")
    <3>1. role[req[r].target] # "owner"
      BY <1>1, <1>3, <2>2, MembershipAssumption DEF Membership, Visible, Safe, Request
    <3>2. \E o \in Owners : o # req[r].target
      BY <1>1, <3>1 DEF Owners
    <3> QED
      BY <1>2, <1>3, <2>2, <3>2 DEF Membership
  <2> QED
    BY <2>1, <2>2
<1>4. CASE Count(r)
  <2>1. CASE End(r)
    BY <2>1 DEF End, Safe
  <2>2. CASE ~End(r)
    <3> DEFINE S == {u \in Owners : Visible(r, u)}
    <3>1. EnoughOwners(Cardinality(S))
      BY <1>4, <2>2 DEF Count
    <3>2. S \in SUBSET Users /\ S \subseteq Owners
      BY DEF Owners
    <3>3. \E o \in S : o # req[r].target
      BY <3>1, <3>2, AnotherOwner
    <3> QED
      BY <1>2, <1>4, <2>2, <3>2, <3>3 DEF Count
  <2> QED
    BY <2>1, <2>2
<1> QED
  BY <1>3, <1>4

\* A request that moves alone, and writes nothing yet, leaves the others as safe.
LEMMA OthersSafe ==
  ASSUME Typed, SafeInv, NEW r \in Requests, role' = role, Safe(r)',
         \A s \in Requests \ {r} : pc'[s] = pc[s] /\ req'[s] = req[s]
  PROVE  SafeInv'
<1>1. Owners' = Owners
  BY DEF Owners
<1>2. ASSUME NEW s \in Requests \ {r} PROVE Safe(s)'
  BY <1>1, <1>2 DEF SafeInv, Safe, Demotes, is_org_admin
<1> QED
  BY <1>1, <1>2 DEF SafeInv

\* What becomes of the others when a request commits.
LEMMA CommitSafe ==
  ASSUME Typed, SafeInv, ChecksStand, NEW r \in Requests, Commit(r)
  PROVE  SafeInv'
<1> USE DEF Typed, TypeOK, Carries, Goto, Steps
<1> DEFINE t == req[r].target
<1>1. /\ req[r] \in Request /\ Safe(r) /\ pc[r] = "commit" /\ Owners # {}
      /\ t \in Users /\ role'[t] = Written(r)
      /\ \A u \in Users \ {t} : role'[u] = role[u]
  BY DEF Commit, SafeInv, Request
<1>2. Safe(r)' /\ \A s \in Requests \ {r} : pc'[s] = pc[s] /\ req'[s] = req[s]
  BY DEF Commit, End, Safe
<1>3. ~Demotes(r) => role'[t] = "owner"
  BY <1>1 DEF Demotes, Written, Request
<1>4. Owners' # {}
  <2>1. CASE Demotes(r)
    BY <1>1, <2>1 DEF Safe, Owners
  <2>2. CASE ~Demotes(r)
    BY <1>1, <1>3, <2>2 DEF Owners
  <2> QED
    BY <2>1, <2>2
<1>5. ASSUME NEW s \in Requests \ {r} PROVE Safe(s)'
  <2>1. Safe(s) /\ (Demotes(s)' <=> Demotes(s))
    BY <1>2, <1>5 DEF SafeInv, Demotes
  <2>2. CASE Demotes(r) /\ Demotes(s)
    <3>1. Deciding(s) => /\ role[t] # "owner"
                         /\ pc[s] = "membership" => t # req[s].actor
      BY <1>5, <2>2 DEF ChecksStand
    <3>2. pc[s] = "membership" => Safe(s)'
      <4> SUFFICES ASSUME pc[s] = "membership" PROVE Safe(s)'
        OBVIOUS
      <4>1. req[s] \in Request /\ req[s].actor \in Users /\ req[s].actor # t
        BY <1>5, <2>2, <3>1 DEF Deciding, Request
      <4> QED
        BY <1>1, <1>2, <1>5, <2>1, <4>1 DEF Safe, is_org_admin
    <3>3. pc[s] \in {"write", "lock", "commit"} => Safe(s)'
      BY <1>1, <1>2, <1>5, <2>1, <2>2, <3>1 DEF Deciding, Safe, Owners
    <3> QED
      BY <1>2, <1>5, <3>2, <3>3 DEF Safe
  <2>3. CASE ~Demotes(r)
    <3>1. Owners \subseteq Owners'
      BY <1>1, <1>3, <2>3 DEF Owners
    <3>2. pc[s] = "membership" => Safe(s)'
      BY <1>1, <1>2, <1>3, <1>5, <2>1, <2>3 DEF Safe, is_org_admin, Request
    <3> QED
      BY <1>2, <1>5, <2>1, <3>1, <3>2 DEF Safe
  <2>4. CASE ~Demotes(s)
    <3>1. pc[s] # "membership"
      BY <1>5, <2>4 DEF SafeInv, Safe
    <3> QED
      BY <1>2, <1>5, <2>1, <2>4, <3>1 DEF Safe
  <2> QED
    BY <2>2, <2>3, <2>4
<1> QED
  BY <1>2, <1>4, <1>5 DEF SafeInv

LEMMA SafeNext ==
  ASSUME Typed, SafeInv, Next, ChecksStand
  PROVE  SafeInv'
<1> USE DEF Typed, TypeOK, Carries, Goto, Steps
<1>1. ASSUME NEW r \in Requests, Safe(r)', role' = role,
             \A s \in Requests \ {r} : pc'[s] = pc[s] /\ req'[s] = req[s]
      PROVE  SafeInv'
  BY <1>1, OthersSafe
<1>2. ASSUME NEW r \in Requests, End(r), role' = role PROVE SafeInv'
  BY <1>1, <1>2 DEF End, Safe
<1>3. ASSUME NEW r \in Requests, NEW op \in Operations, NEW a \in Users,
             NEW t \in Users, NEW new \in Roles, BeginManage(r, op, a, t, new)
      PROVE  SafeInv'
  BY <1>1, <1>3 DEF BeginManage, Safe
<1>4. ASSUME NEW r \in Requests, NEW a \in Users, BeginLeave(r, a)
      PROVE  SafeInv'
  BY <1>1, <1>4 DEF BeginLeave, Safe, Demotes
<1>5. ASSUME NEW r \in Requests, Find(r) PROVE SafeInv'
  <2>1. CASE End(r)
    BY <1>2, <1>5, <2>1 DEF Find
  <2>2. CASE ~End(r)
    <3>1. Visible(r, req[r].target) /\ req' = req /\ role' = role
      BY <1>5, <2>2 DEF Find
    <3>2. pc'[r] = "write" => ~Demotes(r)
      BY <1>5, <2>2 DEF Find, Demotes
    <3>3. Safe(r)'
      BY <1>5, <2>2, <3>1, <3>2 DEF Find, Safe, Visible, Demotes, is_org_admin
    <3> QED
      BY <1>1, <1>5, <2>2, <3>1, <3>3 DEF Find
  <2> QED
    BY <2>1, <2>2
<1>6. ASSUME NEW r \in Requests, Membership(r) \/ Count(r) PROVE SafeInv'
  BY <1>1, <1>6, Checks DEF Membership, Count, End
<1>7. ASSUME NEW r \in Requests, Save(r) \/ UpdateRow(r) \/ DeleteRow(r)
      PROVE  SafeInv'
  <2>1. CASE End(r)
    BY <1>2, <1>7, <2>1 DEF Save, UpdateRow, DeleteRow
  <2>2. CASE ~End(r)
    <3>1. /\ pc[r] \in {"write", "lock"} /\ pc'[r] \in {"lock", "commit"}
          /\ role' = role /\ Safe(r) /\ Owners' = Owners
          /\ req'[r].op = req[r].op /\ req'[r].newRole = req[r].newRole
          /\ req'[r].target = req[r].target
      BY <1>7, <2>2 DEF Save, UpdateRow, DeleteRow, SafeInv, Owners, Request
    <3>2. Safe(r)'
      BY <3>1 DEF Safe, Demotes
    <3> QED
      BY <1>1, <1>7, <2>2, <3>1, <3>2 DEF Save, UpdateRow, DeleteRow
  <2> QED
    BY <2>1, <2>2
<1>8. ASSUME NEW r \in Requests, Commit(r) PROVE SafeInv'
  BY <1>8, CommitSafe
<1>9. ASSUME NEW r \in Requests, Rollback(r) PROVE SafeInv'
  BY <1>2, <1>9 DEF Rollback
<1> QED
  BY <1>3, <1>4, <1>5, <1>6, <1>7, <1>8, <1>9 DEF Next

\* An organization keeps an owner, as userOrganizationRole.service.ts:68 promises,
\* for every number of users and of concurrent requests, unless another owner goes
\* while a request decides, or the actor of one is demoted before assertNotLastOwner
\* looks for the membership: these two overlaps are all there is behind the
\* violation that the run shows.
THEOREM OwnersRemain == Spec /\ [][ChecksStand]_vars => []AtLeastOneOwner
<1>1. Init => SafeInv
  BY DEF Init, SafeInv, Safe
<1>2. Typed /\ SafeInv /\ [Next]_vars /\ [ChecksStand]_vars => SafeInv'
  <2>1. CASE UNCHANGED vars
    BY <2>1 DEF vars, SafeInv, Safe, Demotes, Owners, is_org_admin
  <2>2. ASSUME Typed, SafeInv, Next, ChecksStand PROVE SafeInv'
    BY <2>2, SafeNext
  <2> QED
    BY <2>1, <2>2
<1>3. SafeInv => AtLeastOneOwner
  BY DEF SafeInv, AtLeastOneOwner
<1> QED
  BY <1>1, <1>2, <1>3, AuthorizedInvariant, PTL DEF Spec

\* So it does, in particular, as long as requests do not overlap at all.
COROLLARY SerialOwner ==
  ASSUME \A r, s \in Requests : r = s
  PROVE  Spec => []AtLeastOneOwner
<1>1. ChecksStand
  BY DEF ChecksStand
<1> QED
  BY <1>1, OwnersRemain, PTL

=============================================================================
