-------------------------- MODULE OrganizationPage --------------------------
(***************************************************************************)
(* The pages on which the members of an organization, its invites, its     *)
(* name and its billing are managed.                                       *)
(*                                                                         *)
(* What the pages offer is decided by orgRole in localStorage, which a     *)
(* login writes and the answer to a change of one's own role rewrites.     *)
(* What they show was read some time ago.  The server decides anew about   *)
(* every request.                                                          *)
(*                                                                         *)
(* One tab, in which members of one organization sign in one after the     *)
(* other, by cookie: a request is the one of who was signed in when it was *)
(* sent.  The organization has a plan, and pages are opened from the menu. *)
(* How the server's own steps interleave is the subject of Membership and  *)
(* Registration.                                                           *)
(***************************************************************************)
EXTENDS Naturals, FiniteSets, OrganizationRoles

CONSTANTS
  Members,
  Invites,    \* addresses that may have a pending invite
  New,        \* whoever has just founded an organization of their own
  MaxWrites,  \* bound on the writes of the tab that may be under way
  MaxChanges, \* bound on what others do to members and invites
  Patient,    \* see Waits
  Null        \* not among the values it stands beside

VARIABLES
  roles,    \* table user_org_role
  pending,  \* table invites: the role in a pending invite, or "warehouse"
  user,     \* who is signed in
  stored,   \* localStorage: userId and username, orgRole
  page,     \* the page that is open
  menu,     \* the role the menu was drawn for
  rows,     \* the members it lists, with their roles
  list,     \* the invites it lists
  details,  \* has it the organization, or the billing details?
  calls,    \* its requests under way
  changes,  \* the number of changes others have made
  missed    \* history: what may have changed since the tab last heard of it

opVars == <<roles, pending, user, stored, page, menu, rows, list, details, calls,
            changes, missed>>

server == <<roles, pending>>

shown == <<page, menu, rows, list, details>>

Role == Roles \cup {Null}

InviteRole == Role \cup {"warehouse"}

NoRows == [m \in Members |-> Null]

NoInvites == [i \in Invites |-> Null]

ReadKinds == {"users", "invites", "organization", "billing"}

RoleKinds == {"change", "remove", "delete"}

InviteKinds == {"invite", "resend", "revoke"}

\* rows, list: what an answered read brings.
Call == [kind: ReadKinds \cup RoleKinds \cup InviteKinds \cup {"rename", "portal"},
         by: Members, of: Members \cup Invites \cup {Null}, role: Role,
         rows: [Members -> Role], list: [Invites -> InviteRole],
         answered: BOOLEAN, mounted: BOOLEAN]

Permissions(r) == IF r = Null THEN {} ELSE ORG_INVITATION_PERMISSIONS[r]

OPInit ==
  /\ roles \in [Members -> Role] /\ \E m \in Members : roles[m] = "owner"
  /\ pending \in [Invites -> InviteRole]
  /\ user = Null
  /\ stored = [user |-> Null, role |-> Null]
  /\ page = "none" /\ menu = Null
  /\ rows = NoRows /\ list = NoInvites /\ details = FALSE
  /\ calls = {} /\ changes = 0 /\ missed = {}

(***************************************************************************)
(* Requests and pages                                                      *)
(***************************************************************************)
NewCall(kind, m, x, r) ==
  [kind |-> kind, by |-> m, of |-> x, role |-> r, rows |-> NoRows,
   list |-> NoInvites, answered |-> FALSE, mounted |-> TRUE]

Read(kind, m) == NewCall(kind, m, Null, Null)

Of(kinds) == {q \in calls : q.kind \in kinds}

Writes == calls \ Of(ReadKinds)

\* A patient user lets a change of roles finish before doing anything else about
\* the members, and lets every write finish before opening another page.
Waits(kinds) == Patient => Of(kinds) = {}

\* Mutant: controller.abort() is missing.
BugSuperseded(q) == FALSE

\* controller.abort(), when an effect runs again or its page closes.
Superseded(q) == q.kind \in ReadKinds

\* What is left of requests when the page closes.
Detached(requests) ==
  {[q EXCEPT !.mounted = FALSE] : q \in {c \in requests : ~Superseded(c)}}

\* The effect of the members page: getUsers.
ListMembers(s, m, others, before) ==
  IF s.role \in {"owner", "admin"}
  THEN calls' = others \cup {Read("users", m)} /\ rows' = before
  ELSE calls' = others /\ rows' = IF s.role = "member"
                                  THEN [NoRows EXCEPT ![s.user] = "member"] ELSE NoRows

PageRead == [invites |-> "invites", settings |-> "organization", billing |-> "billing"]

\* The page p opens for m, who has s in localStorage; the menu is drawn anew.
Opens(p, m, s) ==
  /\ page' = p /\ menu' = s.role /\ list' = NoInvites /\ details' = FALSE
  /\ IF p = "members"
     THEN ListMembers(s, m, Detached(calls), NoRows)
     ELSE calls' = Detached(calls) \cup {Read(PageRead[p], m)} /\ rows' = NoRows

MENU_ITEMS ==
  [r \in Role |-> CASE r \in {"owner", "admin"} -> {"members", "invites", "billing", "settings"}
                    [] r = "member"             -> {"members"}
                    [] OTHER                    -> {}]

(***************************************************************************)
(* Signing in and out                                                      *)
(***************************************************************************)
\* The answer to POST /login is stored, and /organizations opens.
Login(m) ==
  /\ user = Null /\ roles[m] # Null
  /\ Waits(RoleKinds)
  /\ user' = m
  /\ stored' = [user |-> m, role |-> roles[m]]
  /\ Opens("members", m, stored')
  /\ missed' = missed \ {"role"}
  /\ UNCHANGED <<server, changes>>

\* A new organization signs its owner in and stores nothing.  What they do then
\* concerns another organization.
CreateOrganization ==
  /\ user = Null
  /\ user' = New
  /\ UNCHANGED <<server, stored, shown, calls, changes, missed>>

\* clearUserSession leaves orgRole where it is.
logout(requests) ==
  /\ user' = Null
  /\ stored' = [stored EXCEPT !.user = Null]
  /\ page' = "none" /\ menu' = Null
  /\ rows' = NoRows /\ list' = NoInvites /\ details' = FALSE
  /\ calls' = Detached(requests)

LogOut ==
  /\ user # Null
  /\ logout(calls)
  /\ UNCHANGED <<server, changes, missed>>

\* A link of the menu.
Open(p) ==
  /\ user \in Members /\ p \in MENU_ITEMS[menu] \ {page}
  /\ Patient => Writes = {}
  /\ Opens(p, user, stored)
  /\ UNCHANGED <<server, user, stored, changes, missed>>

(***************************************************************************)
(* What the pages offer                                                    *)
(***************************************************************************)
\* The search term has changed.
Search ==
  /\ page = "members" /\ Waits(RoleKinds)
  /\ ListMembers(stored, user, {q \in calls : ~Superseded(q)}, rows)
  /\ UNCHANGED <<server, user, stored, page, menu, list, details, changes, missed>>

Manageable == Permissions(stored.role)

Send(q) ==
  /\ Cardinality(Writes) < MaxWrites
  /\ calls' = calls \cup {q}
  /\ UNCHANGED <<server, user, stored, shown, changes, missed>>

changeUserRole(m, r) ==
  /\ page = "members" /\ Waits(RoleKinds \cup {"users"})
  /\ rows[m] \in Manageable /\ r \in Manageable \ {rows[m]}
  /\ Send(NewCall("change", user, m, r))

confirmRemove(m) ==
  /\ page = "members" /\ Waits(RoleKinds \cup {"users"})
  /\ rows[m] \in Manageable
  /\ Send(NewCall("remove", user, m, Null))

createOrganizationInvite(i, r) ==
  /\ page = "invites" /\ r \in Manageable
  /\ \A q \in Of({"invite"}) : ~q.mounted
  /\ Send(NewCall("invite", user, i, r))

canManage(i) == list[i] = "warehouse" \/ list[i] \in Manageable

ManageInvite(kind, i) ==
  /\ page = "invites" /\ canManage(i)
  /\ Send(NewCall(kind, user, i, Null))

\* Renaming it, or deleting it under its name.
ManageOrganization(kind) ==
  /\ page = "settings" /\ details
  /\ kind = "delete" => stored.role = "owner"
  /\ \A q \in Of({kind}) : ~q.mounted
  /\ Send(NewCall(kind, user, Null, Null))

openPortal ==
  /\ page = "billing" /\ details /\ stored.role = "owner"
  /\ \A q \in Of({"portal"}) : ~q.mounted
  /\ Send(NewCall("portal", user, Null, Null))

(***************************************************************************)
(* The server                                                              *)
(***************************************************************************)
NotLastOwner(m) ==
  roles[m] = "owner" => \E o \in Members \ {m} : roles[o] = "owner"

\* OrganizationRolesGuard.
RolesFor(kind) ==
  CASE kind = "organization"         -> Roles
    [] kind \in {"delete", "portal"} -> {"owner"}
    [] OTHER                         -> {"owner", "admin"}

\* assertCanManage, assertNotLastOwner, findManageableInvite, assertCanGrantOrgRole.
Granted(q) ==
  LET may == Permissions(roles[q.by]) IN
  CASE q.kind = "change" -> /\ roles[q.of] \in may /\ q.role \in may
                            /\ q.role # "owner" => NotLastOwner(q.of)
    [] q.kind = "remove" -> roles[q.of] \in may /\ NotLastOwner(q.of)
    [] q.kind = "invite" -> q.role \in may
    [] q.kind \in {"resend", "revoke"} -> pending[q.of] \in may \cup {"warehouse"}
    [] OTHER -> TRUE

\* What the tab may not hear of: a request of a page that has been closed since.
Unheard(q) ==
  IF q.mounted THEN {}
  ELSE IF q.kind \in InviteKinds THEN {"invites"}
  ELSE IF q.kind = "remove" /\ q.of = user THEN {"users", "role"}
  ELSE IF q.kind \in RoleKinds THEN {"users"} ELSE {}

\* What a read brings up to date.
Heard(q) == {q.kind} \cap {"users", "invites"}

Handle(q) ==
  /\ q \in calls /\ ~q.answered
  /\ roles[q.by] \in RolesFor(q.kind) /\ Granted(q)
  /\ roles' = CASE q.kind = "change" -> [roles EXCEPT ![q.of] = q.role]
                [] q.kind = "remove" -> [roles EXCEPT ![q.of] = Null]
                [] q.kind = "delete" -> NoRows
                [] OTHER             -> roles
  /\ pending' = CASE q.kind = "invite" -> [pending EXCEPT ![q.of] = q.role]
                  [] q.kind = "revoke" -> [pending EXCEPT ![q.of] = Null]
                  [] q.kind = "delete" -> NoInvites
                  [] OTHER             -> pending
  /\ calls' = (calls \ {q}) \cup
       {[q EXCEPT !.answered = TRUE,
                  !.rows = IF q.kind = "users" THEN roles ELSE @,
                  !.list = IF q.kind = "invites" THEN pending ELSE @]}
  /\ missed' = (missed \cup Unheard(q)) \ Heard(q)
  /\ UNCHANGED <<user, stored, shown, changes>>

Topics(q) ==
  IF q.kind \in RoleKinds THEN {"role", "users"}
  ELSE IF q.kind \in InviteKinds THEN {"invites"} ELSE Heard(q)

\* A guard refuses, something fails, or the request or its answer is lost.  Invites
\* that cannot be read are shown as none.
Fail(q) ==
  /\ q \in calls
  /\ calls' = calls \ {q}
  /\ list' = IF q.kind = "invites" THEN NoInvites ELSE list
  /\ missed' = IF q.answered \/ q.kind \in ReadKinds THEN missed \cup Topics(q) ELSE missed
  /\ UNCHANGED <<server, user, stored, page, menu, rows, details, changes>>

\* Another member of the organization is at work, in another browser.
RoleChanged(m, r) ==
  /\ changes < MaxChanges /\ r # roles[m]
  /\ r # "owner" => NotLastOwner(m)
  /\ changes' = changes + 1
  /\ roles' = [roles EXCEPT ![m] = r]
  /\ missed' = missed \cup {"users"} \cup (IF m = user THEN {"role"} ELSE {})
  /\ UNCHANGED <<pending, user, stored, shown, calls>>

\* So is whoever accepts an invite.
InviteChanged(i, r) ==
  /\ changes < MaxChanges /\ r # pending[i]
  /\ changes' = changes + 1
  /\ pending' = [pending EXCEPT ![i] = r]
  /\ missed' = missed \cup {"invites"}
  /\ UNCHANGED <<roles, user, stored, shown, calls>>

(***************************************************************************)
(* Answers                                                                 *)
(***************************************************************************)
Answer(q, kinds) == q \in calls /\ q.answered /\ q.kind \in kinds

UsersLoaded(q) ==
  /\ Answer(q, {"users"})
  /\ rows' = q.rows
  /\ calls' = calls \ {q}
  /\ UNCHANGED <<server, user, stored, page, menu, list, details, changes, missed>>

InvitesLoaded(q) ==
  /\ Answer(q, {"invites"})
  /\ list' = q.list
  /\ calls' = calls \ {q}
  /\ UNCHANGED <<server, user, stored, page, menu, rows, details, changes, missed>>

DetailsLoaded(q) ==
  /\ Answer(q, {"organization", "billing"})
  /\ details' = TRUE
  /\ calls' = calls \ {q}
  /\ UNCHANGED <<server, user, stored, page, menu, rows, list, changes, missed>>

\* Mutant: without the comparison of user names.
BugIsOwn(q) == TRUE

\* The username in localStorage, when the answer arrives.
IsOwn(q) == q.of = stored.user

ChangeEnds(q) ==
  /\ Answer(q, {"change"})
  /\ stored' = IF IsOwn(q) THEN [stored EXCEPT !.role = q.role] ELSE stored
  /\ rows' = IF q.mounted /\ rows[q.of] # Null THEN [rows EXCEPT ![q.of] = q.role] ELSE rows
  /\ calls' = calls \ {q}
  /\ UNCHANGED <<server, user, page, menu, list, details, changes, missed>>

\* Whoever has removed themselves, or the organization, is logged out.
RemovalEnds(q) ==
  /\ Answer(q, {"remove", "delete"})
  /\ IF q.kind = "delete" \/ q.of = q.by
     THEN logout(calls \ {q})
     ELSE /\ rows' = IF q.mounted THEN [rows EXCEPT ![q.of] = Null] ELSE rows
          /\ calls' = calls \ {q}
          /\ UNCHANGED <<user, stored, page, menu, list, details>>
  /\ UNCHANGED <<server, changes, missed>>

\* reloadInvites
InviteEnds(q) ==
  /\ Answer(q, InviteKinds)
  /\ calls' = IF q.mounted
              THEN {c \in calls \ {q} : ~Superseded(c)} \cup {Read("invites", user)}
              ELSE calls \ {q}
  /\ UNCHANGED <<server, user, stored, shown, changes, missed>>

RenameEnds(q) ==
  /\ Answer(q, {"rename"})
  /\ calls' = calls \ {q}
  /\ UNCHANGED <<server, user, stored, shown, changes, missed>>

\* The tab goes to Stripe, and comes back to the billing page.
PortalOpens(q) ==
  /\ Answer(q, {"portal"})
  /\ IF user \in Members
     THEN /\ page' = "billing" /\ menu' = stored.role
          /\ rows' = NoRows /\ list' = NoInvites /\ details' = FALSE
          /\ calls' = {Read("billing", user)}
     ELSE calls' = {} /\ UNCHANGED shown
  /\ missed' = missed \cup UNION {Topics(c) : c \in Writes}
  /\ UNCHANGED <<server, user, stored, changes>>

OPNext ==
  \/ \E m \in Members : Login(m)
  \/ CreateOrganization \/ LogOut
  \/ \E p \in {"members", "invites", "billing", "settings"} : Open(p)
  \/ Search
  \/ \E m \in Members, r \in Roles : changeUserRole(m, r)
  \/ \E m \in Members : confirmRemove(m)
  \/ \E i \in Invites, r \in Roles : createOrganizationInvite(i, r)
  \/ \E i \in Invites, kind \in {"resend", "revoke"} : ManageInvite(kind, i)
  \/ \E kind \in {"rename", "delete"} : ManageOrganization(kind)
  \/ openPortal
  \/ \E m \in Members, r \in Role : RoleChanged(m, r)
  \/ \E i \in Invites, r \in InviteRole : InviteChanged(i, r)
  \/ \E q \in calls : Handle(q) \/ Fail(q)
  \/ \E q \in calls : UsersLoaded(q) \/ InvitesLoaded(q) \/ DetailsLoaded(q)
                        \/ ChangeEnds(q) \/ RemovalEnds(q) \/ InviteEnds(q)
                        \/ RenameEnds(q) \/ PortalOpens(q)

OPSpec == OPInit /\ [][OPNext]_opVars

(***************************************************************************)
(* Properties                                                              *)
(***************************************************************************)
\* The variables have their types, and a page reads one thing at a time.
PagesTypeOK ==
  /\ roles \in [Members -> Role]
  /\ pending \in [Invites -> InviteRole]
  /\ user \in Members \cup {New, Null}
  /\ stored \in [user: Members \cup {Null}, role: Role]
  /\ page \in {"none", "members", "invites", "settings", "billing"}
  /\ menu \in Role
  /\ rows \in [Members -> Role]
  /\ list \in [Invites -> InviteRole]
  /\ details \in BOOLEAN
  /\ calls \subseteq Call
  /\ Cardinality(Of(ReadKinds)) <= 1
  /\ changes \in 0..MaxChanges
  /\ missed \subseteq {"users", "invites", "role"}

\* The role in localStorage, from which the pages decide what to offer, is the one
\* that the member who is signed in has: whoever was signed in before, whichever
\* answers came late; unless somebody else changed it or an answer was lost.
OwnRoleIsCurrent ==
  user \in Members /\ "role" \notin missed /\ Of(RoleKinds) = {} =>
    stored.role = roles[user]

\* What a page lists is what the server has, once nothing is under way: however
\* writes, reloads, searches and logins overlapped; unless somebody else changed it
\* since it was read, or an answer was lost.
PageIsCurrent ==
  /\ (/\ page = "members" /\ missed \cap {"users", "role"} = {}
      /\ Of(RoleKinds \cup {"users"}) = {}) =>
       \A m \in Members : rows[m] \in {Null, roles[m]}
  /\ (/\ page = "invites" /\ "invites" \notin missed
      /\ Of(InviteKinds \cup {"invites", "delete"}) = {}) =>
       list = pending

=============================================================================
