----------------------- MODULE OrganizationPageProofs -----------------------
(***************************************************************************)
(* What holds of the pages of an organization, for any members, invites    *)
(* and changes by others: their types, that the role in localStorage is    *)
(* the one the server has, and that a page lists what the server has.      *)
(***************************************************************************)
EXTENDS OrganizationPage, FiniteSetTheorems, TLAPS

\* Who founds an organization of their own, and nobody, are not among the members.
Apart == Null \notin Members /\ New \notin Members

-----------------------------------------------------------------------------
(* Types *)

\* The page that a request was sent from.
PageOf ==
  [k \in ReadKinds \cup RoleKinds \cup InviteKinds \cup {"rename", "portal"} |->
     CASE k \in {"users", "change", "remove"}         -> "members"
       [] k = "invites" \/ k \in InviteKinds          -> "invites"
       [] k \in {"organization", "rename", "delete"}  -> "settings"
       [] OTHER                                       -> "billing"]

\* The page that is open sent the requests that are not detached, for whoever is
\* signed in.
OfPage(q) == q.mounted => q.by = user /\ page = PageOf[q.kind]

CallsOK ==
  /\ calls \subseteq Call
  /\ \A p, q \in calls : p.kind \in ReadKinds /\ q.kind \in ReadKinds => p = q
  /\ \A q \in calls : OfPage(q) /\ (q.kind \in ReadKinds => q.mounted)

StateOK ==
  /\ roles \in [Members -> Role]
  /\ pending \in [Invites -> InviteRole]
  /\ user \in Members \cup {New, Null}
  /\ stored \in [user: Members \cup {Null}, role: Role]
  /\ page \in {"none", "members", "invites", "settings", "billing"}
  /\ menu \in Role
  /\ rows \in [Members -> Role]
  /\ list \in [Invites -> InviteRole]
  /\ details \in BOOLEAN
  /\ changes \in 0..MaxChanges
  /\ missed \subseteq {"users", "invites", "role"}
  /\ user \in Members => page # "none" /\ stored.user = user
  /\ page # "none" => user \in Members

Typed == StateOK /\ CallsOK

AllKinds == ReadKinds \cup RoleKinds \cup InviteKinds \cup {"rename", "portal"}

LEMMA NewCallOK ==
  ASSUME NEW kind \in AllKinds, NEW m \in Members,
         NEW x \in Members \cup Invites \cup {Null}, NEW r \in Role
  PROVE  LET q == NewCall(kind, m, x, r) IN
         /\ q \in Call /\ q.kind = kind /\ q.by = m /\ q.of = x /\ q.role = r
         /\ q.mounted /\ ~q.answered
BY DEF NewCall, Call, AllKinds, NoRows, NoInvites, Role, InviteRole

LEMMA ReadOK ==
  ASSUME NEW kind \in ReadKinds, NEW m \in Members
  PROVE  LET q == Read(kind, m) IN
         q \in Call /\ q.kind = kind /\ q.by = m /\ q.mounted /\ ~q.answered
BY NewCallOK DEF Read, AllKinds, Role

\* What is detached is a write, and goes on.
LEMMA DetachedOK ==
  ASSUME CallsOK, NEW requests \in SUBSET calls, NEW q \in Detached(requests)
  PROVE  /\ q \in Call /\ q.kind \notin ReadKinds /\ ~q.mounted
         /\ \E c \in requests : q = [c EXCEPT !.mounted = FALSE] /\ q.kind = c.kind
<1>1. PICK c \in requests : q = [c EXCEPT !.mounted = FALSE] /\ c.kind \notin ReadKinds
  BY DEF Detached, Superseded
<1>2. c \in Call
  BY DEF CallsOK
<1> QED
  BY <1>1, <1>2 DEF Call

\* Requests of a closed page are all that is left.
LEMMA CallsDetached ==
  ASSUME CallsOK, calls' \subseteq Detached(calls)
  PROVE  CallsOK'
<1>1. \A q \in calls' : q \in Call /\ q.kind \notin ReadKinds /\ ~q.mounted
  BY DetachedOK
<1> QED
  BY <1>1 DEF CallsOK, OfPage

\* Nothing is sent.
LEMMA CallsFewer ==
  ASSUME CallsOK, calls' \subseteq calls, UNCHANGED <<user, page>>
  PROVE  CallsOK'
BY DEF CallsOK, OfPage

\* A read of the page joins, or replaces the one before.
LEMMA CallsRead ==
  ASSUME NEW others, NEW k \in ReadKinds, NEW u \in Members, user' = u, PageOf[k] = page',
         \A q \in others : q \in Call /\ q.kind \notin ReadKinds /\ OfPage(q)',
         calls' \subseteq others \cup {Read(k, u)}
  PROVE  CallsOK'
<1> DEFINE new == Read(k, u)
<1>1. new \in Call /\ new.kind = k /\ new.by = u /\ new.mounted
  BY ReadOK
<1>2. \A q \in calls' : q = new \/ q \in others
  OBVIOUS
<1> HIDE DEF new
<1>3. OfPage(new)'
  BY <1>1 DEF OfPage
<1>4. ASSUME NEW p \in calls', NEW q \in calls', p.kind \in ReadKinds, q.kind \in ReadKinds
      PROVE  p = q
  BY <1>2, <1>4
<1>5. \A q \in calls' : q \in Call /\ OfPage(q)' /\ (q.kind \in ReadKinds => q.mounted)
  BY <1>1, <1>2, <1>3
<1> QED
  BY <1>4, <1>5 DEF CallsOK

\* One request moves on.
LEMMA CallsMove ==
  ASSUME CallsOK, NEW q \in calls, NEW m \in Call,
         m.kind = q.kind, m.by = q.by, m.mounted <=> q.mounted,
         calls' = (calls \ {q}) \cup {m}, UNCHANGED <<user, page>>
  PROVE  CallsOK'
<1>1. \A p \in calls' : p = m \/ (p \in calls /\ p # q)
  OBVIOUS
<1>2. OfPage(m)' /\ (m.kind \in ReadKinds => m.mounted)
  BY DEF CallsOK, OfPage
<1>3. \A p \in calls' : p \in Call /\ OfPage(p)' /\ (p.kind \in ReadKinds => p.mounted)
  BY <1>1, <1>2 DEF CallsOK, OfPage
<1>4. ASSUME NEW p \in calls', NEW r \in calls', p.kind \in ReadKinds, r.kind \in ReadKinds
      PROVE  p = r
  BY <1>1, <1>4 DEF CallsOK
<1> QED
  BY <1>3, <1>4 DEF CallsOK

\* A write is sent from the page that is open.
LEMMA CallsSend ==
  ASSUME Typed, NEW q \in Call, q.kind \notin ReadKinds, q.by = user,
         page = PageOf[q.kind], Send(q)
  PROVE  CallsOK'
<1>1. calls' = calls \cup {q} /\ UNCHANGED <<user, page>>
  BY DEF Send, shown
<1>2. \A p \in calls' : p \in Call /\ OfPage(p)' /\ (p.kind \in ReadKinds => p.mounted)
  BY <1>1 DEF Typed, CallsOK, OfPage
<1>3. ASSUME NEW p \in calls', NEW r \in calls', p.kind \in ReadKinds, r.kind \in ReadKinds
      PROVE  p = r
  BY <1>1, <1>3 DEF Typed, CallsOK
<1> QED
  BY <1>2, <1>3 DEF CallsOK

LEMMA RowsOfRole ==
  ASSUME NEW m
  PROVE  NoRows \in [Members -> Role] /\ [NoRows EXCEPT ![m] = "member"] \in [Members -> Role]
BY DEF NoRows, Role, Roles

\* A page opens.
LEMMA OpensOK ==
  ASSUME Typed, NEW p \in {"members", "invites", "settings", "billing"},
         NEW u \in Members, user' = u, NEW s \in [user: Members \cup {Null}, role: Role],
         Opens(p, u, s)
  PROVE  /\ CallsOK'
         /\ page' = p /\ menu' \in Role /\ details' \in BOOLEAN
         /\ rows' \in [Members -> Role] /\ list' \in [Invites -> InviteRole]
<1>1. /\ page' = p /\ menu' = s.role /\ list' = NoInvites /\ details' = FALSE
  BY DEF Opens
<1>2. rows' \in [Members -> Role]
  BY RowsOfRole DEF Opens, ListMembers
<1>3. PICK k \in ReadKinds : PageOf[k] = p /\ calls' \subseteq Detached(calls) \cup {Read(k, u)}
  <2>1. CASE p = "members"
    <3>1. "users" \in ReadKinds /\ PageOf["users"] = "members"
      BY DEF ReadKinds, PageOf, RoleKinds, InviteKinds
    <3> QED
      BY <2>1, <3>1 DEF Opens, ListMembers
  <2>2. CASE p # "members"
    <3>1. PageRead[p] \in ReadKinds /\ PageOf[PageRead[p]] = p
      BY <2>2 DEF PageRead, ReadKinds, PageOf, RoleKinds, InviteKinds
    <3> QED
      BY <2>2, <3>1 DEF Opens
  <2> QED
    BY <2>1, <2>2
<1>4. \A q \in Detached(calls) : q \in Call /\ q.kind \notin ReadKinds /\ OfPage(q)'
  BY DetachedOK DEF Typed, OfPage
<1>5. CallsOK'
  BY <1>1, <1>3, <1>4, CallsRead
<1> QED
  BY <1>1, <1>2, <1>5 DEF NoInvites, InviteRole, Role

LEMMA LogoutOK ==
  ASSUME Apart, Typed, NEW requests \in SUBSET calls, logout(requests)
  PROVE  /\ CallsOK' /\ user' = Null /\ page' = "none" /\ menu' \in Role
         /\ details' \in BOOLEAN /\ rows' \in [Members -> Role]
         /\ list' \in [Invites -> InviteRole]
         /\ stored' \in [user: Members \cup {Null}, role: Role] /\ stored'.role = stored.role
<1>1. Detached(requests) \subseteq Detached(calls)
  BY DEF Detached
<1>2. CallsOK'
  BY <1>1, CallsDetached DEF logout, Typed
<1>3. stored' \in [user: Members \cup {Null}, role: Role] /\ stored'.role = stored.role
  BY DEF logout, Typed, StateOK
<1> QED
  BY <1>2, <1>3 DEF logout, NoRows, NoInvites, Role, InviteRole

LEMMA TypedInit ==
  ASSUME Apart, MaxChanges \in Nat, OPInit
  PROVE  Typed
<1>1. stored \in [user: Members \cup {Null}, role: Role] /\ menu \in Role
  BY DEF OPInit, Role
<1>2. rows \in [Members -> Role] /\ list \in [Invites -> InviteRole]
  BY DEF OPInit, NoRows, NoInvites, Role, InviteRole
<1>3. changes = 0
  BY DEF OPInit
<1>4. changes \in 0..MaxChanges
  BY <1>3
<1> QED
  BY <1>1, <1>2, <1>4 DEF OPInit, Typed, StateOK, CallsOK, Apart

\* Signing in and out, and opening pages.
LEMMA TypedUser ==
  ASSUME Apart, Typed,
         \/ \E m \in Members : Login(m)
         \/ CreateOrganization \/ LogOut
         \/ \E p \in {"members", "invites", "billing", "settings"} : Open(p)
         \/ Search
  PROVE  Typed'
<1>1. ASSUME NEW m \in Members, Login(m) PROVE Typed'
  <2>1. stored' \in [user: Members \cup {Null}, role: Role] /\ stored'.user = m
    BY <1>1 DEF Login, Typed, StateOK
  <2>2. user' = m /\ Opens("members", m, stored')
    BY <1>1 DEF Login
  <2> DEFINE s == [user |-> m, role |-> roles[m]]
  <2>3. stored' = s /\ s \in [user: Members \cup {Null}, role: Role]
    BY <1>1, <2>1 DEF Login
  <2> HIDE DEF s
  <2>4. /\ CallsOK' /\ page' = "members" /\ menu' \in Role /\ details' \in BOOLEAN
        /\ rows' \in [Members -> Role] /\ list' \in [Invites -> InviteRole]
    BY <2>2, <2>3, OpensOK
  <2> QED
    BY <1>1, <2>1, <2>2, <2>4 DEF Login, Typed, StateOK, server
<1>2. CASE CreateOrganization
  <2>1. UNCHANGED <<roles, pending, stored, page, menu, rows, list, details, calls, changes, missed>>
    BY <1>2 DEF CreateOrganization, server, shown
  <2>2. user = Null /\ user' = New /\ page = "none"
    BY <1>2 DEF CreateOrganization, Typed, StateOK, Apart
  <2>3. ASSUME NEW q \in calls PROVE OfPage(q)'
    <3>1. q.kind \in ReadKinds \cup RoleKinds \cup InviteKinds \cup {"rename", "portal"}
      BY DEF Typed, CallsOK, Call
    <3>2. PageOf[q.kind] # "none"
      BY <3>1 DEF PageOf
    <3>3. ~q.mounted
      BY <2>2, <3>2 DEF Typed, CallsOK, OfPage
    <3> QED
      BY <3>3 DEF OfPage
  <2> QED
    BY <2>1, <2>2, <2>3 DEF Typed, StateOK, CallsOK, Apart
<1>3. CASE LogOut
  <2>1. logout(calls)
    BY <1>3 DEF LogOut
  <2>2. /\ CallsOK' /\ user' = Null /\ page' = "none" /\ menu' \in Role
        /\ details' \in BOOLEAN /\ rows' \in [Members -> Role]
        /\ list' \in [Invites -> InviteRole]
        /\ stored' \in [user: Members \cup {Null}, role: Role]
    BY <2>1, LogoutOK
  <2> QED
    BY <1>3, <2>2 DEF LogOut, Typed, StateOK, server, Apart
<1>4. ASSUME NEW p \in {"members", "invites", "billing", "settings"}, Open(p) PROVE Typed'
  <2>1. user \in Members /\ user' = user /\ Opens(p, user, stored)
    BY <1>4 DEF Open
  <2>2. stored \in [user: Members \cup {Null}, role: Role]
    BY DEF Typed, StateOK
  <2>3. /\ CallsOK' /\ page' = p /\ menu' \in Role /\ details' \in BOOLEAN
        /\ rows' \in [Members -> Role] /\ list' \in [Invites -> InviteRole]
    BY <2>1, <2>2, OpensOK
  <2> QED
    BY <1>4, <2>1, <2>3 DEF Open, Typed, StateOK, server
<1>5. CASE Search
  <2> DEFINE others == {q \in calls : ~Superseded(q)}
  <2>1. /\ page = "members" /\ ListMembers(stored, user, others, rows)
        /\ UNCHANGED <<roles, pending, user, stored, page, menu, list, details, changes, missed>>
    BY <1>5 DEF Search, server
  <2>2. user \in Members
    BY <2>1 DEF Typed, StateOK
  <2>3. "users" \in ReadKinds /\ PageOf["users"] = page'
    BY <2>1 DEF ReadKinds, PageOf, RoleKinds, InviteKinds
  <2>4. \A q \in others : q \in Call /\ q.kind \notin ReadKinds /\ OfPage(q)'
    BY <2>1 DEF Superseded, Typed, CallsOK, OfPage
  <2>5. calls' \subseteq others \cup {Read("users", user)}
    BY <2>1 DEF ListMembers
  <2>6. rows' \in [Members -> Role]
    BY <2>1, RowsOfRole DEF ListMembers, Typed, StateOK
  <2> HIDE DEF others
  <2>7. CallsOK'
    BY <2>1, <2>2, <2>3, <2>4, <2>5, CallsRead
  <2> QED
    BY <2>1, <2>6, <2>7 DEF Typed, StateOK
<1> QED
  BY <1>1, <1>2, <1>3, <1>4, <1>5

\* What the pages offer.
Offer ==
  \/ \E m \in Members, r \in Roles : changeUserRole(m, r)
  \/ \E m \in Members : confirmRemove(m)
  \/ \E i \in Invites, r \in Roles : createOrganizationInvite(i, r)
  \/ \E i \in Invites, kind \in {"resend", "revoke"} : ManageInvite(kind, i)
  \/ \E kind \in {"rename", "delete"} : ManageOrganization(kind)
  \/ openPortal

\* A patient user has let changes of roles finish, and on the page of the settings
\* does not delete the organization twice.
Idle(kind) ==
  kind \in RoleKinds =>
    \/ Of(RoleKinds) = {} /\ Of({"users"}) = {}
    \/ kind = "delete" /\ \A q \in Of({"delete"}) : ~q.mounted

\* It is a write of whoever is signed in, sent from the page that is open.
LEMMA Offered ==
  ASSUME Typed, Offer
  PROVE  \E kind \in AllKinds \ ReadKinds, x \in Members \cup Invites \cup {Null}, r \in Role :
           /\ user \in Members /\ page = PageOf[kind]
           /\ Send(NewCall(kind, user, x, r))
           /\ Patient => Idle(kind)
<1> DEFINE P(kind, x, r) == /\ user \in Members /\ page = PageOf[kind]
                            /\ Send(NewCall(kind, user, x, r))
                            /\ Patient => Idle(kind)
<1>1. page # "none" => user \in Members
  BY DEF Typed, StateOK
<1>2. Null \in Role /\ Roles \subseteq Role
  BY DEF Role
<1>3. ASSUME Patient, Waits(RoleKinds \cup {"users"})
      PROVE  Of(RoleKinds) = {} /\ Of({"users"}) = {}
  BY <1>3 DEF Waits, Of
<1>4. ASSUME NEW m \in Members, NEW r \in Roles, changeUserRole(m, r)
      PROVE  P("change", m, r) /\ "change" \in AllKinds \ ReadKinds
  BY <1>1, <1>3, <1>4
     DEF changeUserRole, Idle, PageOf, AllKinds, ReadKinds, RoleKinds, InviteKinds
<1>5. ASSUME NEW m \in Members, confirmRemove(m)
      PROVE  P("remove", m, Null) /\ "remove" \in AllKinds \ ReadKinds
  BY <1>1, <1>3, <1>5
     DEF confirmRemove, Idle, PageOf, AllKinds, ReadKinds, RoleKinds, InviteKinds
<1>6. ASSUME NEW i \in Invites, NEW r \in Roles, createOrganizationInvite(i, r)
      PROVE  P("invite", i, r) /\ "invite" \in AllKinds \ ReadKinds
  BY <1>1, <1>6
     DEF createOrganizationInvite, Idle, PageOf, AllKinds, ReadKinds, RoleKinds, InviteKinds
<1>7. ASSUME NEW i \in Invites, NEW kind \in {"resend", "revoke"}, ManageInvite(kind, i)
      PROVE  P(kind, i, Null) /\ kind \in AllKinds \ ReadKinds
  BY <1>1, <1>7
     DEF ManageInvite, Idle, PageOf, AllKinds, ReadKinds, RoleKinds, InviteKinds
<1>8. ASSUME NEW kind \in {"rename", "delete"}, ManageOrganization(kind)
      PROVE  P(kind, Null, Null) /\ kind \in AllKinds \ ReadKinds
  BY <1>1, <1>8
     DEF ManageOrganization, Idle, PageOf, AllKinds, ReadKinds, RoleKinds, InviteKinds
<1>9. ASSUME openPortal
      PROVE  P("portal", Null, Null) /\ "portal" \in AllKinds \ ReadKinds
  BY <1>1, <1>9 DEF openPortal, Idle, PageOf, AllKinds, ReadKinds, RoleKinds, InviteKinds
<1> HIDE DEF P
<1>10. \E kind \in AllKinds \ ReadKinds, x \in Members \cup Invites \cup {Null}, r \in Role :
         P(kind, x, r)
  BY <1>2, <1>4, <1>5, <1>6, <1>7, <1>8, <1>9 DEF Offer
<1> QED
  BY <1>10 DEF P

LEMMA TypedOffer ==
  ASSUME Typed, Offer
  PROVE  Typed'
<1>1. PICK kind \in AllKinds \ ReadKinds, x \in Members \cup Invites \cup {Null}, r \in Role :
        user \in Members /\ page = PageOf[kind] /\ Send(NewCall(kind, user, x, r))
  BY Offered
<1> DEFINE q == NewCall(kind, user, x, r)
<1>2. q \in Call /\ q.kind = kind /\ q.by = user
  BY <1>1, NewCallOK
<1> HIDE DEF q
<1>3. CallsOK'
  BY <1>1, <1>2, CallsSend DEF q
<1> QED
  BY <1>1, <1>3 DEF Send, Typed, StateOK, server, shown

\* An answered request is the one that was sent.
AnswerTo(q) ==
  [q EXCEPT !.answered = TRUE,
            !.rows = IF q.kind = "users" THEN roles ELSE @,
            !.list = IF q.kind = "invites" THEN pending ELSE @]

LEMMA AnswerOK ==
  ASSUME Typed, NEW q \in calls
  PROVE  /\ AnswerTo(q) \in Call /\ AnswerTo(q).kind = q.kind /\ AnswerTo(q).by = q.by
         /\ AnswerTo(q).of = q.of /\ AnswerTo(q).role = q.role
         /\ AnswerTo(q).mounted <=> q.mounted
         /\ AnswerTo(q).answered
         /\ q.kind = "users" => AnswerTo(q).rows = roles
         /\ q.kind = "invites" => AnswerTo(q).list = pending
<1>1. q \in Call /\ roles \in [Members -> Role] /\ pending \in [Invites -> InviteRole]
  BY DEF Typed, StateOK, CallsOK
<1> QED
  BY <1>1 DEF AnswerTo, Call

\* The server and the network.
LEMMA TypedServer ==
  ASSUME Typed, MaxChanges \in Nat,
         \/ \E m \in Members, r \in Role : RoleChanged(m, r)
         \/ \E i \in Invites, r \in InviteRole : InviteChanged(i, r)
         \/ \E q \in calls : Handle(q) \/ Fail(q)
  PROVE  Typed'
<1>1. ASSUME NEW m \in Members, NEW r \in Role, RoleChanged(m, r) PROVE Typed'
  <2>1. /\ roles' \in [Members -> Role] /\ changes' \in 0..MaxChanges
        /\ missed' \subseteq {"users", "invites", "role"}
        /\ UNCHANGED <<pending, user, stored, page, menu, rows, list, details, calls>>
    BY <1>1 DEF RoleChanged, shown, Typed, StateOK
  <2> QED
    BY <2>1 DEF Typed, StateOK, CallsOK, OfPage
<1>2. ASSUME NEW i \in Invites, NEW r \in InviteRole, InviteChanged(i, r) PROVE Typed'
  <2>1. /\ pending' \in [Invites -> InviteRole] /\ changes' \in 0..MaxChanges
        /\ missed' \subseteq {"users", "invites", "role"}
        /\ UNCHANGED <<roles, user, stored, page, menu, rows, list, details, calls>>
    BY <1>2 DEF InviteChanged, shown, Typed, StateOK
  <2> QED
    BY <2>1 DEF Typed, StateOK, CallsOK, OfPage
<1>3. ASSUME NEW q \in calls, Handle(q) PROVE Typed'
  <2>1. calls' = (calls \ {q}) \cup {AnswerTo(q)}
    BY <1>3 DEF Handle, AnswerTo
  <2>2. UNCHANGED <<user, stored, page, menu, rows, list, details, changes>>
    BY <1>3 DEF Handle, shown
  <2>3. CallsOK'
    BY <2>1, <2>2, AnswerOK, CallsMove DEF Typed
  <2>4. q.role \in Role
    BY DEF Typed, CallsOK, Call
  <2>5. roles' \in [Members -> Role]
    BY <1>3, <2>4, RowsOfRole DEF Handle, Typed, StateOK, Role
  <2>6. pending' \in [Invites -> InviteRole]
    BY <1>3, <2>4 DEF Handle, Typed, StateOK, Role, InviteRole, NoInvites
  <2>7. missed' \subseteq {"users", "invites", "role"}
    BY <1>3 DEF Handle, Unheard, Typed, StateOK
  <2> QED
    BY <2>2, <2>3, <2>5, <2>6, <2>7 DEF Typed, StateOK
<1>4. ASSUME NEW q \in calls, Fail(q) PROVE Typed'
  <2>1. /\ calls' \subseteq calls /\ list' \in [Invites -> InviteRole]
        /\ UNCHANGED <<roles, pending, user, stored, page, menu, rows, details, changes>>
    BY <1>4 DEF Fail, server, NoInvites, InviteRole, Role, Typed, StateOK
  <2>2. CallsOK'
    BY <2>1, CallsFewer DEF Typed
  <2>3. missed' \subseteq {"users", "invites", "role"}
    BY <1>4 DEF Fail, Topics, Heard, Typed, StateOK
  <2> QED
    BY <2>1, <2>2, <2>3 DEF Typed, StateOK
<1> QED
  BY <1>1, <1>2, <1>3, <1>4

\* A request that only ends.
LEMMA EndsOK ==
  ASSUME Typed, NEW q \in calls, calls' = calls \ {q},
         UNCHANGED <<roles, pending, user, page, menu, details, changes, missed>>,
         stored' \in [user: Members \cup {Null}, role: Role], stored'.user = stored.user,
         rows' \in [Members -> Role], list' \in [Invites -> InviteRole]
  PROVE  Typed'
<1>1. CallsOK'
  BY CallsFewer DEF Typed
<1> QED
  BY <1>1 DEF Typed, StateOK

\* Answers.
LEMMA TypedAnswers ==
  ASSUME Apart, Typed, NEW q \in calls,
         \/ UsersLoaded(q) \/ InvitesLoaded(q) \/ DetailsLoaded(q) \/ ChangeEnds(q)
         \/ RemovalEnds(q) \/ InviteEnds(q) \/ RenameEnds(q) \/ PortalOpens(q)
  PROVE  Typed'
<1>1. /\ q \in Call /\ q.rows \in [Members -> Role] /\ q.list \in [Invites -> InviteRole]
      /\ q.role \in Role
      /\ stored \in [user: Members \cup {Null}, role: Role]
      /\ rows \in [Members -> Role] /\ list \in [Invites -> InviteRole]
  BY DEF Typed, CallsOK, StateOK, Call
<1>2. CASE UsersLoaded(q) \/ InvitesLoaded(q) \/ RenameEnds(q)
  BY <1>1, <1>2, EndsOK DEF UsersLoaded, InvitesLoaded, RenameEnds, server, shown
<1>3. CASE DetailsLoaded(q)
  <2>1. CallsOK'
    BY <1>3, CallsFewer DEF DetailsLoaded, Typed
  <2> QED
    BY <1>3, <2>1 DEF DetailsLoaded, Typed, StateOK, server
<1>4. CASE ChangeEnds(q)
  <2>1. rows' \in [Members -> Role]
    BY <1>1, <1>4 DEF ChangeEnds
  <2>2. stored' \in [user: Members \cup {Null}, role: Role] /\ stored'.user = stored.user
    BY <1>1, <1>4 DEF ChangeEnds
  <2> QED
    BY <1>1, <1>4, <2>1, <2>2, EndsOK DEF ChangeEnds, server
<1>5. CASE RemovalEnds(q)
  <2>1. CASE logout(calls \ {q})
    <3>1. /\ CallsOK' /\ user' = Null /\ page' = "none" /\ menu' \in Role
          /\ details' \in BOOLEAN /\ rows' \in [Members -> Role]
          /\ list' \in [Invites -> InviteRole]
          /\ stored' \in [user: Members \cup {Null}, role: Role]
      BY <2>1, LogoutOK
    <3> QED
      BY <1>5, <3>1 DEF RemovalEnds, Typed, StateOK, server, Apart
  <2>2. CASE ~(q.kind = "delete" \/ q.of = q.by)
    <3>1. rows' \in [Members -> Role]
      BY <1>1, <1>5, <2>2 DEF RemovalEnds, Role
    <3> QED
      BY <1>1, <1>5, <2>2, <3>1, EndsOK DEF RemovalEnds, server
  <2> QED
    BY <1>5, <2>1, <2>2 DEF RemovalEnds
<1>6. CASE InviteEnds(q)
  <2>1. CASE ~q.mounted
    BY <1>1, <1>6, <2>1, EndsOK DEF InviteEnds, server, shown
  <2>2. CASE q.mounted
    <3> DEFINE others == {c \in calls \ {q} : ~Superseded(c)}
    <3>1. /\ calls' = others \cup {Read("invites", user)} /\ q.kind \in InviteKinds
          /\ UNCHANGED <<roles, pending, user, stored, page, menu, rows, list, details,
                         changes, missed>>
      BY <1>6, <2>2 DEF InviteEnds, Answer, server, shown
    <3>2. page = PageOf[q.kind]
      BY <2>2 DEF Typed, CallsOK, OfPage
    <3>3. page = "invites" /\ "invites" \in ReadKinds /\ PageOf["invites"] = page'
      BY <3>1, <3>2 DEF PageOf, ReadKinds, InviteKinds, RoleKinds
    <3>4. user \in Members
      BY <3>3 DEF Typed, StateOK
    <3>5. \A c \in others : c \in Call /\ c.kind \notin ReadKinds /\ OfPage(c)'
      BY <3>1 DEF Superseded, Typed, CallsOK, OfPage
    <3> HIDE DEF others
    <3>6. CallsOK'
      BY <3>1, <3>3, <3>4, <3>5, CallsRead
    <3> QED
      BY <3>1, <3>6 DEF Typed, StateOK
  <2> QED
    BY <2>1, <2>2
<1>7. CASE PortalOpens(q)
  <2>1. missed' \subseteq {"users", "invites", "role"}
    BY <1>7 DEF PortalOpens, Topics, Heard, Typed, StateOK
  <2>2. CASE user \in Members
    <3> DEFINE others == {}
    <3>1. /\ calls' \subseteq others \cup {Read("billing", user)} /\ page' = "billing"
          /\ user' = user /\ "billing" \in ReadKinds /\ PageOf["billing"] = "billing"
      BY <1>7, <2>2 DEF PortalOpens, ReadKinds, PageOf, InviteKinds, RoleKinds
    <3>2. \A c \in others : c \in Call /\ c.kind \notin ReadKinds /\ OfPage(c)'
      OBVIOUS
    <3> HIDE DEF others
    <3>3. CallsOK'
      BY <2>2, <3>1, <3>2, CallsRead
    <3>4. rows' \in [Members -> Role] /\ list' \in [Invites -> InviteRole] /\ menu' \in Role
      BY <1>1, <1>7, <2>2 DEF PortalOpens, NoRows, NoInvites, Role, InviteRole
    <3> QED
      BY <1>7, <2>1, <2>2, <3>1, <3>3, <3>4 DEF PortalOpens, Typed, StateOK, server
  <2>3. CASE user \notin Members
    <3>1. calls' = {}
      BY <1>7, <2>3 DEF PortalOpens
    <3>2. CallsOK'
      BY <3>1 DEF CallsOK
    <3> QED
      BY <1>7, <2>1, <2>3, <3>2 DEF PortalOpens, Typed, StateOK, server, shown
  <2> QED
    BY <2>2, <2>3
<1> QED
  BY <1>2, <1>3, <1>4, <1>5, <1>6, <1>7

LEMMA NextSplit ==
  ASSUME OPNext
  PROVE  \/ \/ \E m \in Members : Login(m)
            \/ CreateOrganization \/ LogOut
            \/ \E p \in {"members", "invites", "billing", "settings"} : Open(p)
            \/ Search
         \/ Offer
         \/ \/ \E m \in Members, r \in Role : RoleChanged(m, r)
            \/ \E i \in Invites, r \in InviteRole : InviteChanged(i, r)
            \/ \E q \in calls : Handle(q) \/ Fail(q)
         \/ \E q \in calls :
              \/ UsersLoaded(q) \/ InvitesLoaded(q) \/ DetailsLoaded(q) \/ ChangeEnds(q)
              \/ RemovalEnds(q) \/ InviteEnds(q) \/ RenameEnds(q) \/ PortalOpens(q)
BY DEF OPNext, Offer

LEMMA TypedNext ==
  ASSUME Apart, MaxChanges \in Nat, Typed, [OPNext]_opVars
  PROVE  Typed'
<1>1. CASE UNCHANGED opVars
  BY <1>1 DEF opVars, Typed, StateOK, CallsOK, OfPage
<1>2. CASE OPNext
  BY <1>2, NextSplit, TypedUser, TypedOffer, TypedServer, TypedAnswers
<1> QED
  BY <1>1, <1>2

LEMMA OneRead ==
  ASSUME CallsOK
  PROVE  Cardinality(Of(ReadKinds)) <= 1
<1>1. \A p, q \in Of(ReadKinds) : p = q
  BY DEF CallsOK, Of
<1>2. CASE Of(ReadKinds) = {}
  BY <1>2, FS_EmptySet
<1>3. CASE Of(ReadKinds) # {}
  <2>1. PICK q : q \in Of(ReadKinds)
    BY <1>3
  <2>2. Of(ReadKinds) = {q}
    BY <1>1, <2>1
  <2>3. Cardinality({q}) = 1
    BY FS_Singleton
  <2> QED
    BY <2>2, <2>3
<1> QED
  BY <1>2, <1>3

\* The variables have their types, and a page reads one thing at a time
\* (organization.tsx and its pages).
THEOREM PagesTypeCorrect ==
  ASSUME Apart, MaxChanges \in Nat
  PROVE  OPSpec => []PagesTypeOK
<1>1. OPInit => Typed
  BY TypedInit
<1>2. Typed /\ [OPNext]_opVars => Typed'
  BY TypedNext
<1>3. Typed => PagesTypeOK
  BY OneRead DEF Typed, StateOK, CallsOK, PagesTypeOK
<1> QED
  BY <1>1, <1>2, <1>3, PTL DEF OPSpec

-----------------------------------------------------------------------------
(* One change of roles at a time *)

\* A patient user lets a change of roles finish, and reads the members when it has.
Quiet ==
  /\ \A p, q \in calls : p.kind \in RoleKinds /\ q.kind \in RoleKinds => p = q
  /\ \A q \in calls : q.kind \in RoleKinds =>
       /\ user \in Members => q.mounted
       /\ \A r \in calls : r.kind # "users"

LEMMA QuietFewer ==
  ASSUME Quiet, calls' \subseteq calls, user' \in Members => user' = user
  PROVE  Quiet'
BY DEF Quiet

LEMMA QuietNoRoles ==
  ASSUME \A q \in calls' : q.kind \notin RoleKinds
  PROVE  Quiet'
BY DEF Quiet

LEMMA QuietDetached ==
  ASSUME Quiet, CallsOK, calls' \subseteq Detached(calls), user' \notin Members
  PROVE  Quiet'
<1>1. ASSUME NEW p \in calls', NEW q \in calls', p.kind \in RoleKinds, q.kind \in RoleKinds
      PROVE  p = q
  <2>1. PICK c \in calls : p = [c EXCEPT !.mounted = FALSE] /\ p.kind = c.kind
    BY DetachedOK
  <2>2. PICK d \in calls : q = [d EXCEPT !.mounted = FALSE] /\ q.kind = d.kind
    BY DetachedOK
  <2>3. c = d
    BY <1>1, <2>1, <2>2 DEF Quiet
  <2> QED
    BY <2>1, <2>2, <2>3
<1>2. \A r \in calls' : r.kind # "users"
  BY DetachedOK DEF ReadKinds
<1> QED
  BY <1>1, <1>2 DEF Quiet

LEMMA QuietNext ==
  ASSUME Apart, Patient, Typed, Quiet, [OPNext]_opVars
  PROVE  Quiet'
<1>1. CASE UNCHANGED opVars
  BY <1>1, QuietFewer DEF opVars
<1>2. ASSUME NEW others, NEW k \in ReadKinds, NEW u \in Members,
             \A q \in others : q.kind \notin RoleKinds,
             calls' \subseteq others \cup {Read(k, u)}
      PROVE  Quiet'
  <2> DEFINE new == Read(k, u)
  <2>1. new.kind \notin RoleKinds
    BY ReadOK DEF ReadKinds, RoleKinds
  <2>2. \A q \in calls' : q = new \/ q \in others
    BY <1>2
  <2> HIDE DEF new
  <2> QED
    BY <1>2, <2>1, <2>2, QuietNoRoles
<1>3. ASSUME NEW p \in {"members", "invites", "billing", "settings"}, NEW u \in Members,
             NEW s, Opens(p, u, s), Of(RoleKinds) = {}
      PROVE  Quiet'
  <2>1. \A q \in Detached(calls) : q.kind \notin RoleKinds
    BY <1>3, DetachedOK DEF Typed, Of
  <2>2. PICK k \in ReadKinds : calls' \subseteq Detached(calls) \cup {Read(k, u)}
    BY <1>3 DEF Opens, ListMembers, PageRead, ReadKinds
  <2> QED
    BY <1>2, <2>1, <2>2
<1>4. ASSUME NEW m \in Members, Login(m) PROVE Quiet'
  BY <1>3, <1>4 DEF Login, Waits
<1>5. CASE CreateOrganization
  BY <1>5, QuietFewer DEF CreateOrganization, Apart
<1>6. CASE LogOut
  BY <1>6, QuietDetached DEF LogOut, logout, Typed, Apart
<1>7. ASSUME NEW p \in {"members", "invites", "billing", "settings"}, Open(p) PROVE Quiet'
  <2>1. Of(RoleKinds) = {}
    BY <1>7 DEF Open, Writes, Of, RoleKinds, ReadKinds
  <2> QED
    BY <1>3, <1>7, <2>1 DEF Open
<1>8. CASE Search
  <2> DEFINE others == {q \in calls : ~Superseded(q)}
  <2>1. \A q \in others : q.kind \notin RoleKinds
    BY <1>8 DEF Search, Waits, Of
  <2>2. user \in Members
    BY <1>8 DEF Search, Typed, StateOK
  <2>3. "users" \in ReadKinds /\ calls' \subseteq others \cup {Read("users", user)}
    BY <1>8 DEF Search, ListMembers, ReadKinds
  <2> HIDE DEF others
  <2> QED
    BY <1>2, <2>1, <2>2, <2>3
<1>9. CASE Offer
  <2>1. PICK kind \in AllKinds \ ReadKinds, x \in Members \cup Invites \cup {Null}, r \in Role :
          /\ user \in Members /\ page = PageOf[kind]
          /\ Send(NewCall(kind, user, x, r)) /\ Idle(kind)
    BY <1>9, Offered
  <2> DEFINE q == NewCall(kind, user, x, r)
  <2>2. q.kind = kind /\ q.mounted
    BY <2>1, NewCallOK
  <2>3. calls' = calls \cup {q} /\ user' = user
    BY <2>1 DEF Send
  <2> HIDE DEF q
  <2>4. kind # "users"
    BY DEF ReadKinds
  <2>5. CASE kind \notin RoleKinds
    BY <2>2, <2>3, <2>4, <2>5 DEF Quiet
  <2>6. CASE Of(RoleKinds) = {} /\ Of({"users"}) = {}
    BY <2>2, <2>3, <2>4, <2>6 DEF Quiet, Of
  <2>7. CASE kind = "delete" /\ \A p \in Of({"delete"}) : ~p.mounted
    <3>1. page = "settings"
      BY <2>1, <2>7 DEF PageOf, RoleKinds, InviteKinds
    <3>2. ASSUME NEW p \in calls, p.kind \in RoleKinds PROVE FALSE
      <4>1. p.mounted /\ page = PageOf[p.kind]
        BY <2>1, <3>2 DEF Quiet, Typed, CallsOK, OfPage
      <4>2. p.kind = "delete"
        BY <3>1, <3>2, <4>1 DEF PageOf, RoleKinds
      <4> QED
        BY <2>7, <4>1, <4>2 DEF Of
    <3>3. ASSUME NEW p \in calls PROVE p.kind # "users"
      <4>1. p.kind \in ReadKinds => page = PageOf[p.kind]
        BY DEF Typed, CallsOK, OfPage
      <4> QED
        BY <3>1, <4>1 DEF PageOf, ReadKinds, InviteKinds
    <3> QED
      BY <2>2, <2>3, <2>7, <3>2, <3>3 DEF Quiet
  <2> QED
    BY <2>1, <2>5, <2>6, <2>7 DEF Idle
<1>10. CASE \/ \E m \in Members, r \in Role : RoleChanged(m, r)
            \/ \E i \in Invites, r \in InviteRole : InviteChanged(i, r)
  BY <1>10, QuietFewer DEF RoleChanged, InviteChanged
<1>11. ASSUME NEW q \in calls, Handle(q) PROVE Quiet'
  <2> DEFINE m == AnswerTo(q)
  <2>1. calls' = (calls \ {q}) \cup {m} /\ user' = user
    BY <1>11 DEF Handle, AnswerTo
  <2>2. m.kind = q.kind /\ (m.mounted <=> q.mounted)
    BY AnswerOK
  <2> HIDE DEF m
  <2>3. \A p \in calls' : p = m \/ (p \in calls /\ p # q)
    BY <2>1
  <2> QED
    BY <2>1, <2>2, <2>3 DEF Quiet
<1>12. ASSUME NEW q \in calls,
              \/ Fail(q) \/ UsersLoaded(q) \/ InvitesLoaded(q) \/ DetailsLoaded(q)
              \/ ChangeEnds(q) \/ RenameEnds(q)
       PROVE  Quiet'
  <2>1. calls' = calls \ {q} /\ user' = user
    BY <1>12 DEF Fail, UsersLoaded, InvitesLoaded, DetailsLoaded, ChangeEnds, RenameEnds
  <2> QED
    BY <2>1, QuietFewer
<1>13. ASSUME NEW q \in calls, RemovalEnds(q) PROVE Quiet'
  <2>1. CASE logout(calls \ {q})
    <3>1. calls' \subseteq Detached(calls) /\ user' \notin Members
      BY <2>1 DEF logout, Detached, Apart
    <3> QED
      BY <3>1, QuietDetached DEF Typed
  <2>2. CASE calls' = calls \ {q} /\ user' = user
    BY <2>2, QuietFewer
  <2> QED
    BY <1>13, <2>1, <2>2 DEF RemovalEnds
<1>14. ASSUME NEW q \in calls, InviteEnds(q) PROVE Quiet'
  <2>1. CASE ~q.mounted
    BY <1>14, <2>1, QuietFewer DEF InviteEnds
  <2>2. CASE q.mounted
    <3> DEFINE new == Read("invites", user)
    <3>1. page = "invites" /\ user \in Members
      BY <1>14, <2>2 DEF InviteEnds, Answer, Typed, CallsOK, OfPage, StateOK, PageOf, InviteKinds, RoleKinds
    <3>2. new.kind = "invites"
      BY <3>1, ReadOK DEF ReadKinds
    <3>3. calls' \subseteq calls \cup {new} /\ user' = user
      BY <1>14, <2>2 DEF InviteEnds
    <3> HIDE DEF new
    <3> QED
      BY <3>2, <3>3 DEF Quiet, RoleKinds
  <2> QED
    BY <2>1, <2>2
<1>15. ASSUME NEW q \in calls, PortalOpens(q) PROVE Quiet'
  <2>1. CASE user \in Members
    <3> DEFINE others == {}
    <3>1. "billing" \in ReadKinds /\ calls' \subseteq others \cup {Read("billing", user)}
      BY <1>15, <2>1 DEF PortalOpens, ReadKinds
    <3>2. \A c \in others : c.kind \notin RoleKinds
      OBVIOUS
    <3> HIDE DEF others
    <3> QED
      BY <1>2, <2>1, <3>1, <3>2
  <2>2. CASE user \notin Members
    BY <1>15, <2>2, QuietNoRoles DEF PortalOpens
  <2> QED
    BY <2>1, <2>2
<1> QED
  BY <1>1, <1>4, <1>5, <1>6, <1>7, <1>8, <1>9, <1>10, <1>11, <1>12, <1>13, <1>14, <1>15, NextSplit

-----------------------------------------------------------------------------
(* What the pages know *)

\* The answer to a change tells the role that the server has since.
ChangesKnown ==
  \A q \in Of({"change"}) : q.answered =>
    /\ "users" \notin missed /\ q.of \in Members => q.role = roles[q.of]
    /\ "role" \notin missed /\ q.of = user /\ user \in Members => q.role = roles[q.of]

\* Tells(q, m): the answer that is on its way brings the role of m up to date.
Tells(q, m) ==
  /\ q.answered
  /\ \/ q.kind = "delete"
     \/ q.kind = "remove" /\ q.of = m
     \/ q.kind = "change" /\ q.of = m /\ q.role = roles[m]

\* The user's own role is known, or the answer that tells is on its way.
OwnRoleKnown ==
  user \in Members /\ "role" \notin missed =>
    stored.role = roles[user] \/ \E q \in Of(RoleKinds) : Tells(q, user)

\* What has been read of the members is what the server has.
MembersRead ==
  "users" \notin missed => \A r \in Of({"users"}) : r.answered => r.rows = roles

\* Each row is current, or the answer that corrects it is on its way.
RowsKnown ==
  page = "members" /\ missed \cap {"users", "role"} = {} /\ Of({"users"}) = {} =>
    \A m \in Members :
      rows[m] \in {Null, roles[m]} \/ \E q \in Of(RoleKinds) : Tells(q, m)

\* The invites are current, or are being read again, or will be.
InvitesKnown ==
  page = "invites" /\ "invites" \notin missed =>
    \/ \E q \in Of(InviteKinds) : q.answered /\ q.mounted
    \/ \E r \in Of({"invites"}) : r.answered => r.list = pending
    \/ list = pending /\ Of({"invites"}) = {}

Known == ChangesKnown /\ OwnRoleKnown /\ MembersRead /\ RowsKnown /\ InvitesKnown

\* With nothing under way, the role in localStorage is the user's.
LEMMA OwnRole ==
  ASSUME OwnRoleKnown, Of(RoleKinds) = {}, user \in Members, "role" \notin missed
  PROVE  stored.role = roles[user]
BY DEF OwnRoleKnown

\* Nothing of the roles has changed, and whoever tells is still there.
LEMMA RolesKept ==
  ASSUME Known, UNCHANGED <<roles, user, stored>>,
         "role" \notin missed' => "role" \notin missed,
         "users" \notin missed' => "users" \notin missed,
         \A q \in calls : q.kind \in RoleKinds /\ q.answered => q \in calls',
         \A q \in calls' : q.kind \in RoleKinds \cup {"users"} /\ q.answered => q \in calls
  PROVE  /\ ChangesKnown' /\ OwnRoleKnown' /\ MembersRead'
         /\ \A m : (\E q \in Of(RoleKinds) : Tells(q, m))
                     => \E q \in Of(RoleKinds)' : Tells(q, m)'
<1>1. ChangesKnown'
  BY DEF Known, ChangesKnown, Of, RoleKinds
<1>2. ASSUME NEW m, \E q \in Of(RoleKinds) : Tells(q, m)
      PROVE  \E q \in Of(RoleKinds)' : Tells(q, m)'
  BY <1>2 DEF Tells, Of
<1>3. OwnRoleKnown'
  BY <1>2 DEF Known, OwnRoleKnown
<1>4. MembersRead'
  BY DEF Known, MembersRead, Of
<1> QED
  BY <1>1, <1>2, <1>3, <1>4

\* Nor have the rows.
LEMMA RolesStill ==
  ASSUME Known, UNCHANGED <<roles, user, stored, page, rows>>,
         "role" \notin missed' => "role" \notin missed,
         "users" \notin missed' => "users" \notin missed,
         \A q \in calls : q.kind \in RoleKinds /\ q.answered => q \in calls',
         \A q \in calls : q.kind = "users" => "users" \in missed' \/ q \in calls',
         \A q \in calls' : q.kind \in RoleKinds \cup {"users"} /\ q.answered => q \in calls
  PROVE  ChangesKnown' /\ OwnRoleKnown' /\ MembersRead' /\ RowsKnown'
<1>1. /\ ChangesKnown' /\ OwnRoleKnown' /\ MembersRead'
      /\ \A m : (\E q \in Of(RoleKinds) : Tells(q, m))
                  => \E q \in Of(RoleKinds)' : Tells(q, m)'
  BY RolesKept
<1>2. ASSUME missed' \cap {"users", "role"} = {}, Of({"users"})' = {}
      PROVE  missed \cap {"users", "role"} = {} /\ Of({"users"}) = {}
  BY <1>2 DEF Of
<1>3. RowsKnown'
  BY <1>1, <1>2 DEF Known, RowsKnown
<1> QED
  BY <1>1, <1>3

\* Nothing of the invites has changed, and whoever tells is still there.
LEMMA InvitesStill ==
  ASSUME InvitesKnown, UNCHANGED <<pending, page, list>>,
         "invites" \notin missed' => "invites" \notin missed,
         \A q \in calls : q.kind \in InviteKinds /\ q.answered /\ q.mounted => q \in calls',
         \A q \in calls : q.kind = "invites" => q \in calls',
         \A q \in calls' : q.kind = "invites" => q \in calls
  PROVE  InvitesKnown'
<1>1. CASE \E q \in Of(InviteKinds) : q.answered /\ q.mounted
  BY <1>1 DEF InvitesKnown, Of
<1>2. CASE \E r \in Of({"invites"}) : r.answered => r.list = pending
  BY <1>2 DEF InvitesKnown, Of
<1>3. CASE list = pending /\ Of({"invites"}) = {}
  BY <1>3 DEF InvitesKnown, Of
<1>4. CASE ~(page = "invites" /\ "invites" \notin missed)
  BY <1>4 DEF InvitesKnown
<1> QED
  BY <1>1, <1>2, <1>3, <1>4 DEF InvitesKnown

\* Nobody is signed in, or somebody who is not a member.
LEMMA KnownAway ==
  ASSUME \A q \in calls' : q.kind \notin ReadKinds,
         user' \notin Members, page' = "none", Known, UNCHANGED roles,
         "users" \notin missed' => "users" \notin missed,
         \A q \in calls' : q.kind = "change" /\ q.answered =>
            \E c \in calls : c.kind = q.kind /\ c.of = q.of /\ c.role = q.role /\ c.answered
  PROVE  Known'
<1>1. ChangesKnown'
  BY DEF Known, ChangesKnown, Of
<1>2. OwnRoleKnown' /\ RowsKnown' /\ InvitesKnown'
  BY DEF OwnRoleKnown, RowsKnown, InvitesKnown
<1>3. MembersRead'
  BY DEF MembersRead, Of, ReadKinds
<1> QED
  BY <1>1, <1>2, <1>3 DEF Known

\* A request that is detached keeps what it asks for.
LEMMA DetachedSame ==
  ASSUME CallsOK, NEW requests \in SUBSET calls, NEW q \in Detached(requests)
  PROVE  /\ q.kind \notin ReadKinds
         /\ \E c \in calls : /\ c.kind = q.kind /\ c.of = q.of /\ c.role = q.role
                             /\ c.answered <=> q.answered
<1>1. PICK c \in requests : q = [c EXCEPT !.mounted = FALSE]
  BY DetachedOK
<1>2. c \in Call
  BY DEF CallsOK
<1> QED
  BY <1>1, <1>2, DetachedOK DEF Call

\* The members are listed, when no change of roles is under way and the role in
\* localStorage is the user's.
LEMMA KnownList ==
  ASSUME NEW u \in Members, NEW s, NEW others, NEW before,
         user' = u, stored' = s, s.user = u, roles \in [Members -> Role], UNCHANGED roles,
         "role" \notin missed' => s.role = roles[u],
         page' = "members",
         \A q \in others : q.kind \notin RoleKinds \cup ReadKinds,
         ListMembers(s, u, others, before)
  PROVE  Known'
<1> DEFINE new == Read("users", u)
<1>1. new.kind = "users" /\ ~new.answered
  BY ReadOK DEF ReadKinds
<1>2. \/ calls' = others \cup {new}
      \/ calls' = others /\ s.role \notin {"owner", "admin"}
                         /\ rows' = IF s.role = "member" THEN [NoRows EXCEPT ![u] = "member"]
                                    ELSE NoRows
  BY DEF ListMembers
<1> HIDE DEF new
<1>3. \A q \in calls' : q.kind \notin RoleKinds /\ (q.kind = "users" => q = new)
  BY <1>1, <1>2 DEF ReadKinds, RoleKinds
<1>4. ChangesKnown'
  BY <1>3 DEF ChangesKnown, Of, RoleKinds
<1>5. OwnRoleKnown'
  BY DEF OwnRoleKnown
<1>6. MembersRead'
  BY <1>1, <1>3 DEF MembersRead, Of
<1>7. RowsKnown'
  <2>1. CASE new \in calls'
    BY <1>1, <2>1 DEF RowsKnown, Of
  <2>2. CASE rows' = IF s.role = "member" THEN [NoRows EXCEPT ![u] = "member"] ELSE NoRows
    <3>1. ASSUME "role" \notin missed', NEW m \in Members
          PROVE  rows'[m] \in {Null, roles'[m]}
      BY <2>2, <3>1 DEF NoRows
    <3> QED
      BY <3>1 DEF RowsKnown
  <2> QED
    BY <1>2, <2>1, <2>2
<1>8. InvitesKnown'
  BY DEF InvitesKnown
<1> QED
  BY <1>4, <1>5, <1>6, <1>7, <1>8 DEF Known

\* A page opens, when no change of roles is under way and the role in localStorage
\* is the user's.
LEMMA KnownOpens ==
  ASSUME Typed, Of(RoleKinds) = {}, NEW u \in Members, NEW s,
         NEW p \in {"members", "invites", "settings", "billing"},
         user' = u, stored' = s, s.user = u, UNCHANGED roles,
         "role" \notin missed' => s.role = roles[u],
         Opens(p, u, s)
  PROVE  Known'
<1>1. \A q \in Detached(calls) : q.kind \notin RoleKinds \cup ReadKinds
  BY DetachedOK DEF Typed, Of
<1>2. page' = p /\ roles \in [Members -> Role]
  BY DEF Opens, Typed, StateOK
<1>3. CASE p = "members"
  BY <1>1, <1>2, <1>3, KnownList DEF Opens
<1>4. CASE p # "members"
  <2> DEFINE new == Read(PageRead[p], u)
  <2>1. /\ new.kind \in ReadKinds \ {"users"} /\ ~new.answered
        /\ p = "invites" => new.kind = "invites"
    BY <1>4, ReadOK DEF PageRead, ReadKinds
  <2>2. calls' = Detached(calls) \cup {new}
    BY <1>4 DEF Opens
  <2> HIDE DEF new
  <2>3. \A q \in calls' : q.kind \notin RoleKinds \cup {"users"}
    BY <1>1, <2>1, <2>2 DEF ReadKinds, RoleKinds
  <2>4. ChangesKnown' /\ MembersRead'
    BY <2>3 DEF ChangesKnown, MembersRead, Of, RoleKinds
  <2>5. OwnRoleKnown' /\ RowsKnown'
    BY <1>2, <1>4 DEF OwnRoleKnown, RowsKnown
  <2>6. InvitesKnown'
    BY <1>2, <2>1, <2>2 DEF InvitesKnown, Of
  <2> QED
    BY <2>4, <2>5, <2>6 DEF Known
<1> QED
  BY <1>3, <1>4

LEMMA KnownInit ==
  ASSUME Apart, OPInit
  PROVE  Quiet /\ Known
BY DEF OPInit, Quiet, Known, ChangesKnown, OwnRoleKnown, MembersRead, RowsKnown,
       InvitesKnown, Of, Apart

\* Signing in and out, and opening pages.
LEMMA KnownUser ==
  ASSUME Apart, Patient, Typed, Quiet, Known,
         \/ \E m \in Members : Login(m)
         \/ CreateOrganization \/ LogOut
         \/ \E p \in {"members", "invites", "billing", "settings"} : Open(p)
         \/ Search
  PROVE  Known'
<1>1. ASSUME NEW m \in Members, Login(m) PROVE Known'
  <2> DEFINE s == [user |-> m, role |-> roles[m]]
  <2>1. /\ Of(RoleKinds) = {} /\ user' = m /\ stored' = s /\ UNCHANGED roles
        /\ Opens("members", m, s)
    BY <1>1 DEF Login, Waits, server
  <2>2. s.user = m /\ s.role = roles[m]
    OBVIOUS
  <2> HIDE DEF s
  <2> QED
    BY <2>1, <2>2, KnownOpens
<1>2. CASE CreateOrganization
  <2>1. user' \notin Members /\ user = Null /\ UNCHANGED <<roles, page, calls, missed>>
    BY <1>2 DEF CreateOrganization, server, shown, Apart
  <2>2. page = "none"
    BY <2>1 DEF Typed, StateOK, Apart
  <2>3. \A q \in calls : q.kind \notin ReadKinds
    BY <2>2 DEF Typed, CallsOK, OfPage, PageOf, ReadKinds, InviteKinds, RoleKinds
  <2> QED
    BY <2>1, <2>2, <2>3, KnownAway
<1>3. CASE LogOut
  <2>1. /\ user' \notin Members /\ page' = "none" /\ UNCHANGED <<roles, missed>>
        /\ calls' = Detached(calls)
    BY <1>3 DEF LogOut, logout, server, Apart
  <2> QED
    BY <2>1, DetachedSame, KnownAway DEF Typed
<1>4. ASSUME NEW p \in {"members", "invites", "billing", "settings"}, Open(p) PROVE Known'
  <2>1. /\ Of(RoleKinds) = {} /\ user \in Members
        /\ UNCHANGED <<user, stored, roles, missed>> /\ Opens(p, user, stored)
    BY <1>4 DEF Open, Writes, Of, RoleKinds, ReadKinds, server
  <2>2. "role" \notin missed => stored.role = roles[user]
    BY <2>1, OwnRole DEF Known
  <2>3. stored.user = user
    BY <2>1 DEF Typed, StateOK
  <2> QED
    BY <2>1, <2>2, <2>3, KnownOpens
<1>5. CASE Search
  <2> DEFINE others == {q \in calls : ~Superseded(q)}
  <2>1. /\ Of(RoleKinds) = {} /\ page = "members"
        /\ UNCHANGED <<user, stored, roles, page, missed>>
        /\ ListMembers(stored, user, others, rows)
    BY <1>5 DEF Search, Waits, server
  <2>2. user \in Members /\ stored.user = user /\ roles \in [Members -> Role]
    BY <2>1 DEF Typed, StateOK
  <2>3. "role" \notin missed => stored.role = roles[user]
    BY <2>1, <2>2, OwnRole DEF Known
  <2>4. \A q \in others : q.kind \notin RoleKinds \cup ReadKinds
    BY <2>1 DEF Superseded, Of
  <2> HIDE DEF others
  <2> QED
    BY <2>1, <2>2, <2>3, <2>4, KnownList
<1> QED
  BY <1>1, <1>2, <1>3, <1>4, <1>5

LEMMA KnownOffer ==
  ASSUME Typed, Known, Offer
  PROVE  Known'
<1>1. PICK kind \in AllKinds \ ReadKinds, x \in Members \cup Invites \cup {Null}, r \in Role :
        user \in Members /\ Send(NewCall(kind, user, x, r))
  BY Offered
<1> DEFINE q == NewCall(kind, user, x, r)
<1>2. q.kind \notin ReadKinds /\ ~q.answered
  BY <1>1, NewCallOK
<1>3. /\ calls' = calls \cup {q}
      /\ UNCHANGED <<roles, pending, user, stored, page, rows, list, missed>>
  BY <1>1 DEF Send, server, shown
<1> HIDE DEF q
<1>4. q.kind # "users" /\ q.kind # "invites"
  BY <1>2 DEF ReadKinds
<1>5. ChangesKnown' /\ OwnRoleKnown' /\ MembersRead' /\ RowsKnown'
  BY <1>2, <1>3, <1>4, RolesStill
<1>6. InvitesKnown'
  BY <1>2, <1>3, <1>4, InvitesStill DEF Known
<1> QED
  BY <1>5, <1>6 DEF Known

\* A request is handled.
LEMMA KnownHandle ==
  ASSUME Typed, Quiet, Known, NEW q \in calls, Handle(q)
  PROVE  Known'
<1>0. PICK m : m = AnswerTo(q)
  OBVIOUS
<1>1. /\ calls' = (calls \ {q}) \cup {m} /\ ~q.answered
      /\ UNCHANGED <<user, stored, page, rows, list>>
      /\ missed' = (missed \cup Unheard(q)) \ Heard(q)
  BY <1>0 DEF Handle, AnswerTo, shown
<1>2. /\ m.kind = q.kind /\ m.of = q.of /\ m.role = q.role /\ (m.mounted <=> q.mounted)
      /\ m.answered
      /\ q.kind = "users" => m.rows = roles
      /\ q.kind = "invites" => m.list = pending
  BY <1>0, AnswerOK
<1>3. \A p \in calls' : p = m \/ (p \in calls /\ p # q)
  BY <1>1
<1>4. /\ q.kind # "users" => ("users" \notin missed' => "users" \notin missed)
      /\ q.kind # "invites" => ("invites" \notin missed' => "invites" \notin missed)
      /\ "role" \notin missed' => "role" \notin missed
  BY <1>1 DEF Heard
<1>5. OfPage(q) /\ roles \in [Members -> Role] /\ (page # "none" => user \in Members)
  BY DEF Typed, CallsOK, StateOK
<1>6. CASE q.kind \in RoleKinds
  <2>1. \A p \in calls : p.kind \in RoleKinds => p = q
    BY <1>6 DEF Quiet
  <2>2. \A p \in calls' : p.kind # "users" /\ (p.kind \in RoleKinds => p = m)
    BY <1>2, <1>3, <1>6, <2>1 DEF Quiet
  <2>3. ASSUME NEW x \in Members
        PROVE  roles'[x] = roles[x] \/ Tells(m, x)'
    BY <1>2, <1>5, <1>6 DEF Handle, Tells, RoleKinds
  <2>4. m \in Of(RoleKinds)'
    BY <1>1, <1>2, <1>6 DEF Of
  <2>5. \A x : ~\E p \in Of(RoleKinds) : Tells(p, x)
    BY <1>1, <2>1 DEF Of, Tells
  <2>6. ChangesKnown'
    <3>1. q.kind = "change" /\ q.of \in Members => roles'[q.of] = q.role
      BY <1>5 DEF Handle
    <3> QED
      BY <1>2, <2>2, <3>1 DEF ChangesKnown, Of, RoleKinds
  <2>7. OwnRoleKnown'
    <3>1. user \in Members /\ "role" \notin missed => stored.role = roles[user]
      BY <2>5 DEF Known, OwnRoleKnown
    <3> QED
      BY <1>1, <1>4, <2>3, <2>4, <3>1 DEF OwnRoleKnown
  <2>8. MembersRead'
    BY <2>2 DEF MembersRead, Of
  <2>9. RowsKnown'
    <3>1. ASSUME page = "members", missed' \cap {"users", "role"} = {}, NEW x \in Members
          PROVE  rows[x] \in {Null, roles[x]}
      <4>1. missed \cap {"users", "role"} = {} /\ Of({"users"}) = {}
        BY <1>4, <1>6, <3>1 DEF Quiet, Of, RoleKinds
      <4> QED
        BY <2>5, <3>1, <4>1 DEF Known, RowsKnown
    <3> QED
      BY <1>1, <2>3, <2>4, <3>1 DEF RowsKnown
  <2>10. page # "invites"
    <3>1. ASSUME page = "invites" PROVE page = PageOf[q.kind]
      BY <1>5, <1>6, <3>1 DEF Quiet, OfPage
    <3> QED
      BY <1>6, <3>1 DEF PageOf, RoleKinds, InviteKinds
  <2>11. InvitesKnown'
    BY <1>1, <2>10 DEF InvitesKnown
  <2> QED
    BY <2>6, <2>7, <2>8, <2>9, <2>11 DEF Known
<1>7. CASE q.kind \notin RoleKinds
  <2>1. roles' = roles
    BY <1>7 DEF Handle, RoleKinds
  <2>2. InvitesKnown'
    <3>1. CASE q.kind = "invites"
      <4>1. pending' = pending /\ m \in Of({"invites"})'
        BY <1>1, <1>2, <3>1 DEF Handle, Of
      <4> QED
        BY <1>2, <3>1, <4>1 DEF InvitesKnown
    <3>2. CASE q.kind \in InviteKinds /\ q.mounted
      <4>1. m \in Of(InviteKinds)'
        BY <1>1, <1>2, <3>2 DEF Of
      <4> QED
        BY <1>2, <3>2, <4>1 DEF InvitesKnown
    <3>3. CASE q.kind \in InviteKinds /\ ~q.mounted
      <4>1. "invites" \in missed'
        BY <1>1, <3>3 DEF Unheard, Heard, InviteKinds
      <4> QED
        BY <4>1 DEF InvitesKnown
    <3>4. CASE q.kind \notin InviteKinds \cup {"invites"}
      <4>1. pending' = pending
        BY <1>7, <3>4 DEF Handle, RoleKinds, InviteKinds
      <4> QED
        BY <1>1, <1>2, <1>3, <1>4, <3>4, <4>1, InvitesStill DEF Known
    <3> QED
      BY <3>1, <3>2, <3>3, <3>4
  <2>3. CASE q.kind # "users"
    <3>1. ChangesKnown' /\ OwnRoleKnown' /\ MembersRead' /\ RowsKnown'
      BY <1>1, <1>2, <1>3, <1>4, <1>7, <2>1, <2>3, RolesStill
    <3> QED
      BY <2>2, <3>1 DEF Known
  <2>4. CASE q.kind = "users"
    <3>1. Of(RoleKinds) = {} /\ \A p \in calls' : p.kind \notin RoleKinds
      BY <1>2, <1>3, <2>4 DEF Quiet, Of, RoleKinds
    <3>2. ChangesKnown'
      BY <3>1 DEF ChangesKnown, Of, RoleKinds
    <3>3. OwnRoleKnown'
      BY <1>1, <1>4, <2>1, <3>1, OwnRole DEF Known, OwnRoleKnown
    <3>4. \A p \in calls' : p.kind = "users" => p = m
      BY <1>3, <2>4 DEF Typed, CallsOK, ReadKinds
    <3>5. MembersRead' /\ m \in Of({"users"})'
      BY <1>1, <1>2, <2>1, <2>4, <3>4 DEF MembersRead, Of
    <3>6. RowsKnown'
      BY <3>5 DEF RowsKnown
    <3> QED
      BY <2>2, <3>2, <3>3, <3>5, <3>6 DEF Known
  <2> QED
    BY <2>3, <2>4
<1> QED
  BY <1>6, <1>7

\* A request fails.
LEMMA KnownFail ==
  ASSUME Known, NEW q \in calls, Fail(q)
  PROVE  Known'
<1>1. /\ calls' = calls \ {q}
      /\ UNCHANGED <<roles, pending, user, stored, page, rows>>
      /\ list' = IF q.kind = "invites" THEN NoInvites ELSE list
      /\ missed' = IF q.answered \/ q.kind \in ReadKinds THEN missed \cup Topics(q) ELSE missed
  BY DEF Fail, server
<1>2. ChangesKnown' /\ OwnRoleKnown' /\ MembersRead' /\ RowsKnown'
  <2>1. CASE q.kind \in RoleKinds /\ q.answered
    <3>1. "role" \in missed' /\ "users" \in missed'
      BY <1>1, <2>1 DEF Topics
    <3> QED
      BY <3>1 DEF ChangesKnown, OwnRoleKnown, MembersRead, RowsKnown
  <2>2. CASE ~(q.kind \in RoleKinds /\ q.answered)
    <3>1. q.kind = "users" => "users" \in missed'
      BY <1>1 DEF Topics, Heard, ReadKinds, RoleKinds, InviteKinds
    <3>2. missed \subseteq missed'
      BY <1>1
    <3> QED
      BY <1>1, <2>2, <3>1, <3>2, RolesStill
  <2> QED
    BY <2>1, <2>2
<1>3. InvitesKnown'
  <2>1. CASE q.kind = "invites" \/ (q.kind \in InviteKinds /\ q.answered)
    <3>1. "invites" \in missed'
      BY <1>1, <2>1 DEF Topics, Heard, ReadKinds, RoleKinds, InviteKinds
    <3> QED
      BY <3>1 DEF InvitesKnown
  <2>2. CASE ~(q.kind = "invites" \/ (q.kind \in InviteKinds /\ q.answered))
    <3>1. missed \subseteq missed'
      BY <1>1
    <3> QED
      BY <1>1, <2>2, <3>1, InvitesStill DEF Known
  <2> QED
    BY <2>1, <2>2
<1> QED
  BY <1>2, <1>3 DEF Known

\* Somebody else changes roles or invites.
LEMMA KnownChanged ==
  ASSUME Typed, Known,
         \/ \E m \in Members, r \in Role : RoleChanged(m, r)
         \/ \E i \in Invites, r \in InviteRole : InviteChanged(i, r)
  PROVE  Known'
<1>1. ASSUME NEW m \in Members, NEW r \in Role, RoleChanged(m, r) PROVE Known'
  <2>1. /\ roles' = [roles EXCEPT ![m] = r] /\ roles \in [Members -> Role]
        /\ missed' = missed \cup {"users"} \cup (IF m = user THEN {"role"} ELSE {})
        /\ UNCHANGED <<pending, user, stored, page, rows, list, calls>>
    BY <1>1 DEF RoleChanged, shown, Typed, StateOK
  <2>2. "role" \notin missed' => "role" \notin missed /\ m # user
    BY <2>1
  <2>3. "role" \notin missed' => roles'[user] = roles[user]
    BY <2>1, <2>2
  <2>4. ChangesKnown'
    BY <2>1, <2>2, <2>3 DEF Known, ChangesKnown, Of
  <2>5. OwnRoleKnown'
    BY <2>1, <2>2, <2>3 DEF Known, OwnRoleKnown, Of, Tells
  <2>6. MembersRead' /\ RowsKnown'
    BY <2>1 DEF MembersRead, RowsKnown
  <2>7. InvitesKnown'
    BY <2>1, InvitesStill DEF Known
  <2> QED
    BY <2>4, <2>5, <2>6, <2>7 DEF Known
<1>2. ASSUME NEW i \in Invites, NEW r \in InviteRole, InviteChanged(i, r) PROVE Known'
  <2>1. /\ missed' = missed \cup {"invites"}
        /\ UNCHANGED <<roles, user, stored, page, rows, list, calls>>
    BY <1>2 DEF InviteChanged, shown
  <2>2. ChangesKnown' /\ OwnRoleKnown' /\ MembersRead' /\ RowsKnown'
    BY <2>1, RolesStill
  <2>3. InvitesKnown'
    BY <2>1 DEF InvitesKnown
  <2> QED
    BY <2>2, <2>3 DEF Known
<1> QED
  BY <1>1, <1>2

\* Answers.
LEMMA KnownRead ==
  ASSUME Typed, Known, NEW q \in calls,
         UsersLoaded(q) \/ InvitesLoaded(q) \/ DetailsLoaded(q) \/ RenameEnds(q)
  PROVE  Known'
<1>1. /\ calls' = calls \ {q} /\ q.answered
      /\ UNCHANGED <<roles, pending, user, stored, page, missed>>
  BY DEF UsersLoaded, InvitesLoaded, DetailsLoaded, RenameEnds, Answer, server, shown
<1>2. q.kind \notin RoleKinds \cup InviteKinds
  BY DEF UsersLoaded, InvitesLoaded, DetailsLoaded, RenameEnds, Answer, RoleKinds, InviteKinds
<1>3. \A p \in calls : p.kind \in ReadKinds /\ q.kind \in ReadKinds => p = q
  BY DEF Typed, CallsOK
<1>4. ChangesKnown' /\ OwnRoleKnown' /\ MembersRead'
  BY <1>1, <1>2, RolesKept
<1>5. RowsKnown'
  <2>1. CASE UsersLoaded(q)
    <3>1. rows' = q.rows /\ q \in Of({"users"})
      BY <2>1 DEF UsersLoaded, Answer, Of
    <3>2. "users" \notin missed => rows' = roles
      BY <1>1, <3>1 DEF Known, MembersRead
    <3> QED
      BY <1>1, <3>2 DEF RowsKnown
  <2>2. CASE ~UsersLoaded(q)
    <3>1. rows' = rows /\ q.kind # "users"
      BY <2>2 DEF InvitesLoaded, DetailsLoaded, RenameEnds, Answer, shown
    <3> QED
      BY <1>1, <1>2, <3>1, RolesStill
  <2> QED
    BY <2>1, <2>2
<1>6. InvitesKnown'
  <2>1. CASE InvitesLoaded(q)
    <3>1. list' = q.list /\ q.kind = "invites"
      BY <2>1 DEF InvitesLoaded, Answer
    <3>2. \A p \in calls : p.kind = "invites" => p = q
      BY <1>3, <3>1 DEF ReadKinds
    <3>3. Of({"invites"})' = {} /\ q \in Of({"invites"})
      BY <1>1, <3>1, <3>2 DEF Of
    <3>4. CASE \E p \in Of(InviteKinds) : p.answered /\ p.mounted
      <4>1. \E p \in Of(InviteKinds)' : p.answered /\ p.mounted
        BY <1>1, <1>2, <3>4 DEF Of
      <4> QED
        BY <4>1 DEF InvitesKnown
    <3>5. CASE \E r \in Of({"invites"}) : r.answered => r.list = pending
      BY <1>1, <3>1, <3>2, <3>3, <3>5 DEF InvitesKnown, Of
    <3> QED
      BY <1>1, <3>3, <3>4, <3>5 DEF Known, InvitesKnown
  <2>2. CASE ~InvitesLoaded(q)
    <3>1. list' = list /\ q.kind # "invites"
      BY <2>2 DEF UsersLoaded, DetailsLoaded, RenameEnds, Answer, shown
    <3> QED
      BY <1>1, <1>2, <3>1, InvitesStill DEF Known
  <2> QED
    BY <2>1, <2>2
<1> QED
  BY <1>4, <1>5, <1>6 DEF Known

\* The one change of roles has been answered, and nobody is logged out.
LEMMA KnownRoleEnds ==
  ASSUME Typed, Quiet, Known, NEW q \in calls, q.kind \in RoleKinds, q.answered,
         calls' = calls \ {q},
         UNCHANGED <<roles, pending, user, page, list, missed>>,
         user \in Members /\ "role" \notin missed =>
           \/ stored'.role = roles[user]
           \/ stored' = stored /\ ~Tells(q, user),
         page = "members" /\ missed \cap {"users", "role"} = {} =>
           \A m \in Members : \/ rows'[m] \in {Null, roles[m]}
                              \/ rows'[m] = rows[m] /\ ~Tells(q, m)
  PROVE  Known'
<1>1. /\ \A p \in calls : p.kind # "users" /\ (p.kind \in RoleKinds => p = q)
      /\ \A p \in calls' : p.kind \notin RoleKinds \cup {"users"}
  BY DEF Quiet
<1>2. ChangesKnown' /\ MembersRead'
  BY <1>1 DEF ChangesKnown, MembersRead, Of, RoleKinds
<1>3. OwnRoleKnown'
  BY <1>1 DEF Known, OwnRoleKnown, Of
<1>4. RowsKnown'
  <2>1. Of({"users"}) = {} /\ \A p \in Of(RoleKinds) : p = q
    BY <1>1 DEF Of
  <2> QED
    BY <2>1 DEF Known, RowsKnown
<1>5. InvitesKnown'
  BY InvitesStill DEF Known, RoleKinds, InviteKinds
<1> QED
  BY <1>2, <1>3, <1>4, <1>5 DEF Known

LEMMA KnownAnswers ==
  ASSUME Apart, Typed, Quiet, Known, NEW q \in calls,
         ChangeEnds(q) \/ RemovalEnds(q) \/ InviteEnds(q) \/ PortalOpens(q)
  PROVE  Known'
<1>1. /\ OfPage(q) /\ (user \in Members => stored.user = user)
      /\ page # "none" => user \in Members
      /\ rows \in [Members -> Role] /\ roles \in [Members -> Role]
      /\ stored \in [user: Members \cup {Null}, role: Role]
  BY DEF Typed, CallsOK, StateOK
<1>2. CASE ChangeEnds(q)
  <2>1. /\ q.kind = "change" /\ q.answered /\ calls' = calls \ {q} /\ q \in Of({"change"})
        /\ UNCHANGED <<roles, pending, user, page, list, missed>>
        /\ stored' = IF IsOwn(q) THEN [stored EXCEPT !.role = q.role] ELSE stored
        /\ rows' = IF q.mounted /\ rows[q.of] # Null
                   THEN [rows EXCEPT ![q.of] = q.role] ELSE rows
    BY <1>2 DEF ChangeEnds, Answer, server, Of
  <2>2. ASSUME user \in Members, "role" \notin missed
        PROVE  \/ stored'.role = roles[user]
               \/ stored' = stored /\ ~Tells(q, user)
    <3>1. CASE q.of = user
      <4>1. stored'.role = q.role
        BY <1>1, <2>1, <2>2, <3>1 DEF IsOwn
      <4>2. q.role = roles[user]
        BY <2>1, <2>2, <3>1 DEF Known, ChangesKnown
      <4> QED
        BY <4>1, <4>2
    <3>2. CASE q.of # user
      BY <1>1, <2>1, <2>2, <3>2 DEF IsOwn, Tells
    <3> QED
      BY <3>1, <3>2
  <2>3. ASSUME page = "members", missed \cap {"users", "role"} = {}, NEW m \in Members
        PROVE  \/ rows'[m] \in {Null, roles[m]}
               \/ rows'[m] = rows[m] /\ ~Tells(q, m)
    <3>1. CASE q.of = m
      <4>1. q.mounted
        BY <1>1, <2>1, <2>3 DEF Quiet, RoleKinds
      <4>2. q.role = roles[m]
        BY <2>1, <2>3, <3>1 DEF Known, ChangesKnown
      <4> QED
        BY <1>1, <2>1, <3>1, <4>1, <4>2
    <3>2. CASE q.of # m
      BY <1>1, <2>1, <3>2 DEF Tells
    <3> QED
      BY <3>1, <3>2
  <2>4. q.kind \in RoleKinds
    BY <2>1 DEF RoleKinds
  <2> QED
    BY <2>1, <2>2, <2>3, <2>4, KnownRoleEnds
<1>3. CASE RemovalEnds(q)
  <2>1. q.kind \in {"remove", "delete"} /\ q.answered /\ UNCHANGED <<roles, pending, missed>>
    BY <1>3 DEF RemovalEnds, Answer, server
  <2>2. CASE logout(calls \ {q})
    <3>1. /\ user' \notin Members /\ page' = "none" /\ calls' = Detached(calls \ {q})
          /\ calls \ {q} \in SUBSET calls
      BY <2>2 DEF logout, Apart
    <3> QED
      BY <2>1, <3>1, DetachedSame, KnownAway DEF Typed
  <2>3. CASE ~(q.kind = "delete" \/ q.of = q.by)
    <3>1. /\ rows' = IF q.mounted THEN [rows EXCEPT ![q.of] = Null] ELSE rows
          /\ calls' = calls \ {q} /\ UNCHANGED <<user, stored, page, list>>
      BY <1>3, <2>3 DEF RemovalEnds
    <3>2. user \in Members => q.mounted /\ q.by = user
      BY <1>1, <2>1 DEF Quiet, RoleKinds, OfPage
    <3>3. user \in Members => ~Tells(q, user)
      BY <2>1, <2>3, <3>2 DEF Tells
    <3>4. ASSUME page = "members", NEW m \in Members
          PROVE  rows'[m] = Null \/ (rows'[m] = rows[m] /\ ~Tells(q, m))
      <4>1. q.mounted
        BY <1>1, <3>2, <3>4
      <4> QED
        BY <1>1, <2>1, <2>3, <3>1, <4>1 DEF Tells
    <3>5. q.kind \in RoleKinds
      BY <2>1 DEF RoleKinds
    <3> QED
      BY <2>1, <3>1, <3>3, <3>4, <3>5, KnownRoleEnds
  <2> QED
    BY <1>3, <2>2, <2>3 DEF RemovalEnds
<1>4. CASE InviteEnds(q)
  <2>1. /\ q.kind \in InviteKinds /\ q.answered
        /\ UNCHANGED <<roles, pending, user, stored, page, rows, list, missed>>
    BY <1>4 DEF InviteEnds, Answer, server, shown
  <2>2. q.kind \notin RoleKinds \cup {"users", "invites"}
    BY <2>1 DEF RoleKinds, InviteKinds
  <2>3. CASE ~q.mounted
    <3>1. calls' = calls \ {q}
      BY <1>4, <2>3 DEF InviteEnds
    <3>2. ChangesKnown' /\ OwnRoleKnown' /\ MembersRead' /\ RowsKnown'
      BY <2>1, <2>2, <3>1, RolesStill
    <3>3. InvitesKnown'
      BY <2>1, <2>2, <2>3, <3>1, InvitesStill DEF Known
    <3> QED
      BY <3>2, <3>3 DEF Known
  <2>4. CASE q.mounted
    <3>1. page = "invites" /\ user \in Members
      BY <1>1, <2>1, <2>4 DEF OfPage, PageOf, InviteKinds, RoleKinds
    <3>2. PICK new : new = Read("invites", user)
      OBVIOUS
    <3>3. new.kind = "invites" /\ ~new.answered
      BY <3>1, <3>2, ReadOK DEF ReadKinds
    <3>4. calls' = {c \in calls \ {q} : c.kind \notin ReadKinds} \cup {new}
      BY <1>4, <2>4, <3>2 DEF InviteEnds, Superseded
    <3>5. ChangesKnown' /\ OwnRoleKnown' /\ MembersRead'
      <4>1. \A c \in calls : c.kind \in RoleKinds => c \in calls'
        BY <2>2, <3>4 DEF RoleKinds, ReadKinds
      <4>2. \A c \in calls' : c = new \/ c \in calls
        BY <3>4
      <4> QED
        BY <2>1, <3>3, <4>1, <4>2, RolesKept
    <3>6. RowsKnown'
      BY <2>1, <3>1 DEF RowsKnown
    <3>7. InvitesKnown'
      BY <3>3, <3>4 DEF InvitesKnown, Of
    <3> QED
      BY <3>5, <3>6, <3>7 DEF Known
  <2> QED
    BY <2>3, <2>4
<1>5. CASE PortalOpens(q)
  <2>1. /\ UNCHANGED <<roles, pending, user, stored>>
        /\ missed' = missed \cup UNION {Topics(c) : c \in Writes}
    BY <1>5 DEF PortalOpens, server
  <2>2. \A c \in calls' : c.kind \notin RoleKinds \cup {"users"}
    <3>1. CASE user \in Members
      <4>1. Read("billing", user).kind = "billing"
        BY <3>1, ReadOK DEF ReadKinds
      <4>2. \A c \in calls' : c = Read("billing", user)
        BY <1>5, <3>1 DEF PortalOpens
      <4> QED
        BY <4>1, <4>2 DEF RoleKinds
    <3>2. CASE user \notin Members
      BY <1>5, <3>2 DEF PortalOpens
    <3> QED
      BY <3>1, <3>2
  <2>3. page' \notin {"members", "invites"}
    BY <1>1, <1>5 DEF PortalOpens, shown
  <2>4. ChangesKnown' /\ MembersRead'
    BY <2>2 DEF ChangesKnown, MembersRead, Of, RoleKinds
  <2>5. RowsKnown' /\ InvitesKnown'
    BY <2>3 DEF RowsKnown, InvitesKnown
  <2>6. OwnRoleKnown'
    <3>1. ASSUME NEW c \in Of(RoleKinds) PROVE "role" \in missed'
      <4>1. c \in Writes /\ "role" \in Topics(c)
        BY DEF Of, Writes, Topics, RoleKinds, ReadKinds
      <4> QED
        BY <2>1, <4>1
    <3> QED
      BY <2>1, <3>1 DEF Known, OwnRoleKnown
  <2> QED
    BY <2>4, <2>5, <2>6 DEF Known
<1> QED
  BY <1>2, <1>3, <1>4, <1>5

LEMMA KnownNext ==
  ASSUME Apart, Patient, Typed, Quiet, Known, [OPNext]_opVars
  PROVE  Known'
<1>1. CASE UNCHANGED opVars
  BY <1>1 DEF opVars, Known, ChangesKnown, OwnRoleKnown, MembersRead, RowsKnown,
              InvitesKnown, Of, Tells
<1>2. CASE OPNext
  BY <1>2, NextSplit, KnownUser, KnownOffer, KnownHandle, KnownFail, KnownChanged,
     KnownRead, KnownAnswers
<1> QED
  BY <1>1, <1>2

\* What a patient user's pages may rely on.
LEMMA AlwaysKnown ==
  ASSUME Apart, MaxChanges \in Nat, Patient
  PROVE  OPSpec => [](Typed /\ Quiet /\ Known)
<1>1. OPInit => Typed /\ Quiet /\ Known
  BY TypedInit, KnownInit
<1>2. Typed /\ Quiet /\ Known /\ [OPNext]_opVars => Typed' /\ Quiet' /\ Known'
  BY TypedNext, QuietNext, KnownNext
<1> QED
  BY <1>1, <1>2, PTL DEF OPSpec

\* The role in localStorage is the one that the member who is signed in has, with
\* nothing under way that changes it: whoever was signed in before, unless somebody
\* else changed it or an answer was lost (AuthForm.tsx, changeUserRole.ts).
THEOREM OwnRoleStaysCurrent ==
  ASSUME Apart, MaxChanges \in Nat, Patient
  PROVE  OPSpec => []OwnRoleIsCurrent
<1>1. Known => OwnRoleIsCurrent
  BY OwnRole DEF Known, OwnRoleIsCurrent
<1> QED
  BY <1>1, AlwaysKnown, PTL

\* What a page lists is what the server has, once nothing is under way: however
\* writes, reloads, searches and logins overlapped (organizationMembers.tsx,
\* organizationInvites.tsx).
THEOREM PagesStayCurrent ==
  ASSUME Apart, MaxChanges \in Nat, Patient
  PROVE  OPSpec => []PageIsCurrent
<1>1. ASSUME Known PROVE PageIsCurrent
  <2>1. ASSUME page = "members", missed \cap {"users", "role"} = {},
               Of(RoleKinds \cup {"users"}) = {}
        PROVE  \A m \in Members : rows[m] \in {Null, roles[m]}
    BY <1>1, <2>1 DEF Known, RowsKnown, Of
  <2>2. ASSUME page = "invites", "invites" \notin missed,
               Of(InviteKinds \cup {"invites", "delete"}) = {}
        PROVE  list = pending
    BY <1>1, <2>2 DEF Known, InvitesKnown, Of
  <2> QED
    BY <2>1, <2>2 DEF PageIsCurrent
<1> QED
  BY <1>1, AlwaysKnown, PTL

=============================================================================
