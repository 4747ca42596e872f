--------------------------- MODULE WarehousePage ---------------------------
(***************************************************************************)
(* The page on which a user switches between warehouses, creates one, and  *)
(* manages the members of the active one.                                  *)
(*                                                                         *)
(* The server acts on the warehouse that the access cookie names.  The     *)
(* page shows a heading of its own, keeps what it knows in localStorage,   *)
(* and the two meet only in the answers that set the cookie: those to a    *)
(* switch, to a creation and to a renewal of the session, which keeps the  *)
(* warehouse of the cookie it was sent with.                               *)
(*                                                                         *)
(* One tab.  Of the members of a warehouse only the user is told apart;    *)
(* how the server decides about the writes is the subject of Warehouse.    *)
(***************************************************************************)
EXTENDS Naturals, FiniteSets

CONSTANTS
  Warehouses,
  Roles,      \* WarehouseRole, or the part of it that is looked at
  MaxCalls,   \* bound on the calls of the page that may be under way
  MaxChanges, \* bound on what others do to the user's roles
  Patient,    \* does the user wait for the answer to a switch or a write?
  Unset        \* not among the values it stands beside

VARIABLES
  roles,    \* the user's role in each warehouse, at the server
  cookie,   \* activeWarehouseId of the access cookie
  stored,   \* localStorage: activeWarehouse, activeRole, userWarehouses
  heading,  \* the page's activeWarehouse
  rows,     \* the warehouses that the rows on the page were read from
  stale,    \* did the last load fail?
  calls,    \* the calls of the page under way
  renewal,  \* POST /auth/refresh, and the warehouse it was sent with
  changes,  \* the number of changes others have made
  astray    \* history: the last switch missed the cookie

wpVars == <<roles, cookie, stored, heading, rows, stale, calls, renewal, changes,
           astray>>

Choice == Warehouses \cup {Unset}

Role == Roles \cup {Unset}

\* in: the warehouse of the cookie it carries, or the one to switch to or created.
\* role: what it asks for, and then what it is answered.
Call == [kind: {"load", "select", "create", "add", "change", "changeOwn"},
         in: Choice, role: Role, step: {"sent", "waiting", "repeated", "done"},
         mounted: BOOLEAN]

Renewal == [in: Choice, step: {"no", "sent", "done"}]

NoRenewal == [in |-> Unset, step |-> "no"]

server == <<roles, changes>>

browser == <<cookie, stored, heading, rows, stale, calls, renewal, astray>>

(***************************************************************************)
(* Calls                                                                   *)
(***************************************************************************)
NewCall(kind, w, r) ==
  [kind |-> kind, in |-> w, role |-> r, step |-> "sent", mounted |-> TRUE]

Loads == {q \in calls : q.kind = "load"}

Switching == {q \in calls : q.kind \in {"select", "create"}}

Ready ==
  /\ Cardinality(calls \ Loads) < MaxCalls
  /\ Patient => calls = Loads

\* Mutant: controller.abort() is missing.
BugSuperseded(q) == FALSE

\* controller.abort()
Superseded(q) == q.kind = "load"

\* The effect of the page: getUsers, with the role in localStorage.
Effect(known, w, others) ==
  IF known.role \in {"admin", "manager"}
  THEN /\ calls' = {q \in others : ~Superseded(q)} \cup {NewCall("load", cookie', Unset)}
       /\ UNCHANGED <<rows, stale>>
  ELSE /\ calls' = {q \in others : ~Superseded(q)}
       /\ rows' = IF known.role = "staff" THEN {w} ELSE {}
       /\ stale' = FALSE

\* The role of a warehouse that userWarehouses names.
getWarehouseFromWarehouseId(w) ==
  [in |-> w, role |-> IF w = Unset THEN Unset ELSE stored.list[w]]

\* After POST /login: the first warehouse is the active one.
WPInit ==
  /\ roles \in [Warehouses -> Role]
  /\ LET own == {w \in Warehouses : roles[w] # Unset} IN
     \E w \in Choice :
       /\ w \in own \/ (w = Unset /\ own = {})
       /\ cookie = w
       /\ stored = [active |-> w, role |-> IF w = Unset THEN Unset ELSE roles[w],
                    list |-> roles]
       /\ heading = [in |-> w, role |-> stored.role]
       /\ rows = IF stored.role = "staff" THEN {w} ELSE {}
       /\ calls = IF stored.role \in {"admin", "manager"}
                  THEN {NewCall("load", w, Unset)} ELSE {}
  /\ stale = FALSE
  /\ renewal = NoRenewal
  /\ changes = 0
  /\ astray = FALSE

(***************************************************************************)
(* What the user does                                                      *)
(***************************************************************************)
Send(q) ==
  /\ Ready
  /\ calls' = calls \cup {q}
  /\ UNCHANGED <<server, cookie, stored, heading, rows, stale, renewal, astray>>

\* handleChange of the selector.
Switch(w) ==
  /\ stored.list[w] # Unset /\ w # heading.in
  /\ Send(NewCall("select", w, Unset))

\* w will be the identifier of the new warehouse.
handleAddWarehouse(w) ==
  /\ roles[w] = Unset /\ stored.list[w] = Unset
  /\ Send(NewCall("create", w, Unset))

addUser == heading.role \in {"admin", "manager"} /\ Send(NewCall("add", cookie, Unset))

\* The role of somebody in the table is changed; only the user's own is told apart.
changeUserRole(kind, r) ==
  /\ heading.role = "admin" /\ rows # {}
  /\ kind = "changeOwn" => r \in Roles \ {heading.role}
  /\ kind = "change" => r = Unset
  /\ Send(NewCall(kind, cookie, r))

\* The search term has changed.
Search ==
  /\ UNCHANGED <<server, cookie, stored, heading, renewal, astray>>
  /\ Effect(stored, heading.in, calls)

\* The page is left and opened again.  Its calls go on, and can no longer change
\* what it shows.
OpenPage ==
  /\ Patient => calls = Loads
  /\ heading' = getWarehouseFromWarehouseId(stored.active)
  /\ IF stored.role \in {"admin", "manager"}
     THEN /\ calls' = {[q EXCEPT !.mounted = FALSE] : q \in calls \ Loads}
                        \cup {NewCall("load", cookie, Unset)}
          /\ rows' = {}
     ELSE /\ calls' = {[q EXCEPT !.mounted = FALSE] : q \in calls \ Loads}
          /\ rows' = IF stored.role = "staff" THEN {stored.active} ELSE {}
  /\ stale' = FALSE
  /\ UNCHANGED <<server, cookie, stored, renewal, astray>>

(***************************************************************************)
(* The server                                                              *)
(***************************************************************************)
Manages(w) == w # Unset /\ roles[w] \in {"admin", "manager"}

Allowed(q) ==
  CASE q.kind = "load" -> Manages(q.in)
    [] q.kind = "add" -> Manages(q.in)
    [] q.kind \in {"change", "changeOwn"} -> q.in # Unset /\ roles[q.in] = "admin"
    [] q.kind = "create" -> roles[q.in] = Unset
    [] q.kind = "select" -> TRUE

Granted(q) ==
  CASE q.kind = "create" -> "admin"
    [] q.kind = "select" -> roles[q.in]
    [] OTHER -> q.role

Answered(q) == [q EXCEPT !.step = "done", !.role = Granted(q)]

Handle(q) ==
  /\ q \in calls /\ q.step \in {"sent", "repeated"}
  /\ Allowed(q)
  /\ calls' = (calls \ {q}) \cup {Answered(q)}
  /\ roles' = IF q.kind \in {"create", "changeOwn"}
              THEN [roles EXCEPT ![q.in] = Granted(q)] ELSE roles
  /\ UNCHANGED <<changes, cookie, stored, heading, rows, stale, renewal, astray>>

\* A guard refuses, something fails, or the request or its answer is lost.
Fail(q) ==
  /\ q \in calls /\ q.step # "waiting"
  /\ calls' = calls \ {q}
  /\ stale' = (stale \/ q.kind = "load")
  /\ UNCHANGED <<server, cookie, stored, heading, rows, renewal, astray>>

\* The access token has expired.
Refuse(q) ==
  /\ q \in calls /\ q.step = "sent"
  /\ calls' = (calls \ {q}) \cup {[q EXCEPT !.step = "waiting"]}
  /\ renewal' = IF renewal.step = "no" THEN [in |-> cookie, step |-> "sent"] ELSE renewal
  /\ UNCHANGED <<server, cookie, stored, heading, rows, stale, astray>>

\* Mutant: the renewed token names the first warehouse of the user, as after a login.
BugFindActiveWarehouse(w) ==
  IF \E v \in Warehouses : roles[v] # Unset
  THEN CHOOSE v \in Warehouses : roles[v] # Unset ELSE Unset

\* The warehouse of the presented cookie, as long as the user has a role in it.
findActiveWarehouse(w) == IF w # Unset /\ roles[w] # Unset THEN w ELSE Unset

Renew ==
  /\ renewal.step = "sent"
  /\ renewal' = [in |-> findActiveWarehouse(renewal.in), step |-> "done"]
  /\ UNCHANGED <<server, cookie, stored, heading, rows, stale, calls, astray>>

\* Somebody else gives the user a role, or removes it.
RoleChanged(w, r) ==
  /\ r # roles[w] /\ changes < MaxChanges
  /\ changes' = changes + 1
  /\ roles' = [roles EXCEPT ![w] = r]
  /\ UNCHANGED browser

(***************************************************************************)
(* Answers                                                                 *)
(***************************************************************************)
WithCookie(q) == q.kind \notin {"select", "create"}

Resume(q, w) ==
  IF q.step # "waiting" THEN q
  ELSE [q EXCEPT !.step = "repeated", !.in = IF WithCookie(q) THEN w ELSE @]

\* The cookie is stored, and the calls that waited are repeated with it.
Renewed ==
  /\ renewal.step = "done"
  /\ cookie' = renewal.in
  /\ renewal' = NoRenewal
  /\ calls' = {Resume(q, renewal.in) : q \in calls}
  /\ UNCHANGED <<server, stored, heading, rows, stale, astray>>

\* It fails, or ends the session and clears the cookies; so does every call that
\* waited for it.
RenewalFails ==
  /\ renewal.step # "no"
  /\ cookie' \in {cookie, Unset}
  /\ renewal' = NoRenewal
  /\ LET failed == {q \in calls : q.step = "waiting"} IN
     /\ calls' = calls \ failed
     /\ stale' = (stale \/ failed \cap Loads # {})
  /\ UNCHANGED <<server, stored, heading, rows, astray>>

Gone(q) == calls \ {q}

\* setActiveWarehouse, and the effect it causes, if the page is still there.
ShowWarehouse(q, w, r) ==
  IF q.mounted
  THEN heading' = [in |-> w, role |-> r] /\ Effect(stored', w, Gone(q))
  ELSE calls' = Gone(q) /\ UNCHANGED <<heading, rows, stale>>

\* Mutant: the answer does not set the cookie.
BugSelected(q) == cookie

\* sendAccessToken; a user without a role is answered an error with status 201.
Selected(q) == IF q.role # Unset THEN q.in ELSE cookie

\* The answer to a switch.
SwitchEnds(q) ==
  /\ q \in calls /\ q.kind = "select" /\ q.step = "done"
  /\ cookie' = Selected(q)
  /\ stored' = [stored EXCEPT !.active = q.in, !.role = q.role]
  /\ ShowWarehouse(q, q.in, q.role)
  /\ astray' = (q.role = Unset \/ renewal.step # "no")
  /\ UNCHANGED <<server, renewal>>

\* The answer to a creation.
CreateEnds(q) ==
  /\ q \in calls /\ q.kind = "create" /\ q.step = "done"
  /\ cookie' = q.in
  /\ stored' = [active |-> q.in, role |-> q.role,
                list |-> [stored.list EXCEPT ![q.in] = q.role]]
  /\ ShowWarehouse(q, q.in, q.role)
  /\ astray' = (renewal.step # "no")
  /\ UNCHANGED <<server, renewal>>

LoadEnds(q) ==
  /\ q \in calls /\ q.kind = "load" /\ q.step = "done"
  /\ rows' = {q.in} /\ stale' = FALSE
  /\ calls' = Gone(q)
  /\ UNCHANGED <<server, cookie, stored, heading, renewal, astray>>

AddEnds(q) ==
  /\ q \in calls /\ q.kind = "add" /\ q.step = "done"
  /\ rows' = IF q.mounted THEN rows \cup {q.in} ELSE rows
  /\ calls' = Gone(q)
  /\ UNCHANGED <<server, cookie, stored, heading, stale, renewal, astray>>

\* Mutant: without the comparison of user names.
BugIsOwn(q) == TRUE

IsOwn(q) == q.kind = "changeOwn"

Relisted(q) ==
  IF stored.active = Unset THEN stored.list
  ELSE [stored.list EXCEPT ![stored.active] = IF @ = Unset THEN Unset ELSE q.role]

\* The user's own role is written to localStorage, for the warehouse that is the
\* active one by now.
ChangeEnds(q) ==
  /\ q \in calls /\ q.kind \in {"change", "changeOwn"} /\ q.step = "done"
  /\ IF IsOwn(q)
     THEN /\ stored' = [stored EXCEPT !.role = q.role, !.list = Relisted(q)]
          /\ UNCHANGED cookie
          /\ ShowWarehouse(q, heading.in, q.role)
     ELSE calls' = Gone(q) /\ UNCHANGED <<cookie, stored, heading, rows, stale>>
  /\ UNCHANGED <<server, renewal, astray>>

WPNext ==
  \/ \E w \in Warehouses : Switch(w) \/ handleAddWarehouse(w)
  \/ \E w \in Warehouses, r \in Role : RoleChanged(w, r)
  \/ \E r \in Role, kind \in {"change", "changeOwn"} : changeUserRole(kind, r)
  \/ addUser \/ Search \/ OpenPage
  \/ \E q \in calls : Handle(q) \/ Fail(q) \/ Refuse(q)
  \/ Renew \/ Renewed \/ RenewalFails
  \/ \E q \in calls : SwitchEnds(q) \/ CreateEnds(q) \/ LoadEnds(q) \/ AddEnds(q)
                        \/ ChangeEnds(q)

WPSpec == WPInit /\ [][WPNext]_wpVars

(***************************************************************************)
(* Properties                                                              *)
(***************************************************************************)
\* The variables have their types, one load is under way at most, and a call waits
\* only for a renewal that is.
WPTypeOK ==
  /\ roles \in [Warehouses -> Role]
  /\ cookie \in Choice
  /\ stored \in [active: Choice, role: Role, list: [Warehouses -> Role]]
  /\ heading \in [in: Choice, role: Role]
  /\ rows \subseteq Choice
  /\ stale \in BOOLEAN
  /\ calls \subseteq Call
  /\ Cardinality(Loads) <= 1
  /\ renewal \in Renewal
  /\ \A q \in calls : q.step = "waiting" => renewal.step # "no"
  /\ changes \in 0..MaxChanges
  /\ astray \in BOOLEAN

\* Whatever was renewed, refused or opened again since the last switch, the server
\* acts on the warehouse of the heading or on none: unless a renewal was under way
\* when the switch was answered, or the user had lost the role in that warehouse.
ActsOnHeading == ~astray => cookie \in {heading.in, Unset}

\* The rows are members of the warehouse of the heading, unless a load is under
\* way or has failed.
RowsOfHeading == ~astray /\ Loads = {} /\ ~stale => rows \subseteq {heading.in}

\* A role is remembered for a warehouse only by the answer to a change of the
\* user's role in that warehouse.
RolesRememberedWhereGiven ==
  [][~astray => \A w \in Warehouses :
       stored.list[w] # stored'.list[w] =>
         \E q \in calls \ calls' :
            q.step = "done" /\ q.in = w /\ q.kind \in {"create", "changeOwn"}]_wpVars

=============================================================================
