---------------------------- MODULE Registration ----------------------------
(***************************************************************************)
(* How accounts come to be: somebody registers an organization through a   *)
(* link mailed to them, or accepts an invite to one organization, while its *)
(* administrators send, resend and revoke invites and its owner deletes it. *)
(*                                                                         *)
(* Every request runs in a READ COMMITTED transaction; one statement is one *)
(* action, and the last write of a transaction is merged with its commit.   *)
(* The row of an invite keeps its identity, address and kind; an invite is  *)
(* named by the token it was first sent with.                              *)
(***************************************************************************)
EXTENDS FiniteSets

CONSTANTS
  Emails, Usernames,
  Tokens,     \* hashes of the links that may be drawn, and so the invites
  Accounts,   \* user ids that may be drawn
  Requests,   \* requests that may be in flight
  None

ASSUME NoneAssumption ==
  None \notin Emails \cup Usernames \cup Tokens \cup Accounts \cup Requests

VARIABLES
  org,        \* does the row of the organization exist?
  orgLock,    \* the deletion that holds it, or None
  drawn,      \* tokens drawn so far
  email,      \* the address of an invite, or None
  forOrg,     \* is it an invite to the organization, or to register one?
  invite,     \* what else its row says, or None
  lock,       \* the request that holds its row, or None
  account,    \* table "user": the row of an account, or None
  member,     \* table user_org_role: the accounts in the organization
  pc,         \* the next statement of a request
  req         \* what a request carries

vars == <<org, orgLock, drawn, email, forOrg, invite, lock, account, member, pc, req>>

Invite == [token: Tokens, consumed: BOOLEAN, expired: BOOLEAN]

Account == [invite: Tokens, username: Usernames]

Request == [invite: Tokens \cup {None}, email: Emails \cup {None},
            username: Usernames \cup {None}, account: Accounts \cup {None},
            token: Tokens \cup {None}, forOrg: BOOLEAN,
            gone: BOOLEAN, reset: BOOLEAN, found: SUBSET Accounts]

Steps == {"idle", "drop", "insert", "checkEmail", "checkUsername", "create", "commit",
          "reload", "save", "revoke", "deleteOrg", "cascade", "commitDelete"}

NoRequest == [invite |-> None, email |-> None, username |-> None, account |-> None,
              token |-> None, forOrg |-> FALSE, gone |-> FALSE, reset |-> FALSE,
              found |-> {}]

Init ==
  /\ org = TRUE /\ orgLock = None
  /\ drawn = {}
  /\ email = [i \in Tokens |-> None]
  /\ forOrg = [i \in Tokens |-> FALSE]
  /\ invite = [i \in Tokens |-> None]
  /\ lock = [i \in Tokens |-> None]
  /\ account = [a \in Accounts |-> None]
  /\ member = {}
  /\ pc = [r \in Requests |-> "idle"]
  /\ req = [r \in Requests |-> NoRequest]

tables == <<org, drawn, email, forOrg, invite, account, member>>

locks == <<orgLock, lock>>

Goto(r, step) == pc' = [pc EXCEPT ![r] = step]

\* The transaction ends, committed or not, and its locks with it.
End(r) ==
  /\ Goto(r, "idle")
  /\ req' = [req EXCEPT ![r] = NoRequest]
  /\ lock' = [i \in Tokens |-> IF lock[i] = r THEN None ELSE lock[i]]
  /\ orgLock' = IF orgLock = r THEN None ELSE orgLock

EmailTaken(e) == \E a \in Accounts : account[a] # None /\ email[account[a].invite] = e

UsernameTaken(n) == \E a \in Accounts : account[a] # None /\ account[a].username = n

Pending(i) == invite[i] # None /\ ~invite[i].consumed

\* Mutant: invites and roles have no foreign key to the organization.
BugReferable == TRUE

\* A foreign key to the organization waits for its deletion to end.
Referable == orgLock = None

(***************************************************************************)
(* Sending a link                                                          *)
(***************************************************************************)
Send(r, step, e, toOrg) ==
  /\ pc[r] = "idle"
  /\ Goto(r, step)
  /\ req' = [req EXCEPT ![r].email = e, ![r].forOrg = toOrg]
  /\ UNCHANGED <<tables, locks>>

\* POST /organizations/invites and POST /register refuse an address in use ...
inviteOrganizationUser(r, e) == org /\ ~EmailTaken(e) /\ Send(r, "drop", e, TRUE)

inviteOrganizationRegister(r, e) == ~EmailTaken(e) /\ Send(r, "insert", e, FALSE)

\* ... POST /warehouses/invites does not, and drops no older invites.
inviteWarehouseUser(r, e) == org /\ Send(r, "insert", e, TRUE)

\* Older invites it can see are deleted; those consumed meanwhile are kept.
DropOlder(r) ==
  LET older == {i \in Tokens : Pending(i) /\ forOrg[i] /\ email[i] = req[r].email} IN
  /\ pc[r] = "drop"
  /\ \A i \in older : lock[i] = None
  /\ lock' = [i \in Tokens |-> IF i \in older THEN r ELSE lock[i]]
  /\ Goto(r, "insert")
  /\ UNCHANGED <<tables, orgLock, req>>

InsertInvite(r) ==
  LET q == req[r] IN
  /\ pc[r] = "insert"
  /\ q.forOrg => Referable
  /\ IF q.forOrg /\ ~org
     THEN UNCHANGED <<drawn, email, forOrg, invite>>
     ELSE \E t \in Tokens \ drawn :
            /\ drawn' = drawn \cup {t}
            /\ email' = [email EXCEPT ![t] = q.email]
            /\ forOrg' = [forOrg EXCEPT ![t] = q.forOrg]
            /\ invite' = [i \in Tokens |->
                 IF i = t THEN [token |-> t, consumed |-> FALSE, expired |-> FALSE]
                 ELSE IF lock[i] = r THEN None ELSE invite[i]]
  /\ End(r)
  /\ UNCHANGED <<org, account, member>>

Expire(i) ==
  /\ invite[i] # None /\ ~invite[i].expired
  /\ lock[i] = None
  /\ invite' = [invite EXCEPT ![i].expired = TRUE]
  /\ UNCHANGED <<org, drawn, email, forOrg, account, member, locks, pc, req>>

(***************************************************************************)
(* Resending and revoking                                                  *)
(***************************************************************************)
\* findManageableInvite; resendInvite then draws a new token.
FindInvite(r, i, step) ==
  /\ pc[r] = "idle"
  /\ org /\ Pending(i) /\ forOrg[i]
  /\ Goto(r, step)
  /\ IF step = "reload"
     THEN \E t \in Tokens \ drawn :
            /\ drawn' = drawn \cup {t}
            /\ req' = [req EXCEPT ![r].invite = i, ![r].token = t]
     ELSE /\ req' = [req EXCEPT ![r].invite = i]
          /\ UNCHANGED drawn
  /\ UNCHANGED <<org, email, forOrg, invite, account, member, locks>>

\* save loads the row again: it will insert the row if it finds none, and write
\* consumed_at back if it differs.
ReloadInvite(r) ==
  LET i == req[r].invite IN
  /\ pc[r] = "reload"
  /\ req' = [req EXCEPT ![r].gone = invite[i] = None,
                        ![r].reset = invite[i] # None /\ ~Pending(i)]
  /\ Goto(r, "save")
  /\ UNCHANGED <<tables, locks>>

SaveInvite(r) ==
  LET q == req[r]  i == q.invite IN
  /\ pc[r] = "save"
  /\ lock[i] = None
  /\ q.gone => Referable
  /\ invite' = [invite EXCEPT ![i] =
       IF q.gone /\ org
       THEN [token |-> q.token, consumed |-> FALSE, expired |-> FALSE]
       ELSE IF @ = None THEN None
       ELSE [token |-> q.token, consumed |-> @.consumed /\ ~q.reset, expired |-> FALSE]]
  /\ End(r)
  /\ UNCHANGED <<org, drawn, email, forOrg, account, member>>

\* DELETE FROM invite, whether consumed in the meantime or not.
RevokeInvite(r) ==
  LET i == req[r].invite IN
  /\ pc[r] = "revoke"
  /\ lock[i] = None
  /\ invite' = [invite EXCEPT ![i] = None]
  /\ End(r)
  /\ UNCHANGED <<org, drawn, email, forOrg, account, member>>

(***************************************************************************)
(* Following a link: POST /invites/accept and POST /organizations/register *)
(***************************************************************************)
\* Mutant: SELECT without FOR UPDATE.
BugHold(i, r) == UNCHANGED lock

Hold(i, r) == lock' = [lock EXCEPT ![i] = r]

\* consume_invite locks the row until the transaction ends.
consume_invite(r, i, name) ==
  /\ pc[r] = "idle"
  /\ lock[i] = None
  /\ Pending(i) /\ ~invite[i].expired
  /\ Hold(i, r)
  /\ req' = [req EXCEPT ![r].invite = i, ![r].email = email[i], ![r].username = name,
                        ![r].forOrg = forOrg[i]]
  /\ Goto(r, "checkEmail")
  /\ UNCHANGED <<tables, orgLock>>

CheckEmail(r) ==
  /\ pc[r] = "checkEmail"
  /\ IF EmailTaken(req[r].email) THEN End(r)
     ELSE /\ Goto(r, IF req[r].forOrg THEN "create" ELSE "checkUsername")
          /\ UNCHANGED <<locks, req>>
  /\ UNCHANGED tables

\* Only createOrganization looks at the username.
CheckUsername(r) ==
  /\ pc[r] = "checkUsername"
  /\ IF UsernameTaken(req[r].username) THEN End(r)
     ELSE Goto(r, "create") /\ UNCHANGED <<locks, req>>
  /\ UNCHANGED tables

\* Who has inserted a role of the organization holds its row against deletion.
KeyShare(r) == pc[r] = "commit" /\ req[r].forOrg

\* Mutant: the role is granted to an account that has no id yet.
BugCreateAccount(r) ==
  /\ pc[r] = "create"
  /\ Goto(r, "commit")
  /\ UNCHANGED <<tables, locks, req>>

\* Inserts the account and, with grant_invite_role, its role.
CreateAccount(r) ==
  /\ pc[r] = "create"
  /\ req[r].forOrg => Referable
  /\ IF req[r].forOrg /\ ~org THEN End(r)
     ELSE /\ \E a \in Accounts :
               /\ account[a] = None /\ \A s \in Requests : req[s].account # a
               /\ req' = [req EXCEPT ![r].account = a]
          /\ Goto(r, "commit")
          /\ UNCHANGED locks
  /\ UNCHANGED tables

CommitAccount(r) ==
  LET q == req[r] IN
  /\ pc[r] = "commit"
  /\ account' = [account EXCEPT ![q.account] =
                   [invite |-> q.invite, username |-> q.username]]
  /\ member' = IF q.forOrg THEN member \cup {q.account} ELSE member
  /\ invite' = [invite EXCEPT ![q.invite] =
                  IF @ = None THEN None ELSE [@ EXCEPT !.consumed = TRUE]]
  /\ End(r)
  /\ UNCHANGED <<org, drawn, email, forOrg>>

(***************************************************************************)
(* DELETE /organizations                                                   *)
(***************************************************************************)
\* The members of the moment, whose accounts the next statement deletes.
FindMembers(r) ==
  /\ pc[r] = "idle" /\ org
  /\ req' = [req EXCEPT ![r].found = member]
  /\ Goto(r, "deleteOrg")
  /\ UNCHANGED <<tables, locks>>

DeleteOrganization(r) ==
  /\ pc[r] = "deleteOrg"
  /\ orgLock = None /\ \A s \in Requests : ~KeyShare(s)
  /\ IF org THEN orgLock' = r /\ Goto(r, "cascade") /\ UNCHANGED <<lock, req>>
     ELSE End(r)
  /\ UNCHANGED tables

Cascade(r) ==
  LET invites == {i \in Tokens : invite[i] # None /\ forOrg[i]} IN
  /\ pc[r] = "cascade"
  /\ \A i \in invites : lock[i] = None
  /\ lock' = [i \in Tokens |-> IF i \in invites THEN r ELSE lock[i]]
  /\ Goto(r, "commitDelete")
  /\ UNCHANGED <<tables, orgLock, req>>

CommitDelete(r) ==
  /\ pc[r] = "commitDelete"
  /\ org' = FALSE
  /\ account' = [a \in Accounts |-> IF a \in req[r].found THEN None ELSE account[a]]
  /\ member' = {}
  /\ invite' = [i \in Tokens |-> IF lock[i] = r THEN None ELSE invite[i]]
  /\ End(r)
  /\ UNCHANGED <<drawn, email, forOrg>>

\* A statement or the process fails, or Postgres breaks a deadlock.
Rollback(r) ==
  /\ pc[r] # "idle"
  /\ End(r)
  /\ UNCHANGED tables

Next ==
  \/ \E r \in Requests, e \in Emails :
       \/ inviteOrganizationUser(r, e)
       \/ inviteOrganizationRegister(r, e)
       \/ inviteWarehouseUser(r, e)
  \/ \E r \in Requests, i \in Tokens :
       \/ FindInvite(r, i, "reload") \/ FindInvite(r, i, "revoke")
       \/ \E n \in Usernames : consume_invite(r, i, n)
  \/ \E r \in Requests :
       \/ DropOlder(r) \/ InsertInvite(r)
       \/ ReloadInvite(r) \/ SaveInvite(r) \/ RevokeInvite(r)
       \/ CheckEmail(r) \/ CheckUsername(r) \/ CreateAccount(r) \/ CommitAccount(r)
       \/ FindMembers(r) \/ DeleteOrganization(r) \/ Cascade(r) \/ CommitDelete(r)
       \/ Rollback(r)
  \/ \E i \in Tokens : Expire(i)

Spec == Init /\ [][Next]_vars

(***************************************************************************)
(* Properties                                                              *)
(***************************************************************************)
TypeOK ==
  /\ org \in BOOLEAN /\ orgLock \in Requests \cup {None}
  /\ drawn \subseteq Tokens
  /\ email \in [Tokens -> Emails \cup {None}]
  /\ forOrg \in [Tokens -> BOOLEAN]
  /\ invite \in [Tokens -> Invite \cup {None}]
  /\ lock \in [Tokens -> Requests \cup {None}]
  /\ account \in [Accounts -> Account \cup {None}]
  /\ member \subseteq Accounts
  /\ pc \in [Requests -> Steps]
  /\ req \in [Requests -> Request]

\* However often its link is followed at once, and although a resend may make a
\* consumed invite pending again, an invite leads to one account.
OneAccountPerInvite ==
  \A a, b \in Accounts :
    (account[a] # None /\ account[b] # None /\ account[a].invite = account[b].invite)
    => a = b

\* No role in, and no invite to, an organization that has been deleted, whatever
\* was being accepted or resent when it was.
NothingOutlivesOrganization ==
  ~org => member = {} /\ \A i \in Tokens : invite[i] # None => ~forOrg[i]

\* organization.service.ts:79: "Users belong to exactly one organization, so
\* their accounts are deleted too": no account is left of a deleted organization.
NoOrphans ==
  ~org => \A a \in Accounts : account[a] # None => ~forOrg[account[a].invite]

=============================================================================
