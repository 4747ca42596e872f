------------------------- MODULE RegistrationProofs -------------------------
(***************************************************************************)
(* What the locks of Registration guarantee for every number of concurrent *)
(* requests, invites and accounts.                                         *)
(***************************************************************************)
EXTENDS Registration, TLAPS

-----------------------------------------------------------------------------
(* Type correctness *)

Accepting == {"checkEmail", "checkUsername", "create", "commit"}

Managing == {"reload", "save", "revoke"}

\* A request that has come to a statement carries its parameters.
Carries ==
  \A r \in Requests :
    /\ pc[r] \in Accepting \cup Managing => req[r].invite \in drawn
    /\ pc[r] \in {"reload", "save"} => req[r].token \in Tokens
    /\ pc[r] \in {"drop", "insert"} => req[r].email \in Emails
    /\ pc[r] \in Accepting => req[r].username \in Usernames
    /\ pc[r] = "commit" => req[r].account \in Accounts

\* Invites that exist, or have led to an account, have been drawn.
Drawn ==
  /\ \A i \in Tokens : invite[i] # None => i \in drawn
  /\ \A a \in Accounts : account[a] # None => account[a].invite \in drawn

Typed == TypeOK /\ Carries /\ Drawn

LEMMA TypedInit == Init => Typed
BY DEF Init, Typed, TypeOK, Carries, Drawn, Steps, Request, NoRequest, Accepting,
       Managing

\* The end of a transaction keeps the types of what it has not written.
LEMMA EndTyped ==
  ASSUME Typed, NEW r \in Requests, End(r), drawn \subseteq drawn'
  PROVE  /\ orgLock' \in Requests \cup {None}
         /\ lock' \in [Tokens -> Requests \cup {None}]
         /\ pc' \in [Requests -> Steps] /\ req' \in [Requests -> Request]
         /\ Carries'
<1> USE DEF Typed, TypeOK, End, Goto, Steps
<1>1. NoRequest \in Request
  BY DEF NoRequest, Request
<1>2. Carries'
  BY DEF Carries, Accepting, Managing
<1> QED
  BY <1>1, <1>2

\* What a request must carry at a statement.
Equipped(q, step, tokens) ==
  /\ step \in Accepting \cup Managing => q.invite \in tokens
  /\ step \in {"reload", "save"} => q.token \in Tokens
  /\ step \in {"drop", "insert"} => q.email \in Emails
  /\ step \in Accepting => q.username \in Usernames
  /\ step = "commit" => q.account \in Accounts

\* A step from one statement of a request to the next.
LEMMA GotoTyped ==
  ASSUME Typed, NEW r \in Requests, NEW step \in Steps, Goto(r, step),
         NEW q \in Request, req' = [req EXCEPT ![r] = q],
         Equipped(q, step, drawn),
         UNCHANGED <<org, email, forOrg, invite, account, member>>,
         orgLock' \in Requests \cup {None},
         lock' \in [Tokens -> Requests \cup {None}],
         drawn \subseteq drawn', drawn' \subseteq Tokens
  PROVE  Typed'
<1>1. pc' = [pc EXCEPT ![r] = step]
  BY DEF Goto
<1>2. TypeOK'
  BY <1>1 DEF Typed, TypeOK
<1>3. Carries'
  BY <1>1 DEF Carries, Equipped, Typed, TypeOK
<1>4. Drawn'
  BY DEF Typed, Drawn
<1> QED
  BY <1>2, <1>3, <1>4 DEF Typed

\* What a request carries at its statement.
LEMMA Carried ==
  ASSUME Typed, NEW r \in Requests
  PROVE  req[r] \in Request /\ pc[r] \in Steps /\ Equipped(req[r], pc[r], drawn)
BY DEF Typed, TypeOK, Carries, Equipped

LEMMA SendTyped ==
  ASSUME Typed, NEW r \in Requests, NEW step \in {"drop", "insert"}, NEW e \in Emails,
         NEW b \in BOOLEAN, Send(r, step, e, b)
  PROVE  Typed'
<1> DEFINE q == [req[r] EXCEPT !.email = e, !.forOrg = b]
<1>1. q \in Request /\ q.email = e
  BY Carried DEF Request
<1>2. req' = [req EXCEPT ![r] = q]
  BY DEF Send, Typed, TypeOK
<1>3. step \in Steps /\ Equipped(q, step, drawn)
  BY <1>1 DEF Steps, Equipped, Accepting, Managing
<1>4. /\ Goto(r, step) /\ UNCHANGED <<org, email, forOrg, invite, account, member>>
      /\ drawn \subseteq drawn' /\ drawn' \subseteq Tokens
      /\ lock' \in [Tokens -> Requests \cup {None}] /\ orgLock' \in Requests \cup {None}
  BY DEF Send, tables, locks, Typed, TypeOK
<1> HIDE DEF q
<1> QED
  BY <1>1, <1>2, <1>3, <1>4, GotoTyped

LEMMA FindInviteTyped ==
  ASSUME Typed, NEW r \in Requests, NEW i \in Tokens,
         NEW step \in {"reload", "revoke"}, FindInvite(r, i, step)
  PROVE  Typed'
<1>1. PICK q \in Request :
        /\ req' = [req EXCEPT ![r] = q] /\ q.invite = i
        /\ step = "reload" => q.token \in Tokens
        /\ drawn \subseteq drawn' /\ drawn' \subseteq Tokens
  <2>1. CASE step = "reload"
    <3>1. PICK t \in Tokens : drawn' = drawn \cup {t}
                     /\ req' = [req EXCEPT ![r].invite = i, ![r].token = t]
      BY <2>1 DEF FindInvite
    <3> DEFINE q == [req[r] EXCEPT !.invite = i, !.token = t]
    <3>2. q \in Request /\ q.invite = i /\ q.token = t
      BY Carried DEF Request
    <3>3. req' = [req EXCEPT ![r] = q]
      BY <3>1 DEF Typed, TypeOK
    <3> HIDE DEF q
    <3> QED
      BY <3>1, <3>2, <3>3 DEF Typed, TypeOK
  <2>2. CASE step = "revoke"
    <3> DEFINE q == [req[r] EXCEPT !.invite = i]
    <3>1. q \in Request /\ q.invite = i
      BY Carried DEF Request
    <3>2. req' = [req EXCEPT ![r] = q] /\ drawn' = drawn
      BY <2>2 DEF FindInvite, Typed, TypeOK
    <3> HIDE DEF q
    <3> QED
      BY <2>2, <3>1, <3>2 DEF Typed, TypeOK
  <2> QED
    BY <2>1, <2>2
<1>2. step \in Steps /\ Equipped(q, step, drawn)
  <2>1. i \in drawn
    BY DEF FindInvite, Pending, Typed, Drawn
  <2> QED
    BY <1>1, <2>1 DEF Steps, Equipped, Accepting, Managing
<1>3. /\ Goto(r, step) /\ UNCHANGED <<org, email, forOrg, invite, account, member>>
      /\ lock' \in [Tokens -> Requests \cup {None}] /\ orgLock' \in Requests \cup {None}
  BY DEF FindInvite, locks, Typed, TypeOK
<1> QED
  BY <1>1, <1>2, <1>3, GotoTyped

LEMMA ConsumeTyped ==
  ASSUME Typed, NEW r \in Requests, NEW i \in Tokens, NEW n \in Usernames,
         consume_invite(r, i, n)
  PROVE  Typed'
<1> DEFINE q == [req[r] EXCEPT !.invite = i, !.email = email[i], !.username = n,
                               !.forOrg = forOrg[i]]
<1>1. email[i] \in Emails \cup {None} /\ forOrg[i] \in BOOLEAN /\ i \in drawn
  BY DEF consume_invite, Pending, Typed, TypeOK, Drawn
<1>2. q \in Request /\ q.invite = i /\ q.username = n
  BY Carried, <1>1 DEF Request
<1>3. req' = [req EXCEPT ![r] = q]
  BY DEF consume_invite, Typed, TypeOK
<1>4. "checkEmail" \in Steps /\ Equipped(q, "checkEmail", drawn)
  BY <1>1, <1>2 DEF Steps, Equipped, Accepting, Managing
<1>5. /\ Goto(r, "checkEmail") /\ UNCHANGED <<org, email, forOrg, invite, account, member>>
      /\ lock' \in [Tokens -> Requests \cup {None}] /\ orgLock' \in Requests \cup {None}
      /\ drawn \subseteq drawn' /\ drawn' \subseteq Tokens
  BY DEF consume_invite, Hold, tables, Typed, TypeOK
<1> HIDE DEF q
<1> QED
  BY <1>2, <1>3, <1>4, <1>5, GotoTyped

\* The next statement with the parameters unchanged.
LEMMA AdvanceTyped ==
  ASSUME Typed, NEW r \in Requests, NEW step \in Steps, Goto(r, step),
         Equipped(req[r], step, drawn), UNCHANGED <<tables, req>>,
         orgLock' \in Requests \cup {None}, lock' \in [Tokens -> Requests \cup {None}]
  PROVE  Typed'
<1>1. req[r] \in Request /\ req' = [req EXCEPT ![r] = req[r]]
  BY Carried DEF Typed, TypeOK
<1>2. /\ UNCHANGED <<org, email, forOrg, invite, account, member>>
      /\ drawn \subseteq drawn' /\ drawn' \subseteq Tokens
  BY DEF tables, Typed, TypeOK
<1> QED
  BY <1>1, <1>2, GotoTyped

LEMMA EndOnlyTyped ==
  ASSUME Typed, NEW r \in Requests, End(r), UNCHANGED tables
  PROVE  Typed'
BY EndTyped DEF tables, Typed, TypeOK, Drawn

\* What one request does.
Step(r) ==
  \/ \E e \in Emails : \/ inviteOrganizationUser(r, e) \/ inviteOrganizationRegister(r, e)
                       \/ inviteWarehouseUser(r, e)
  \/ \E i \in Tokens :
       \/ FindInvite(r, i, "reload") \/ FindInvite(r, i, "revoke")
       \/ \E n \in Usernames : consume_invite(r, i, n)
  \/ DropOlder(r) \/ InsertInvite(r)
  \/ ReloadInvite(r) \/ SaveInvite(r) \/ RevokeInvite(r)
  \/ CheckEmail(r) \/ CheckUsername(r) \/ CreateAccount(r) \/ CommitAccount(r)
  \/ FindMembers(r) \/ DeleteOrganization(r) \/ Cascade(r) \/ CommitDelete(r)
  \/ Rollback(r)

LEMMA NextSteps == Next <=> (\E r \in Requests : Step(r)) \/ (\E i \in Tokens : Expire(i))
BY DEF Next, Step

LEMMA WriteTyped ==
  ASSUME Typed, NEW r \in Requests,
         \/ InsertInvite(r) \/ SaveInvite(r) \/ RevokeInvite(r) \/ CommitAccount(r)
         \/ CommitDelete(r)
  PROVE  Typed'
<1>0. /\ req[r] \in Request /\ pc[r] \in Steps /\ Equipped(req[r], pc[r], drawn)
      /\ None \notin Tokens
  BY Carried, NoneAssumption
<1>1. CASE InsertInvite(r)
  <2>1. req[r].email \in Emails /\ req[r].forOrg \in BOOLEAN
    BY <1>0, <1>1 DEF InsertInvite, Equipped, Request
  <2>2. /\ drawn \subseteq drawn' /\ drawn' \subseteq Tokens
        /\ email' \in [Tokens -> Emails \cup {None}] /\ forOrg' \in [Tokens -> BOOLEAN]
        /\ invite' \in [Tokens -> Invite \cup {None}]
        /\ \A i \in Tokens : invite'[i] # None => i \in drawn'
    <3>1. CASE UNCHANGED <<drawn, email, forOrg, invite>>
      BY <3>1 DEF Typed, TypeOK, Drawn
    <3>2. ASSUME NEW t \in Tokens, drawn' = drawn \cup {t},
                 email' = [email EXCEPT ![t] = req[r].email],
                 forOrg' = [forOrg EXCEPT ![t] = req[r].forOrg],
                 invite' = [i \in Tokens |->
                   IF i = t THEN [token |-> t, consumed |-> FALSE, expired |-> FALSE]
                   ELSE IF lock[i] = r THEN None ELSE invite[i]]
          PROVE  /\ drawn \subseteq drawn' /\ drawn' \subseteq Tokens
                 /\ email' \in [Tokens -> Emails \cup {None}]
                 /\ forOrg' \in [Tokens -> BOOLEAN]
                 /\ invite' \in [Tokens -> Invite \cup {None}]
                 /\ \A i \in Tokens : invite'[i] # None => i \in drawn'
      <4>1. [token |-> t, consumed |-> FALSE, expired |-> FALSE] \in Invite
        BY DEF Invite
      <4>2. invite' \in [Tokens -> Invite \cup {None}]
        BY <3>2, <4>1 DEF Typed, TypeOK
      <4> QED
        BY <2>1, <3>2, <4>2 DEF Typed, TypeOK, Drawn
    <3> QED
      BY <1>1, <3>1, <3>2 DEF InsertInvite
  <2>3. End(r) /\ UNCHANGED <<org, account, member>>
    BY <1>1 DEF InsertInvite
  <2> QED
    BY <2>2, <2>3, EndTyped DEF Typed, TypeOK, Drawn
<1>2. CASE SaveInvite(r)
  <2>1. req[r].token \in Tokens /\ req[r].invite \in drawn /\ req[r].invite \in Tokens
    BY <1>0, <1>2 DEF SaveInvite, Equipped, Managing, Typed, TypeOK
  <2>2. \A x \in Invite : x.consumed \in BOOLEAN
    BY DEF Invite
  <2>3. /\ invite' \in [Tokens -> Invite \cup {None}]
        /\ \A i \in Tokens : invite'[i] # None => i \in drawn
    BY <1>0, <1>2, <2>1, <2>2 DEF SaveInvite, Typed, TypeOK, Drawn, Invite, Request
  <2>4. End(r) /\ UNCHANGED <<org, drawn, email, forOrg, account, member>>
    BY <1>2 DEF SaveInvite
  <2>5. Carries' /\ TypeOK'
    BY <2>3, <2>4, EndTyped DEF Typed, TypeOK
  <2> QED
    BY <2>3, <2>4, <2>5 DEF Typed, Drawn
<1>3. CASE RevokeInvite(r)
  <2>1. /\ invite' \in [Tokens -> Invite \cup {None}]
        /\ \A i \in Tokens : invite'[i] # None => i \in drawn
    BY <1>3 DEF RevokeInvite, Typed, TypeOK, Drawn
  <2>2. End(r) /\ UNCHANGED <<org, drawn, email, forOrg, account, member>>
    BY <1>3 DEF RevokeInvite
  <2> QED
    BY <2>1, <2>2, EndTyped DEF Typed, TypeOK, Drawn
<1>4. CASE CommitAccount(r)
  <2>1. /\ req[r].account \in Accounts /\ req[r].username \in Usernames
        /\ req[r].invite \in drawn /\ req[r].invite \in Tokens
    BY <1>0, <1>4 DEF CommitAccount, Equipped, Accepting, Typed, TypeOK
  <2>2. /\ account' \in [Accounts -> Account \cup {None}] /\ member' \subseteq Accounts
        /\ \A a \in Accounts : account'[a] # None => account'[a].invite \in drawn
    BY <1>4, <2>1 DEF CommitAccount, Typed, TypeOK, Drawn, Account
  <2>3. \A x \in Invite : [x EXCEPT !.consumed = TRUE] \in Invite
    BY DEF Invite
  <2>4. /\ invite' \in [Tokens -> Invite \cup {None}]
        /\ \A i \in Tokens : invite'[i] # None => i \in drawn
    BY <1>4, <2>1, <2>3 DEF CommitAccount, Typed, TypeOK, Drawn
  <2>5. End(r) /\ UNCHANGED <<org, drawn, email, forOrg>>
    BY <1>4 DEF CommitAccount
  <2> QED
    BY <2>2, <2>4, <2>5, EndTyped DEF Typed, TypeOK, Drawn
<1>5. CASE CommitDelete(r)
  <2>1. /\ account' \in [Accounts -> Account \cup {None}] /\ member' \subseteq Accounts
        /\ \A a \in Accounts : account'[a] # None => account'[a].invite \in drawn
        /\ invite' \in [Tokens -> Invite \cup {None}]
        /\ \A i \in Tokens : invite'[i] # None => i \in drawn
        /\ org' \in BOOLEAN
    BY <1>5 DEF CommitDelete, Typed, TypeOK, Drawn
  <2>2. End(r) /\ UNCHANGED <<drawn, email, forOrg>>
    BY <1>5 DEF CommitDelete
  <2> QED
    BY <2>1, <2>2, EndTyped DEF Typed, TypeOK, Drawn
<1> QED
  BY <1>1, <1>2, <1>3, <1>4, <1>5

LEMMA StepTyped ==
  ASSUME Typed, NEW r \in Requests, Step(r)
  PROVE  Typed'
<1>0. /\ req[r] \in Request /\ pc[r] \in Steps /\ Equipped(req[r], pc[r], drawn)
      /\ lock \in [Tokens -> Requests \cup {None}] /\ orgLock \in Requests \cup {None}
      /\ req \in [Requests -> Request] /\ drawn \subseteq Tokens
  BY Carried DEF Typed, TypeOK
<1>1. ASSUME NEW e \in Emails, \/ inviteOrganizationUser(r, e)
                               \/ inviteOrganizationRegister(r, e)
                               \/ inviteWarehouseUser(r, e)
      PROVE  Typed'
  BY <1>1, SendTyped DEF inviteOrganizationUser, inviteOrganizationRegister,
     inviteWarehouseUser
<1>2. CASE DropOlder(r)
  <2>1. Goto(r, "insert") /\ Equipped(req[r], "insert", drawn) /\ "insert" \in Steps
    BY <1>0, <1>2 DEF DropOlder, Equipped, Accepting, Managing, Steps
  <2> QED
    BY <1>0, <1>2, <2>1, AdvanceTyped DEF DropOlder
<1>3. CASE ReloadInvite(r)
  <2> DEFINE q == [req[r] EXCEPT !.gone = invite[req[r].invite] = None,
                      !.reset = invite[req[r].invite] # None /\ ~Pending(req[r].invite)]
  <2>1. /\ q \in Request /\ q.invite = req[r].invite /\ q.token = req[r].token
    BY <1>0 DEF Request, Pending
  <2>2. req' = [req EXCEPT ![r] = q]
    BY <1>0, <1>3 DEF ReloadInvite
  <2>3. pc[r] = "reload" /\ Goto(r, "save") /\ UNCHANGED <<tables, locks>>
    BY <1>3 DEF ReloadInvite
  <2> HIDE DEF q
  <2>4. Equipped(q, "save", drawn) /\ "save" \in Steps
    BY <1>0, <2>1, <2>3 DEF Equipped, Accepting, Managing, Steps
  <2> QED
    BY <1>0, <2>1, <2>2, <2>3, <2>4, GotoTyped DEF tables, locks
<1>4. CASE CheckEmail(r)
  <2>1. CASE End(r)
    BY <1>4, <2>1, EndOnlyTyped DEF CheckEmail
  <2>2. CASE ~End(r)
    <3>1. PICK step \in {"create", "checkUsername"} : Goto(r, step)
      BY <1>4, <2>2 DEF CheckEmail
    <3>2. step \in Steps /\ Equipped(req[r], step, drawn)
      BY <1>0, <1>4 DEF CheckEmail, Equipped, Accepting, Managing, Steps
    <3> QED
      BY <1>0, <1>4, <2>2, <3>1, <3>2, AdvanceTyped DEF CheckEmail, locks
  <2> QED
    BY <2>1, <2>2
<1>5. CASE CheckUsername(r)
  <2>1. CASE End(r)
    BY <1>5, <2>1, EndOnlyTyped DEF CheckUsername
  <2>2. CASE ~End(r)
    <3>1. "create" \in Steps /\ Equipped(req[r], "create", drawn)
      BY <1>0, <1>5 DEF CheckUsername, Equipped, Accepting, Managing, Steps
    <3> QED
      BY <1>0, <1>5, <2>2, <3>1, AdvanceTyped DEF CheckUsername, locks
  <2> QED
    BY <2>1, <2>2
<1>6. CASE CreateAccount(r)
  <2>1. CASE End(r)
    BY <1>6, <2>1, EndOnlyTyped DEF CreateAccount
  <2>2. CASE ~End(r)
    <3>1. PICK a \in Accounts : req' = [req EXCEPT ![r].account = a]
      BY <1>6, <2>2 DEF CreateAccount
    <3> DEFINE q == [req[r] EXCEPT !.account = a]
    <3>2. /\ q \in Request /\ q.account = a
          /\ q.invite = req[r].invite /\ q.username = req[r].username
      BY <1>0 DEF Request
    <3>3. req' = [req EXCEPT ![r] = q]
      BY <1>0, <3>1
    <3>4. pc[r] = "create" /\ Goto(r, "commit") /\ UNCHANGED <<tables, locks>>
      BY <1>6, <2>2 DEF CreateAccount
    <3> HIDE DEF q
    <3>5. "commit" \in Steps /\ Equipped(q, "commit", drawn)
      BY <1>0, <3>2, <3>4 DEF Equipped, Accepting, Managing, Steps
    <3> QED
      BY <1>0, <3>2, <3>3, <3>4, <3>5, GotoTyped DEF tables, locks
  <2> QED
    BY <2>1, <2>2
<1>7. CASE FindMembers(r)
  <2> DEFINE q == [req[r] EXCEPT !.found = member]
  <2>1. q \in Request
    BY <1>0 DEF Request, Typed, TypeOK
  <2>2. req' = [req EXCEPT ![r] = q]
    BY <1>0, <1>7 DEF FindMembers
  <2>3. "deleteOrg" \in Steps /\ Equipped(q, "deleteOrg", drawn)
    BY DEF Equipped, Accepting, Managing, Steps
  <2> HIDE DEF q
  <2> QED
    BY <1>0, <1>7, <2>1, <2>2, <2>3, GotoTyped DEF FindMembers, tables, locks
<1>8. CASE DeleteOrganization(r)
  <2>1. CASE End(r)
    BY <1>8, <2>1, EndOnlyTyped DEF DeleteOrganization
  <2>2. CASE ~End(r)
    <3>1. "cascade" \in Steps /\ Equipped(req[r], "cascade", drawn)
      BY DEF Equipped, Accepting, Managing, Steps
    <3> QED
      BY <1>0, <1>8, <2>2, <3>1, AdvanceTyped DEF DeleteOrganization
  <2> QED
    BY <2>1, <2>2
<1>9. CASE Cascade(r)
  <2>1. "commitDelete" \in Steps /\ Equipped(req[r], "commitDelete", drawn)
    BY DEF Equipped, Accepting, Managing, Steps
  <2>2. lock' \in [Tokens -> Requests \cup {None}]
    BY <1>0, <1>9 DEF Cascade
  <2> QED
    BY <1>0, <1>9, <2>1, <2>2, AdvanceTyped DEF Cascade
<1>10. CASE Rollback(r)
  BY <1>10, EndOnlyTyped DEF Rollback
<1> QED
  BY <1>1, <1>2, <1>3, <1>4, <1>5, <1>6, <1>7, <1>8, <1>9, <1>10, WriteTyped,
     FindInviteTyped, ConsumeTyped DEF Step

LEMMA ExpireTyped ==
  ASSUME Typed, NEW i \in Tokens, Expire(i)
  PROVE  Typed'
<1>1. \A x \in Invite : [x EXCEPT !.expired = TRUE] \in Invite
  BY DEF Invite
<1>2. /\ invite' \in [Tokens -> Invite \cup {None}]
      /\ \A j \in Tokens : invite'[j] # None => j \in drawn
  BY <1>1 DEF Expire, Typed, TypeOK, Drawn
<1> QED
  BY <1>2 DEF Expire, locks, Typed, TypeOK, Carries, Drawn

LEMMA StutterTyped ==
  ASSUME Typed, UNCHANGED vars
  PROVE  Typed'
BY DEF vars, Typed, TypeOK, Carries, Drawn

\* The variables have their types in every reachable state.
THEOREM TypeCorrect == Spec => []TypeOK
<1>1. Typed /\ [Next]_vars => Typed'
  BY StepTyped, ExpireTyped, StutterTyped, NextSteps
<1>2. Typed => TypeOK
  BY DEF Typed
<1> QED
  BY TypedInit, <1>1, <1>2, PTL DEF Spec

-----------------------------------------------------------------------------
(* The inductive invariants *)

\* Who accepts an invite holds its row, and has read its address and kind.
Held ==
  \A r \in Requests :
    pc[r] \in Accepting =>
      /\ lock[req[r].invite] = r
      /\ req[r].email = email[req[r].invite]
      /\ req[r].forOrg = forOrg[req[r].invite]

\* Past the check of the address, no account has come of the invite.
Fresh ==
  \A r \in Requests, a \in Accounts :
    (pc[r] \in {"checkUsername", "create", "commit"} /\ account[a] # None)
    => account[a].invite # req[r].invite

-----------------------------------------------------------------------------
(* What a request leaves alone *)

\* The other requests keep their place, their parameters and their locks, and
\* the invites that have been drawn keep their address and kind.
Isolated(r) ==
  /\ \A s \in Requests \ {r} : pc'[s] = pc[s] /\ req'[s] = req[s]
  /\ \A s \in Requests \ {r}, i \in Tokens : lock[i] = s => lock'[i] = s
  /\ \A i \in drawn : email'[i] = email[i] /\ forOrg'[i] = forOrg[i]

LEMMA EndIsolated ==
  ASSUME Typed, NEW r \in Requests, End(r), UNCHANGED <<email, forOrg>>
  PROVE  Isolated(r)
BY DEF End, Goto, Isolated, Typed, TypeOK

LEMMA Isolation ==
  ASSUME Typed, NEW r \in Requests, Step(r)
  PROVE  Isolated(r)
<1> USE DEF Isolated, Typed, TypeOK, Goto, tables, locks
<1>n. None \notin Requests
  BY NoneAssumption
<1>1. ASSUME NEW e \in Emails, \/ inviteOrganizationUser(r, e)
                               \/ inviteOrganizationRegister(r, e)
                               \/ inviteWarehouseUser(r, e)
      PROVE  Isolated(r)
  BY <1>1 DEF inviteOrganizationUser, inviteOrganizationRegister, inviteWarehouseUser, Send
<1>2. ASSUME NEW i \in Tokens, FindInvite(r, i, "reload") \/ FindInvite(r, i, "revoke")
      PROVE  Isolated(r)
  BY <1>2 DEF FindInvite
<1>3. ASSUME NEW i \in Tokens, NEW n \in Usernames, consume_invite(r, i, n)
      PROVE  Isolated(r)
  BY <1>3, <1>n DEF consume_invite, Hold
<1>4. CASE DropOlder(r)
  BY <1>4, <1>n DEF DropOlder
<1>5. CASE InsertInvite(r)
  <2>1. \A i \in drawn : email'[i] = email[i] /\ forOrg'[i] = forOrg[i]
    BY <1>5 DEF InsertInvite
  <2>2. End(r)
    BY <1>5 DEF InsertInvite
  <2> QED
    BY <2>1, <2>2 DEF End
<1>6. CASE SaveInvite(r) \/ RevokeInvite(r) \/ CommitAccount(r) \/ CommitDelete(r)
           \/ Rollback(r)
  BY <1>6, EndIsolated
  DEF SaveInvite, RevokeInvite, CommitAccount, CommitDelete, Rollback
<1>7. CASE CheckEmail(r) \/ CheckUsername(r) \/ CreateAccount(r) \/ DeleteOrganization(r)
  <2>1. CASE End(r)
    BY <1>7, <2>1, EndIsolated DEF CheckEmail, CheckUsername, CreateAccount, DeleteOrganization
  <2>2. CASE ~End(r)
    BY <1>7, <2>2 DEF CheckEmail, CheckUsername, CreateAccount, DeleteOrganization
  <2> QED
    BY <2>1, <2>2
<1>8. CASE ReloadInvite(r) \/ FindMembers(r)
  BY <1>8 DEF ReloadInvite, FindMembers
<1>9. CASE Cascade(r)
  BY <1>9, <1>n DEF Cascade
<1> HIDE DEF Isolated
<1> QED
  BY <1>1, <1>2, <1>3, <1>4, <1>5, <1>6, <1>7, <1>8, <1>9 DEF Step

-----------------------------------------------------------------------------
(* Holding an invite *)

\* A request comes to its next accepting statement by taking the invite or by
\* advancing with it.
LEMMA Arrives ==
  ASSUME Typed, Held, NEW r \in Requests, Step(r), pc'[r] \in Accepting
  PROVE  \/ /\ \E i \in Tokens, n \in Usernames : consume_invite(r, i, n)
            /\ pc'[r] = "checkEmail"
         \/ /\ UNCHANGED <<tables, locks>>
            /\ req'[r].invite = req[r].invite /\ req'[r].email = req[r].email
            /\ req'[r].forOrg = req[r].forOrg
            /\ pc[r] \in Accepting
            /\ CheckEmail(r) \/ CheckUsername(r) \/ CreateAccount(r)
<1> USE DEF Accepting, Goto
<1>0. /\ req[r] \in Request /\ req \in [Requests -> Request]
      /\ pc \in [Requests -> Steps]
  BY DEF Typed, TypeOK
<1>1. ~End(r)
  BY <1>0 DEF End
<1>2. ASSUME NEW e \in Emails, \/ inviteOrganizationUser(r, e)
                               \/ inviteOrganizationRegister(r, e)
                               \/ inviteWarehouseUser(r, e)
      PROVE  FALSE
  BY <1>0, <1>2 DEF inviteOrganizationUser, inviteOrganizationRegister,
     inviteWarehouseUser, Send
<1>3. ASSUME NEW i \in Tokens, FindInvite(r, i, "reload") \/ FindInvite(r, i, "revoke")
      PROVE  FALSE
  BY <1>0, <1>3 DEF FindInvite
<1>4. ASSUME NEW i \in Tokens, NEW n \in Usernames, consume_invite(r, i, n)
      PROVE  pc'[r] = "checkEmail"
  BY <1>0, <1>4 DEF consume_invite
<1>5. ~DropOlder(r) /\ ~ReloadInvite(r) /\ ~FindMembers(r) /\ ~Cascade(r)
  BY <1>0 DEF DropOlder, ReloadInvite, FindMembers, Cascade
<1>6. /\ ~InsertInvite(r) /\ ~SaveInvite(r) /\ ~RevokeInvite(r) /\ ~CommitAccount(r)
      /\ ~CommitDelete(r) /\ ~Rollback(r)
  BY <1>1 DEF InsertInvite, SaveInvite, RevokeInvite, CommitAccount, CommitDelete, Rollback
<1>7. ~DeleteOrganization(r)
  BY <1>0, <1>1 DEF DeleteOrganization
<1>8. CASE CheckEmail(r) \/ CheckUsername(r)
  BY <1>1, <1>8 DEF CheckEmail, CheckUsername
<1>9. CASE CreateAccount(r)
  <2>1. PICK a \in Accounts : req' = [req EXCEPT ![r].account = a]
    BY <1>1, <1>9 DEF CreateAccount
  <2>2. req'[r] = [req[r] EXCEPT !.account = a]
    BY <1>0, <2>1
  <2>3. UNCHANGED <<tables, locks>> /\ pc[r] \in Accepting
    BY <1>1, <1>9 DEF CreateAccount
  <2> QED
    BY <1>0, <1>9, <2>2, <2>3 DEF Request
<1> QED
  BY <1>2, <1>3, <1>4, <1>5, <1>6, <1>7, <1>8, <1>9 DEF Step

LEMMA HeldStep ==
  ASSUME Typed, Held, NEW r \in Requests, Step(r)
  PROVE  Held'
<1> SUFFICES ASSUME NEW s \in Requests, pc'[s] \in Accepting
             PROVE  /\ lock'[req'[s].invite] = s
                    /\ req'[s].email = email'[req'[s].invite]
                    /\ req'[s].forOrg = forOrg'[req'[s].invite]
  BY DEF Held, Accepting
<1>1. CASE s # r
  <2>1. /\ pc'[s] = pc[s] /\ req'[s] = req[s]
        /\ \A i \in Tokens : lock[i] = s => lock'[i] = s
        /\ \A i \in drawn : email'[i] = email[i] /\ forOrg'[i] = forOrg[i]
    BY <1>1, Isolation DEF Isolated
  <2>2. req[s].invite \in drawn /\ req[s].invite \in Tokens
    BY <2>1 DEF Typed, TypeOK, Carries
  <2> QED
    BY <2>1, <2>2 DEF Held
<1>2. CASE s = r
  <2>1. CASE \E i \in Tokens, n \in Usernames : consume_invite(r, i, n)
    <3>1. PICK i \in Tokens, n \in Usernames : consume_invite(r, i, n)
      BY <2>1
    <3> DEFINE q == [req[r] EXCEPT !.invite = i, !.email = email[i], !.username = n,
                                   !.forOrg = forOrg[i]]
    <3>2. req'[r] = q /\ req[r] \in Request
      BY <3>1 DEF consume_invite, Typed, TypeOK
    <3>3. q.invite = i /\ q.email = email[i] /\ q.forOrg = forOrg[i]
      BY <3>2 DEF Request
    <3>4. lock'[i] = r /\ UNCHANGED <<email, forOrg>>
      BY <3>1 DEF consume_invite, Hold, tables, Typed, TypeOK
    <3> HIDE DEF q
    <3> QED
      BY <1>2, <3>2, <3>3, <3>4
  <2>2. CASE /\ UNCHANGED <<tables, locks>>
             /\ req'[r].invite = req[r].invite /\ req'[r].email = req[r].email
             /\ req'[r].forOrg = req[r].forOrg
             /\ pc[r] \in Accepting
    BY <1>2, <2>2 DEF Held, tables, locks
  <2> QED
    BY <1>2, <2>1, <2>2, Arrives
<1> QED
  BY <1>1, <1>2

LEMMA HeldOther ==
  ASSUME Typed, Held, \/ \E i \in Tokens : Expire(i)
                      \/ UNCHANGED vars
  PROVE  Held'
BY DEF Held, Expire, vars, locks

-----------------------------------------------------------------------------
(* One account per invite *)

\* Accounts are made only by CommitAccount.
LEMMA AccountsKept ==
  ASSUME NEW r \in Requests, Step(r), ~CommitAccount(r), NEW a \in Accounts,
         Typed, account'[a] # None
  PROVE  account[a] # None /\ account'[a] = account[a]
BY DEF Step, inviteOrganizationUser, inviteOrganizationRegister, inviteWarehouseUser,
   Send, FindInvite, consume_invite, DropOlder, InsertInvite, ReloadInvite, SaveInvite,
   RevokeInvite, CheckEmail, CheckUsername, CreateAccount, FindMembers,
   DeleteOrganization, Cascade, CommitDelete, Rollback, tables, Typed, TypeOK

LEMMA CommitsOne ==
  ASSUME Typed, NEW r \in Requests, CommitAccount(r)
  PROVE  /\ pc[r] = "commit" /\ pc'[r] = "idle"
         /\ req[r].account \in Accounts
         /\ account'[req[r].account].invite = req[r].invite
         /\ \A a \in Accounts : a # req[r].account => account'[a] = account[a]
BY DEF CommitAccount, End, Goto, Typed, TypeOK, Carries

LEMMA FreshStep ==
  ASSUME Typed, Held, Fresh, NEW r \in Requests, Step(r)
  PROVE  Fresh'
<1> SUFFICES ASSUME NEW s \in Requests, NEW a \in Accounts,
                    pc'[s] \in {"checkUsername", "create", "commit"}, account'[a] # None
             PROVE  account'[a].invite # req'[s].invite
  BY DEF Fresh
<1>1. CASE CommitAccount(r)
  <2>1. pc[r] = "commit" /\ pc'[r] = "idle"
    BY <1>1, CommitsOne
  <2>2. s # r /\ pc'[s] = pc[s] /\ req'[s] = req[s]
    BY <2>1, Isolation DEF Isolated
  <2>3. lock[req[s].invite] = s /\ lock[req[r].invite] = r
    BY <2>1, <2>2 DEF Held, Accepting
  <2>4. CASE a = req[r].account
    BY <1>1, <2>2, <2>3, <2>4, CommitsOne
  <2>5. CASE a # req[r].account
    BY <1>1, <2>2, <2>5, CommitsOne DEF Fresh
  <2> QED
    BY <2>4, <2>5
<1>2. CASE ~CommitAccount(r)
  <2>1. account[a] # None /\ account'[a] = account[a]
    BY <1>2, AccountsKept
  <2>2. CASE s # r
    BY <2>1, <2>2, Isolation DEF Isolated, Fresh
  <2>3. CASE s = r
    <3>1. /\ req'[r].invite = req[r].invite /\ pc[r] \in Accepting
          /\ CheckEmail(r) \/ CheckUsername(r) \/ CreateAccount(r)
      BY <2>3, Arrives DEF Accepting
    <3>2. CASE CheckEmail(r)
      <4>1. pc[r] = "checkEmail" /\ ~EmailTaken(req[r].email)
        BY <2>3, <3>2 DEF CheckEmail, End, Goto, Typed, TypeOK
      <4>2. email[account[a].invite] # req[r].email
        BY <2>1, <4>1 DEF EmailTaken
      <4> QED
        BY <2>1, <2>3, <3>1, <4>1, <4>2 DEF Held
    <3>3. CASE CheckUsername(r) \/ CreateAccount(r)
      BY <2>1, <2>3, <3>1, <3>3 DEF CheckUsername, CreateAccount, Fresh
    <3> QED
      BY <3>1, <3>2, <3>3
  <2> QED
    BY <2>2, <2>3
<1> QED
  BY <1>1, <1>2

LEMMA OneAccountStep ==
  ASSUME Typed, Fresh, OneAccountPerInvite, NEW r \in Requests, Step(r)
  PROVE  OneAccountPerInvite'
<1> SUFFICES ASSUME NEW a \in Accounts, NEW b \in Accounts, account'[a] # None,
                    account'[b] # None, account'[a].invite = account'[b].invite
             PROVE  a = b
  BY DEF OneAccountPerInvite
<1>1. CASE CommitAccount(r)
  <2>1. pc[r] = "commit" /\ account'[req[r].account].invite = req[r].invite
    BY <1>1, CommitsOne
  <2>2. \A c \in Accounts : (c # req[r].account /\ account'[c] # None)
                            => account'[c] = account[c] /\ account[c].invite # req[r].invite
    BY <1>1, <2>1, CommitsOne DEF Fresh
  <2> QED
    BY <2>1, <2>2 DEF OneAccountPerInvite
<1>2. CASE ~CommitAccount(r)
  BY <1>2, AccountsKept DEF OneAccountPerInvite
<1> QED
  BY <1>1, <1>2

LEMMA OneAccountOther ==
  ASSUME Fresh, OneAccountPerInvite, \/ \E i \in Tokens : Expire(i)
                                     \/ UNCHANGED vars
  PROVE  Fresh' /\ OneAccountPerInvite'
BY DEF Fresh, OneAccountPerInvite, Expire, vars

OneAccountInv == Typed /\ Held /\ Fresh /\ OneAccountPerInvite

\* However many requests follow the link of an invite at once, and whatever is
\* resent or revoked meanwhile, one account comes of it: consume_invite holds the
\* row, and the address is looked up under that lock.
THEOREM InvitesAreSpentOnce == Spec => []OneAccountPerInvite
<1>1. Init => OneAccountInv
  BY TypedInit DEF Init, OneAccountInv, Held, Fresh, OneAccountPerInvite, Accepting
<1>2. OneAccountInv /\ [Next]_vars => OneAccountInv'
  <2> SUFFICES ASSUME OneAccountInv, [Next]_vars
               PROVE  OneAccountInv'
    OBVIOUS
  <2>1. ASSUME NEW r \in Requests, Step(r)
        PROVE  OneAccountInv'
    BY <2>1, StepTyped, HeldStep, FreshStep, OneAccountStep DEF OneAccountInv
  <2>2. ASSUME NEW i \in Tokens, Expire(i)
        PROVE  OneAccountInv'
    BY <2>2, ExpireTyped, HeldOther, OneAccountOther DEF OneAccountInv
  <2>3. CASE UNCHANGED vars
    BY <2>3, StutterTyped, HeldOther, OneAccountOther DEF OneAccountInv
  <2> QED
    BY <2>1, <2>2, <2>3, NextSteps
<1>3. OneAccountInv => OneAccountPerInvite
  BY DEF OneAccountInv
<1> QED
  BY <1>1, <1>2, <1>3, PTL DEF Spec

-----------------------------------------------------------------------------
(* Deleting the organization *)

\* The row of an organization outlives every deletion but a committed one.
LEMMA OrgKept ==
  ASSUME NEW r \in Requests, Step(r), ~CommitDelete(r)
  PROVE  UNCHANGED org
BY DEF Step, inviteOrganizationUser, inviteOrganizationRegister, inviteWarehouseUser,
   Send, FindInvite, consume_invite, DropOlder, InsertInvite, ReloadInvite, SaveInvite,
   RevokeInvite, CheckEmail, CheckUsername, CreateAccount, CommitAccount, FindMembers,
   DeleteOrganization, Cascade, Rollback, tables

LEMMA OrgLockKept ==
  ASSUME Typed, NEW r \in Requests, Step(r), ~DeleteOrganization(r)
  PROVE  \/ UNCHANGED orgLock
         \/ End(r) /\ orgLock' = IF orgLock = r THEN None ELSE orgLock
BY DEF Step, inviteOrganizationUser, inviteOrganizationRegister, inviteWarehouseUser,
   Send, FindInvite, consume_invite, DropOlder, InsertInvite, ReloadInvite, SaveInvite,
   RevokeInvite, CheckEmail, CheckUsername, CreateAccount, CommitAccount, FindMembers,
   Cascade, CommitDelete, Rollback, locks, End

\* Only a deletion comes to the statements of a deletion.
LEMMA Deletes ==
  ASSUME Typed, NEW r \in Requests, Step(r), pc'[r] \in {"cascade", "commitDelete"}
  PROVE  DeleteOrganization(r) \/ Cascade(r)
<1> USE DEF Goto
<1>0. pc \in [Requests -> Steps]
  BY DEF Typed, TypeOK
<1>1. ~End(r)
  BY <1>0 DEF End
<1>2. /\ \A e \in Emails : /\ ~inviteOrganizationUser(r, e)
                           /\ ~inviteOrganizationRegister(r, e)
                           /\ ~inviteWarehouseUser(r, e)
      /\ \A i \in Tokens : /\ ~FindInvite(r, i, "reload") /\ ~FindInvite(r, i, "revoke")
                           /\ \A n \in Usernames : ~consume_invite(r, i, n)
  BY <1>0 DEF inviteOrganizationUser, inviteOrganizationRegister, inviteWarehouseUser,
     Send, FindInvite, consume_invite
<1>3. /\ ~DropOlder(r) /\ ~ReloadInvite(r) /\ ~FindMembers(r) /\ ~CheckEmail(r)
      /\ ~CheckUsername(r) /\ ~CreateAccount(r)
  BY <1>0, <1>1 DEF DropOlder, ReloadInvite, FindMembers, CheckEmail, CheckUsername,
     CreateAccount
<1>4. /\ ~InsertInvite(r) /\ ~SaveInvite(r) /\ ~RevokeInvite(r) /\ ~CommitAccount(r)
      /\ ~CommitDelete(r) /\ ~Rollback(r)
  BY <1>1 DEF InsertInvite, SaveInvite, RevokeInvite, CommitAccount, CommitDelete, Rollback
<1> QED
  BY <1>2, <1>3, <1>4 DEF Step

\* The lock on the organization.
OrgExcluded ==
  \A r \in Requests :
    /\ KeyShare(r) => org /\ orgLock = None
    /\ pc[r] \in {"cascade", "commitDelete"} => orgLock = r

LEMMA OrgExcludedStep ==
  ASSUME Typed, Held, OrgExcluded, NEW r \in Requests, Step(r)
  PROVE  OrgExcluded'
<1>n. None \notin Requests
  BY NoneAssumption
<1> SUFFICES ASSUME NEW s \in Requests
             PROVE  /\ KeyShare(s)' => org' /\ orgLock' = None
                    /\ pc'[s] \in {"cascade", "commitDelete"} => orgLock' = s
  BY DEF OrgExcluded
<1>1. CASE s # r
  <2>1. pc'[s] = pc[s] /\ req'[s] = req[s]
    BY <1>1, Isolation DEF Isolated
  <2>2. ASSUME KeyShare(s) PROVE org' /\ orgLock' = None
    <3>1. org /\ orgLock = None
      BY <2>2 DEF OrgExcluded
    <3>2. ~CommitDelete(r)
      BY <3>1, <1>n DEF CommitDelete, OrgExcluded
    <3>3. ~DeleteOrganization(r)
      BY <2>2 DEF DeleteOrganization
    <3> QED
      BY <3>1, <3>2, <3>3, OrgKept, OrgLockKept
  <2>3. ASSUME pc[s] \in {"cascade", "commitDelete"} PROVE orgLock' = s
    <3>1. orgLock = s
      BY <2>3 DEF OrgExcluded
    <3>2. ~DeleteOrganization(r)
      BY <3>1, <1>n DEF DeleteOrganization
    <3> QED
      BY <1>1, <3>1, <3>2, OrgLockKept
  <2> QED
    BY <2>1, <2>2, <2>3 DEF KeyShare
<1>2. CASE s = r
  <2>1. ASSUME KeyShare(r)' PROVE org' /\ orgLock' = None
    <3>0. pc'[r] = "commit" /\ req'[r].forOrg /\ pc'[r] \in Accepting
      BY <2>1 DEF KeyShare, Accepting
    <3>1. /\ pc[r] \in Accepting /\ UNCHANGED <<tables, locks>>
          /\ req'[r].forOrg = req[r].forOrg
          /\ CheckEmail(r) \/ CheckUsername(r) \/ CreateAccount(r)
      BY <3>0, Arrives
    <3>2. CreateAccount(r) /\ ~End(r)
      BY <3>0, <3>1 DEF CheckEmail, CheckUsername, End, Goto, Typed, TypeOK
    <3> QED
      BY <3>0, <3>1, <3>2 DEF CreateAccount, Referable, tables, locks
  <2>2. ASSUME pc'[r] \in {"cascade", "commitDelete"} PROVE orgLock' = r
    <3>1. DeleteOrganization(r) \/ Cascade(r)
      BY <2>2, Deletes
    <3> QED
      BY <2>2, <3>1 DEF DeleteOrganization, Cascade, End, Goto, OrgExcluded, Typed, TypeOK
  <2> QED
    BY <1>2, <2>1, <2>2
<1> QED
  BY <1>1, <1>2

\* Before it commits, a deletion holds every invite to the organization.
Swept ==
  \A r \in Requests : pc[r] = "commitDelete" =>
    \A i \in Tokens : invite[i] # None /\ forOrg[i] => lock[i] = r

\* While the organization is being deleted, or has been, its invites do not come
\* into being.
LEMMA NoNewInvites ==
  ASSUME Typed, NEW r \in Requests, Step(r), ~org \/ orgLock # None,
         NEW i \in Tokens, invite'[i] # None, forOrg'[i]
  PROVE  invite[i] # None /\ forOrg[i]
<1> USE DEF Typed, TypeOK
<1>1. CASE InsertInvite(r)
  <2>1. CASE UNCHANGED <<drawn, email, forOrg, invite>>
    BY <2>1
  <2>2. CASE ~UNCHANGED <<drawn, email, forOrg, invite>>
    BY <1>1, <2>2 DEF InsertInvite, Referable
  <2> QED
    BY <2>1, <2>2
<1>2. CASE SaveInvite(r)
  BY <1>2 DEF SaveInvite, Referable
<1>3. CASE RevokeInvite(r) \/ CommitAccount(r) \/ CommitDelete(r)
  BY <1>3 DEF RevokeInvite, CommitAccount, CommitDelete
<1>4. CASE UNCHANGED <<invite, forOrg>>
  BY <1>4
<1> QED
  BY <1>1, <1>2, <1>3, <1>4 DEF Step, inviteOrganizationUser, inviteOrganizationRegister,
     inviteWarehouseUser, Send, FindInvite, consume_invite, DropOlder, ReloadInvite,
     CheckEmail, CheckUsername, CreateAccount, FindMembers, DeleteOrganization, Cascade,
     Rollback, tables

LEMMA SweptStep ==
  ASSUME Typed, OrgExcluded, Swept, NEW r \in Requests, Step(r)
  PROVE  Swept'
<1>n. None \notin Requests
  BY NoneAssumption
<1> SUFFICES ASSUME NEW s \in Requests, pc'[s] = "commitDelete",
                    NEW i \in Tokens, invite'[i] # None, forOrg'[i]
             PROVE  lock'[i] = s
  BY DEF Swept
<1>1. CASE s # r
  <2>1. pc[s] = "commitDelete" /\ \A j \in Tokens : lock[j] = s => lock'[j] = s
    BY <1>1, Isolation DEF Isolated
  <2>2. orgLock # None
    BY <1>n, <2>1 DEF OrgExcluded
  <2>3. invite[i] # None /\ forOrg[i]
    BY <2>2, NoNewInvites
  <2> QED
    BY <2>1, <2>3 DEF Swept
<1>2. CASE s = r
  <2>1. Cascade(r)
    BY <1>2, Deletes DEF DeleteOrganization, End, Goto, Typed, TypeOK
  <2> QED
    BY <1>2, <2>1 DEF Cascade, tables, Typed, TypeOK
<1> QED
  BY <1>1, <1>2

LEMMA OutlivesStep ==
  ASSUME Typed, OrgExcluded, Swept, NothingOutlivesOrganization,
         NEW r \in Requests, Step(r)
  PROVE  NothingOutlivesOrganization'
<1> SUFFICES ASSUME ~org'
             PROVE  member' = {} /\ \A i \in Tokens : invite'[i] # None => ~forOrg'[i]
  BY DEF NothingOutlivesOrganization
<1>1. CASE CommitDelete(r)
  BY <1>1 DEF CommitDelete, Swept, Typed, TypeOK
<1>2. CASE ~CommitDelete(r)
  <2>1. ~org
    BY <1>2, OrgKept
  <2>2. \A i \in Tokens : invite'[i] # None => ~forOrg'[i]
    BY <2>1, NoNewInvites DEF NothingOutlivesOrganization
  <2>3. CASE CommitAccount(r)
    BY <2>1, <2>2, <2>3 DEF CommitAccount, KeyShare, OrgExcluded,
       NothingOutlivesOrganization
  <2>4. CASE ~CommitAccount(r)
    <3>1. UNCHANGED member
      BY <1>2, <2>4 DEF Step, inviteOrganizationUser, inviteOrganizationRegister,
         inviteWarehouseUser, Send, FindInvite, consume_invite, DropOlder, InsertInvite,
         ReloadInvite, SaveInvite, RevokeInvite, CheckEmail, CheckUsername, CreateAccount,
         FindMembers, DeleteOrganization, Cascade, Rollback, tables
    <3> QED
      BY <2>1, <2>2, <3>1 DEF NothingOutlivesOrganization
  <2> QED
    BY <2>3, <2>4
<1> QED
  BY <1>1, <1>2

DeletionInv == Typed /\ Held /\ OrgExcluded /\ Swept /\ NothingOutlivesOrganization

LEMMA DeletionOther ==
  ASSUME DeletionInv, \/ \E i \in Tokens : Expire(i)
                      \/ UNCHANGED vars
  PROVE  OrgExcluded' /\ Swept' /\ NothingOutlivesOrganization'
BY DEF DeletionInv, OrgExcluded, Swept, NothingOutlivesOrganization, KeyShare, Expire, vars,
   locks, Typed, TypeOK

\* Once the deletion of the organization has committed no role and no invite of
\* it is left, nor will one ever be: whoever inserts one holds its row, and the
\* deletion holds every invite when it commits.
THEOREM DeletionIsComplete == Spec => []NothingOutlivesOrganization
<1>1. Init => DeletionInv
  BY TypedInit DEF Init, DeletionInv, Held, OrgExcluded, Swept,
     NothingOutlivesOrganization, KeyShare, Accepting
<1>2. DeletionInv /\ [Next]_vars => DeletionInv'
  <2> SUFFICES ASSUME DeletionInv, [Next]_vars
               PROVE  DeletionInv'
    OBVIOUS
  <2>1. ASSUME NEW r \in Requests, Step(r)
        PROVE  DeletionInv'
    BY <2>1, StepTyped, HeldStep, OrgExcludedStep, SweptStep, OutlivesStep DEF DeletionInv
  <2>2. ASSUME NEW i \in Tokens, Expire(i)
        PROVE  DeletionInv'
    BY <2>2, ExpireTyped, HeldOther, DeletionOther DEF DeletionInv
  <2>3. CASE UNCHANGED vars
    BY <2>3, StutterTyped, HeldOther, DeletionOther DEF DeletionInv
  <2> QED
    BY <2>1, <2>2, <2>3, NextSteps
<1>3. DeletionInv => NothingOutlivesOrganization
  BY DEF DeletionInv
<1> QED
  BY <1>1, <1>2, <1>3, PTL DEF Spec

-----------------------------------------------------------------------------
(* Accounts that a deletion leaves *)

\* A step that commits an account of the organization does not come between the
\* two statements of a deletion that read its members and lock its row.
FoundStands ==
  \A r \in Requests : CommitAccount(r) /\ req[r].forOrg =>
    \A s \in Requests : pc[s] # "deleteOrg"

\* Every account of the organization has a role in it,
Belonging ==
  org => \A a \in Accounts :
    account[a] # None /\ forOrg[account[a].invite] => a \in member

\* and a deletion has found every member.
Found ==
  org => \A r \in Requests :
    pc[r] \in {"deleteOrg", "cascade", "commitDelete"} => member \subseteq req[r].found

LEMMA MembersKept ==
  ASSUME NEW r \in Requests, Step(r), ~CommitAccount(r), ~CommitDelete(r)
  PROVE  UNCHANGED member
BY DEF Step, inviteOrganizationUser, inviteOrganizationRegister, inviteWarehouseUser,
   Send, FindInvite, consume_invite, DropOlder, InsertInvite, ReloadInvite, SaveInvite,
   RevokeInvite, CheckEmail, CheckUsername, CreateAccount, FindMembers,
   DeleteOrganization, Cascade, Rollback, tables

\* An organization that is there has not been deleted.
LEMMA StillThere ==
  ASSUME NEW r \in Requests, Step(r), org'
  PROVE  org /\ ~CommitDelete(r)
<1>1. ~CommitDelete(r)
  BY DEF CommitDelete
<1> QED
  BY <1>1, OrgKept

\* Only the first statement of a deletion comes before the one that locks the row.
LEMMA Finds ==
  ASSUME Typed, NEW r \in Requests, Step(r), pc'[r] = "deleteOrg"
  PROVE  FindMembers(r)
<1> USE DEF Goto
<1>0. pc \in [Requests -> Steps]
  BY DEF Typed, TypeOK
<1>1. ~End(r)
  BY <1>0 DEF End
<1>2. /\ \A e \in Emails : /\ ~inviteOrganizationUser(r, e)
                           /\ ~inviteOrganizationRegister(r, e)
                           /\ ~inviteWarehouseUser(r, e)
      /\ \A i \in Tokens : /\ ~FindInvite(r, i, "reload") /\ ~FindInvite(r, i, "revoke")
                           /\ \A n \in Usernames : ~consume_invite(r, i, n)
  BY <1>0 DEF inviteOrganizationUser, inviteOrganizationRegister, inviteWarehouseUser,
     Send, FindInvite, consume_invite
<1>3. /\ ~DropOlder(r) /\ ~ReloadInvite(r) /\ ~DeleteOrganization(r) /\ ~CheckEmail(r)
      /\ ~CheckUsername(r) /\ ~CreateAccount(r) /\ ~Cascade(r)
  BY <1>0, <1>1 DEF DropOlder, ReloadInvite, DeleteOrganization, CheckEmail,
     CheckUsername, CreateAccount, Cascade
<1>4. /\ ~InsertInvite(r) /\ ~SaveInvite(r) /\ ~RevokeInvite(r) /\ ~CommitAccount(r)
      /\ ~CommitDelete(r) /\ ~Rollback(r)
  BY <1>1 DEF InsertInvite, SaveInvite, RevokeInvite, CommitAccount, CommitDelete, Rollback
<1> QED
  BY <1>2, <1>3, <1>4 DEF Step

\* The lock on the row keeps out whoever would add a member.
LEMMA FoundStep ==
  ASSUME Typed, OrgExcluded, Found, FoundStands, NEW r \in Requests, Step(r)
  PROVE  Found'
<1>n. None \notin Requests
  BY NoneAssumption
<1> SUFFICES ASSUME org', NEW s \in Requests,
                    pc'[s] \in {"deleteOrg", "cascade", "commitDelete"}
             PROVE  member' \subseteq req'[s].found
  BY DEF Found
<1>1. org /\ ~CommitDelete(r)
  BY StillThere
<1>2. CASE s # r
  <2>1. pc'[s] = pc[s] /\ req'[s] = req[s]
    BY <1>2, Isolation DEF Isolated
  <2>2. ~(CommitAccount(r) /\ req[r].forOrg)
    <3>1. SUFFICES ASSUME CommitAccount(r), req[r].forOrg PROVE FALSE
      OBVIOUS
    <3>2. KeyShare(r) /\ pc[s] # "deleteOrg"
      BY <3>1 DEF CommitAccount, KeyShare, FoundStands
    <3> QED
      BY <1>n, <2>1, <3>2 DEF OrgExcluded
  <2>3. UNCHANGED member
    BY <1>1, <2>2, MembersKept DEF CommitAccount
  <2> QED
    BY <1>1, <2>1, <2>3 DEF Found
<1>3. CASE s = r
  <2>1. CASE pc'[r] = "deleteOrg"
    <3>1. FindMembers(r) /\ req \in [Requests -> Request]
      BY <2>1, Finds DEF Typed, TypeOK
    <3>2. req'[r].found = member /\ UNCHANGED member
      BY <3>1 DEF FindMembers, tables, Request
    <3> QED
      BY <1>3, <3>2
  <2>2. CASE pc'[r] \in {"cascade", "commitDelete"}
    <3>1. DeleteOrganization(r) \/ Cascade(r)
      BY <2>2, Deletes
    <3>2. /\ pc[r] \in {"deleteOrg", "cascade"}
          /\ UNCHANGED member /\ req'[r] = req[r]
      BY <2>2, <3>1 DEF DeleteOrganization, Cascade, End, Goto, tables, Typed, TypeOK
    <3> QED
      BY <1>1, <1>3, <3>2 DEF Found
  <2> QED
    BY <1>3, <2>1, <2>2
<1> QED
  BY <1>2, <1>3

\* What a step does to an account that is there afterwards.
LEMMA AccountStep ==
  ASSUME Typed, Held, NEW r \in Requests, Step(r), NEW a \in Accounts,
         account'[a] # None, forOrg'[account'[a].invite]
  PROVE  \/ CommitAccount(r) /\ req[r].forOrg /\ a = req[r].account
         \/ account[a] # None /\ forOrg[account[a].invite] /\ account'[a] = account[a]
<1>1. CASE CommitAccount(r) /\ a = req[r].account
  <2>1. account'[a].invite = req[r].invite /\ pc[r] = "commit"
    BY <1>1, CommitsOne
  <2>2. forOrg[req[r].invite] = req[r].forOrg /\ UNCHANGED forOrg
    BY <1>1, <2>1 DEF Held, Accepting, CommitAccount
  <2> QED
    BY <1>1, <2>1, <2>2
<1>2. CASE ~(CommitAccount(r) /\ a = req[r].account)
  <2>1. account[a] # None /\ account'[a] = account[a]
    BY <1>2, CommitsOne, AccountsKept
  <2>2. account[a].invite \in drawn
    BY <2>1 DEF Typed, Drawn
  <2> QED
    BY <2>1, <2>2, Isolation DEF Isolated
<1> QED
  BY <1>1, <1>2

LEMMA BelongingStep ==
  ASSUME Typed, Held, Belonging, NEW r \in Requests, Step(r)
  PROVE  Belonging'
<1> SUFFICES ASSUME org', NEW a \in Accounts, account'[a] # None,
                    forOrg'[account'[a].invite]
             PROVE  a \in member'
  BY DEF Belonging
<1>1. org /\ member \subseteq member'
  BY StillThere, MembersKept DEF CommitAccount
<1>2. CASE CommitAccount(r) /\ req[r].forOrg /\ a = req[r].account
  BY <1>2 DEF CommitAccount
<1>3. CASE account[a] # None /\ forOrg[account[a].invite]
  BY <1>1, <1>3 DEF Belonging
<1> QED
  BY <1>2, <1>3, AccountStep

LEMMA NoOrphansStep ==
  ASSUME Typed, Held, OrgExcluded, Belonging, Found, NoOrphans, NEW r \in Requests, Step(r)
  PROVE  NoOrphans'
<1> SUFFICES ASSUME ~org', NEW a \in Accounts, account'[a] # None,
                    forOrg'[account'[a].invite]
             PROVE  FALSE
  BY DEF NoOrphans
<1>1. ASSUME CommitAccount(r), req[r].forOrg PROVE FALSE
  BY <1>1 DEF CommitAccount, KeyShare, OrgExcluded
<1>2. account[a] # None /\ forOrg[account[a].invite] /\ account'[a] = account[a]
  BY <1>1, AccountStep
<1>3. org /\ CommitDelete(r)
  BY <1>2, OrgKept DEF NoOrphans
<1>4. a \in member /\ member \subseteq req[r].found
  BY <1>2, <1>3 DEF Belonging, Found, CommitDelete
<1> QED
  BY <1>2, <1>3, <1>4 DEF CommitDelete

OrphanInv == DeletionInv /\ Belonging /\ Found /\ NoOrphans

\* The deletion of the organization leaves no account of it, as
\* organization.service.ts promises, unless one is committed after the members have
\* been read and before the row of the organization is locked: that step alone is
\* behind the violation that the run shows, whatever else overlaps.
THEOREM DeletionLeavesNoAccounts ==
  Spec /\ [][FoundStands]_vars => []NoOrphans
<1>1. Init => OrphanInv
  BY TypedInit DEF Init, OrphanInv, DeletionInv, Held, OrgExcluded, Swept,
     NothingOutlivesOrganization, KeyShare, Accepting, Belonging, Found, NoOrphans
<1>2. OrphanInv /\ [Next]_vars /\ [FoundStands]_vars => OrphanInv'
  <2> SUFFICES ASSUME OrphanInv, [Next]_vars, [FoundStands]_vars
               PROVE  OrphanInv'
    OBVIOUS
  <2>1. CASE UNCHANGED vars
    BY <2>1, StutterTyped, HeldOther, DeletionOther
    DEF OrphanInv, DeletionInv, Belonging, Found, NoOrphans, vars
  <2>2. ASSUME FoundStands, NEW r \in Requests, Step(r)
        PROVE  OrphanInv'
    <3>1. DeletionInv'
      BY <2>2, StepTyped, HeldStep, OrgExcludedStep, SweptStep, OutlivesStep
      DEF OrphanInv, DeletionInv
    <3>2. Belonging' /\ Found' /\ NoOrphans'
      BY <2>2, BelongingStep, FoundStep, NoOrphansStep DEF OrphanInv, DeletionInv
    <3> QED
      BY <3>1, <3>2 DEF OrphanInv
  <2>3. ASSUME NEW i \in Tokens, Expire(i)
        PROVE  OrphanInv'
    <3>1. DeletionInv'
      BY <2>3, ExpireTyped, HeldOther, DeletionOther DEF OrphanInv, DeletionInv
    <3>2. Belonging' /\ Found' /\ NoOrphans'
      BY <2>3 DEF OrphanInv, Belonging, Found, NoOrphans, Expire
    <3> QED
      BY <3>1, <3>2 DEF OrphanInv
  <2> QED
    BY <2>1, <2>2, <2>3, NextSteps
<1>3. OrphanInv => NoOrphans
  BY DEF OrphanInv
<1> QED
  BY <1>1, <1>2, <1>3, PTL DEF Spec

=============================================================================
