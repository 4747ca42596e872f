------------------------ MODULE SessionAndPoolProofs ------------------------
(***************************************************************************)
(* What holds of the sessions for every number of users, tokens, requests, *)
(* every lifetime, and with or without outages of Redis; and of the pool   *)
(* of connections for every size, every number of requests and any number  *)
(* of queries they make.                                                   *)
(***************************************************************************)
EXTENDS Session, ConnectionPool, FiniteSetTheorems, SequenceTheorems, TLAPS

-----------------------------------------------------------------------------
(***************************************************************************)
(* The sessions                                                            *)
(***************************************************************************)

-----------------------------------------------------------------------------
(* Type correctness *)

\* A row drawn for a user is a row.
LEMMA NewRowType ==
  ASSUME TypeOK, NEW u \in Users, NEW p \in Tokens \cup {None}
  PROVE  NewRow(u, p) \in Row
BY LifetimeAssumption DEF TypeOK, NewRow, Row, Time

\* Marking a row as rotated keeps the rest of it.
LEMMA RotatedType ==
  ASSUME TypeOK, NEW t \in Tokens, rows[t] # None
  PROVE  /\ Rotated(t) \in Row
         /\ Rotated(t).user = rows[t].user
         /\ Rotated(t).parent = rows[t].parent
         /\ Rotated(t).expiresAt = rows[t].expiresAt
<1>1. rows[t] \in Row
  BY DEF TypeOK
<1> QED
  BY <1>1 DEF TypeOK, Rotated, Row

\* The owner of a row is a user.
LEMMA OwnerType ==
  ASSUME TypeOK, NEW t \in Tokens, rows[t] # None
  PROVE  rows[t].user \in Users
<1>1. rows[t] \in Row
  BY DEF TypeOK
<1> QED
  BY <1>1 DEF Row

\* The first state has the types of TypeOK.
LEMMA TypeInit == Init => TypeOK
BY LifetimeAssumption DEF Init, TypeOK, Time, Steps

\* A request that has begun names the user its token belongs to.
WhoOK == \A r \in Requests : pc[r] # "idle" => who[r] \in Users

Typed == TypeOK /\ WhoOK

\* Steps of a refresh request keep the types.
LEMMA TypeRefresh ==
  ASSUME Typed, NEW r \in Requests,
         \/ RefreshStep(r) \/ Abandon(r)
         \/ \E t \in Tokens : Rotate(r, t) \/ DetectReuse(r, t)
  PROVE  Typed'
<1> USE DEF Typed, TypeOK, WhoOK, Steps, Goto
<1>1. ASSUME NEW t \in Tokens, Rotate(r, t)
      PROVE  Typed'
  <2>1. PICK n \in Fresh :
          /\ rows' = [rows EXCEPT ![t] = Rotated(t), ![n] = NewRow(rows[t].user, t)]
          /\ issued' = issued \cup {n}
    BY <1>1 DEF Rotate
  <2>2. /\ rows[t].user \in Users /\ n \in Tokens
        /\ Rotated(t) \in Row /\ NewRow(rows[t].user, t) \in Row
    BY <1>1, OwnerType, RotatedType, NewRowType DEF Rotate, Live, Fresh
  <2> QED
    BY <1>1, <2>1, <2>2 DEF Rotate, removalVars
<1>2. ASSUME NEW t \in Tokens, DetectReuse(r, t)
      PROVE  Typed'
  <2>1. rows[t].user \in Users
    BY <1>2, OwnerType DEF DetectReuse, Live
  <2> QED
    BY <1>2, <2>1 DEF DetectReuse, removalVars
<1>3. CASE RevokeRowsBegin(r)
  BY <1>3 DEF RevokeRowsBegin, RowsOf, removalVars
<1>4. CASE RevokeRowsEnd(r)
  BY <1>4 DEF RevokeRowsEnd, removalVars
<1>5. CASE RevokeAccess(r)
  BY <1>5 DEF RevokeAccess, revokeUser, NoteRevocation, Finish, removalVars
<1>6. CASE getUserSession(r)
  BY <1>6 DEF getUserSession, Finish, removalVars
<1>7. CASE Mint(r)
  BY <1>7 DEF Mint, sendAccessToken, AccessToken, Finish, removalVars
<1>8. CASE Abandon(r)
  BY <1>8 DEF Abandon, Finish, removalVars
<1> QED
  BY <1>1, <1>2, <1>3, <1>4, <1>5, <1>6, <1>7, <1>8 DEF RefreshStep

\* Steps of a removal keep the types.
LEMMA TypeRemoval ==
  ASSUME Typed, NEW u \in Users,
         RemovalDelete(u) \/ RemovalStep(u) \/ RemovalRollback(u)
  PROVE  Typed'
<1> USE DEF Typed, TypeOK, WhoOK, SetRemoval, refreshVars
<1>1. CASE RemovalDelete(u)
  BY <1>1 DEF RemovalDelete, RowsOf
<1>2. CASE RemovalRevoke(u)
  BY <1>2 DEF RemovalRevoke, revokeUser, NoteRevocation
<1>3. CASE RemovalCommit(u)
  BY <1>3 DEF RemovalCommit
<1>4. CASE RemovalRollback(u)
  BY <1>4 DEF RemovalRollback
<1> QED
  BY <1>1, <1>2, <1>3, <1>4 DEF RemovalStep

\* Logins and logouts keep the types.
LEMMA TypeLogin ==
  ASSUME Typed, \/ \E u \in Users : issueSession(u)
                \/ \E t \in Tokens : endSession(t)
  PROVE  Typed'
<1> USE DEF Typed, TypeOK, WhoOK, removalVars, refreshVars
<1>1. ASSUME NEW u \in Users, issueSession(u)
      PROVE  Typed'
  <2>1. PICK t \in Fresh : create_refresh_token(u, t) /\ issued' = issued \cup {t}
    BY <1>1 DEF issueSession
  <2>2. NewRow(u, None) \in Row
    BY NewRowType
  <2> QED
    BY <1>1, <2>1, <2>2
       DEF issueSession, create_refresh_token, Fresh, sendAccessToken, AccessToken
<1>2. ASSUME NEW t \in Tokens, endSession(t)
      PROVE  Typed'
  BY <1>2 DEF endSession
<1> QED
  BY <1>1, <1>2

\* Every step keeps the types.
LEMMA TypeNext == Typed /\ [Next]_vars => Typed'
<1> SUFFICES ASSUME Typed, [Next]_vars PROVE Typed'
  OBVIOUS
<1>1. CASE Tick
  BY <1>1, LifetimeAssumption
     DEF Tick, Typed, TypeOK, WhoOK, Time, removalVars, refreshVars, Row, AccessToken
<1>2. CASE RedisFails \/ RedisRecovers
  BY <1>2 DEF RedisFails, RedisRecovers, Typed, TypeOK, WhoOK, removalVars, refreshVars
<1>3. CASE UNCHANGED vars
  BY <1>3 DEF vars, Typed, TypeOK, WhoOK
<1> QED
  BY <1>1, <1>2, <1>3, TypeRefresh, TypeRemoval, TypeLogin DEF Next

\* In every reachable state the variables have their types.
THEOREM TypeCorrect == Spec => []TypeOK
<1>1. Init => Typed
  BY TypeInit DEF Typed, WhoOK, Init
<1>2. Typed => TypeOK
  BY DEF Typed
<1> QED
  BY <1>1, <1>2, TypeNext, PTL DEF Spec

-----------------------------------------------------------------------------
(* Revocation *)

\* Redis holds the last revocation it acknowledged.
Recorded == cut = revokedAt

LEMMA RecordedNext == Recorded /\ [Next]_vars => Recorded'
<1> SUFFICES ASSUME Recorded, [Next]_vars PROVE Recorded'
  OBVIOUS
<1> USE DEF Recorded
<1>1. CASE \E u \in Users : RemovalRevoke(u)
  BY <1>1 DEF RemovalRevoke, revokeUser, NoteRevocation
<1>2. CASE \E r \in Requests : RevokeAccess(r)
  BY <1>2 DEF RevokeAccess, revokeUser, NoteRevocation
<1>3. CASE UNCHANGED <<revokedAt, cut>>
  BY <1>3
<1> QED
  BY <1>1, <1>2, <1>3
     DEF Next, vars, issueSession, endSession, Rotate, DetectReuse, RefreshStep,
         RevokeRowsBegin, RevokeRowsEnd, getUserSession, Mint, Abandon,
         RemovalDelete, RemovalStep, RemovalCommit, RemovalRollback, Tick,
         RedisFails, RedisRecovers

\* The entry of a revocation outlives every token it covers.
LEMMA EntryOutlivesTokens ==
  ASSUME TypeOK, Recorded, NEW a \in access,
         cut[a.user] # None, a.iat <= cut[a.user], now < a.iat + JwtTtl
  PROVE  Revocation(a.user) = cut[a.user]
<1>1. a.user \in Users /\ a.iat \in Nat /\ now \in Nat
  BY DEF TypeOK, AccessToken, Time
<1>2. cut[a.user] \in Nat
  BY <1>1, NoneAssumption DEF TypeOK, Time
<1> QED
  BY <1>1, <1>2, LifetimeAssumption DEF Revocation, ttlSeconds, Recorded

\* An acknowledged revocation is enforced until every token it covers has
\* expired; for removed users even while Redis cannot be reached.
THEOREM RevocationEnforced == Spec => []RevokedTokensRejected
<1>1. Init => Recorded
  BY DEF Init, Recorded
<1>2. TypeOK /\ Recorded => RevokedTokensRejected
  <2> SUFFICES ASSUME TypeOK, Recorded, NEW a \in access,
                      cut[a.user] # None, a.iat <= cut[a.user],
                      redisUp \/ ~member[a.user], validateToken(a)
               PROVE  FALSE
    BY DEF RevokedTokensRejected
  <2>1. Revocation(a.user) = cut[a.user]
    BY EntryOutlivesTokens DEF validateToken
  <2> QED
    BY <2>1 DEF validateToken, check
<1> QED
  BY <1>1, <1>2, RecordedNext, TypeCorrect, PTL DEF Spec

-----------------------------------------------------------------------------
(* Removal against rotation *)

\* A removal deletes the rows it found and locks out every other writer, so no
\* row it did not find can be there when it commits.
RemovalInv ==
  \A u \in Users :
    /\ removal[u] # "idle" => member[u] /\ RowsOf(u) \subseteq doomed[u]
    /\ ~member[u] => RowsOf(u) = {}

\* Writing a row of an unlocked member, and nothing of anyone else's.
LEMMA RemovalInvWrite ==
  ASSUME Typed, RemovalInv, NEW v \in Users, member[v], Unlocked(v),
         UNCHANGED removalVars,
         \A u \in Users \ {v} : RowsOf(u)' \subseteq RowsOf(u)
  PROVE  RemovalInv'
BY DEF RemovalInv, Unlocked, removalVars

\* Deleting rows, whoever owns them.
LEMMA RemovalInvShrink ==
  ASSUME RemovalInv, UNCHANGED removalVars,
         \A u \in Users : RowsOf(u)' \subseteq RowsOf(u)
  PROVE  RemovalInv'
BY DEF RemovalInv, removalVars

LEMMA RemovalInvNext == Typed /\ RemovalInv /\ [Next]_vars => RemovalInv'
<1> SUFFICES ASSUME Typed, RemovalInv, [Next]_vars PROVE RemovalInv'
  OBVIOUS
<1>1. ASSUME NEW u \in Users, issueSession(u) PROVE RemovalInv'
  <2>1. PICK t \in Fresh : create_refresh_token(u, t)
    BY <1>1 DEF issueSession
  <2>2. \A v \in Users \ {u} : RowsOf(v)' \subseteq RowsOf(v)
    BY <2>1, NoneAssumption DEF create_refresh_token, RowsOf, NewRow, Fresh
  <2> QED
    BY <1>1, <2>2, RemovalInvWrite DEF issueSession
<1>2. ASSUME NEW r \in Requests, NEW t \in Tokens, Rotate(r, t) PROVE RemovalInv'
  <2> DEFINE u == rows[t].user
  <2>1. u \in Users /\ t \in RowsOf(u)
    BY <1>2, OwnerType DEF Rotate, Live, Typed, RowsOf
  <2>2. PICK n \in Fresh :
          rows' = [rows EXCEPT ![t] = Rotated(t), ![n] = NewRow(u, t)]
    BY <1>2 DEF Rotate
  <2>3. Rotated(t).user = u /\ rows \in [Tokens -> Row \cup {None}]
    BY <1>2, RotatedType DEF Rotate, Live, Typed, TypeOK
  <2>4. \A v \in Users \ {u} : RowsOf(v)' \subseteq RowsOf(v)
    BY <2>1, <2>2, <2>3 DEF RowsOf, NewRow, Fresh
  <2>5. member[u] /\ Unlocked(u)
    BY <1>2, <2>1 DEF Rotate, RemovalInv
  <2> HIDE DEF u
  <2> QED
    BY <1>2, <2>1, <2>4, <2>5, RemovalInvWrite DEF Rotate
<1>3. ASSUME NEW t \in Tokens, endSession(t) PROVE RemovalInv'
  BY <1>3, RemovalInvShrink DEF endSession, RowsOf, Typed, TypeOK
<1>4. ASSUME NEW r \in Requests, RevokeRowsEnd(r) PROVE RemovalInv'
  BY <1>4, RemovalInvShrink DEF RevokeRowsEnd, RowsOf
<1>5. ASSUME NEW u \in Users, RemovalDelete(u) PROVE RemovalInv'
  BY <1>5 DEF RemovalDelete, SetRemoval, RemovalInv, RowsOf, Typed, TypeOK
<1>6. ASSUME NEW u \in Users, RemovalRevoke(u) PROVE RemovalInv'
  BY <1>6 DEF RemovalRevoke, SetRemoval, RemovalInv, RowsOf, Typed, TypeOK
<1>7. ASSUME NEW u \in Users, RemovalCommit(u) PROVE RemovalInv'
  <2>1. RowsOf(u)' = {}
    BY <1>7 DEF RemovalCommit, RemovalInv, RowsOf
  <2>2. \A v \in Users : RowsOf(v)' \subseteq RowsOf(v)
    BY <1>7 DEF RemovalCommit, RowsOf
  <2> QED
    BY <1>7, <2>1, <2>2 DEF RemovalCommit, SetRemoval, RemovalInv, Typed, TypeOK
<1>8. ASSUME NEW u \in Users, RemovalRollback(u) PROVE RemovalInv'
  BY <1>8 DEF RemovalRollback, SetRemoval, RemovalInv, RowsOf, Typed, TypeOK
<1>9. CASE UNCHANGED <<removalVars, rows>>
  BY <1>9 DEF RemovalInv, RowsOf, removalVars
<1> QED
  BY <1>1, <1>2, <1>3, <1>4, <1>5, <1>6, <1>7, <1>8, <1>9
     DEF Next, vars, removalVars, DetectReuse, RefreshStep, RevokeRowsBegin,
         RevokeAccess, getUserSession, Mint, Abandon, RemovalStep, Tick,
         RedisFails, RedisRecovers

LEMMA RemovalInvariant == Spec => [](Typed /\ RemovalInv)
<1>1. Init => Typed /\ RemovalInv
  BY TypeInit DEF Typed, WhoOK, Init, RemovalInv, RowsOf
<1> QED
  BY <1>1, TypeNext, RemovalInvNext, PTL DEF Spec

\* A committed removal leaves the user no refresh token, however it raced with
\* rotations, logins and reuse detections.
THEOREM RemovalEndsRefreshing == Spec => []RemovedHaveNoRefreshTokens
<1>1. RemovalInv => RemovedHaveNoRefreshTokens
  BY DEF RemovalInv, RemovedHaveNoRefreshTokens
<1> QED
  BY <1>1, RemovalInvariant, PTL

-----------------------------------------------------------------------------
(* Rotation *)

\* What the row of s says about the row of the token it was rotated out of.
BornInGrace(s) ==
  LET p == rows[s].parent IN
    (rows[s] # None /\ p # None /\ rows[p] # None)
    => /\ rows[p].rotatedAt # None
       /\ rows[p].rotatedAt <= Created(s)
       /\ Created(s) < rows[p].rotatedAt + Grace

IssuedOnce ==
  \A t \in Tokens : rows[t] # None =>
    /\ t \in issued
    /\ rows[t].parent # None => rows[t].parent \in issued
    /\ rows[t].rotatedAt # None => rows[t].rotatedAt <= now

\* The first rotation fixes rotatedAt; every successor is born within Grace of it.
RotationInv == IssuedOnce /\ \A s \in Tokens : BornInGrace(s)

\* Deleting rows keeps what the others say of their parents.
LEMMA RotationInvShrink ==
  ASSUME Typed, RotationInv, issued' = issued, now' = now,
         \A t \in Tokens : rows'[t] = rows[t] \/ rows'[t] = None
  PROVE  RotationInv'
<1>1. \A t \in Tokens : rows'[t] # None => rows'[t] = rows[t]
  OBVIOUS
<1>2. IssuedOnce'
  BY <1>1 DEF RotationInv, IssuedOnce
<1>3. ASSUME NEW s \in Tokens PROVE BornInGrace(s)'
  <2> SUFFICES ASSUME rows'[s] # None, rows'[s].parent # None,
                      rows'[rows'[s].parent] # None
               PROVE  BornInGrace(s)'
    BY DEF BornInGrace
  <2>1. rows[s] \in Row /\ rows'[s] = rows[s]
    BY <1>1 DEF Typed, TypeOK
  <2>2. rows[s].parent \in Tokens
    BY <2>1 DEF Row
  <2>3. rows'[rows[s].parent] = rows[rows[s].parent]
    BY <1>1, <2>1, <2>2
  <2> QED
    BY <2>1, <2>2, <2>3 DEF RotationInv, BornInGrace, Created
<1> QED
  BY <1>2, <1>3 DEF RotationInv

\* A login adds a row without a parent, and purges expired ones.
LEMMA RotationInvLogin ==
  ASSUME Typed, RotationInv, NEW u \in Users, issueSession(u)
  PROVE  RotationInv'
<1>1. PICK n \in Fresh : create_refresh_token(u, n) /\ issued' = issued \cup {n}
  BY DEF issueSession
<1>2. n \in Tokens /\ rows[n] = None
  BY <1>1 DEF Fresh, RotationInv, IssuedOnce
<1>3. rows'[n].parent = None /\ rows'[n].rotatedAt = None /\ now' = now
  BY <1>1, <1>2 DEF create_refresh_token, NewRow, issueSession
<1>4. \A t \in Tokens \ {n} : rows'[t] # None => rows'[t] = rows[t]
  BY <1>1 DEF create_refresh_token
<1>5. IssuedOnce'
  BY <1>1, <1>2, <1>3, <1>4 DEF RotationInv, IssuedOnce
<1>6. ASSUME NEW s \in Tokens PROVE BornInGrace(s)'
  <2> SUFFICES ASSUME rows'[s] # None, rows'[s].parent # None,
                      rows'[rows'[s].parent] # None
               PROVE  BornInGrace(s)'
    BY DEF BornInGrace
  <2>1. s # n /\ rows'[s] = rows[s] /\ rows[s] \in Row
    BY <1>3, <1>4 DEF Typed, TypeOK
  <2>2. rows[s].parent \in issued /\ rows[s].parent \in Tokens
    BY <2>1 DEF Row, RotationInv, IssuedOnce
  <2>3. rows[s].parent # n
    BY <1>1, <2>2 DEF Fresh
  <2>4. rows'[rows[s].parent] = rows[rows[s].parent]
    BY <1>4, <2>1, <2>2, <2>3
  <2> QED
    BY <2>1, <2>2, <2>4 DEF RotationInv, BornInGrace, Created
<1> QED
  BY <1>5, <1>6 DEF RotationInv

\* A rotation adds a successor of t while t's first rotation is recent.
LEMMA RotationInvRotate ==
  ASSUME Typed, RotationInv, NEW r \in Requests, NEW t \in Tokens, Rotate(r, t)
  PROVE  RotationInv'
<1> DEFINE u == rows[t].user
<1>1. PICK n \in Fresh :
        /\ rows' = [rows EXCEPT ![t] = Rotated(t), ![n] = NewRow(u, t)]
        /\ issued' = issued \cup {n}
  BY DEF Rotate
<1>2. /\ n \in Tokens /\ rows[n] = None /\ n # t
      /\ rows[t] # None /\ rows[t] \in Row /\ t \in issued
      /\ rows \in [Tokens -> Row \cup {None}]
  BY <1>1 DEF Fresh, RotationInv, IssuedOnce, Rotate, Live, Typed, TypeOK
<1>3. /\ rows'[n] = NewRow(u, t) /\ rows'[t] = Rotated(t)
      /\ \A s \in Tokens \ {n, t} : rows'[s] = rows[s]
  BY <1>1, <1>2
<1>4. /\ Rotated(t).parent = rows[t].parent
      /\ Rotated(t).expiresAt = rows[t].expiresAt
      /\ Rotated(t) \in Row
  BY <1>2, RotatedType DEF Typed
<1>5. /\ rows'[n].parent = t /\ rows'[n].expiresAt = now + RefreshTtl
      /\ rows'[n].rotatedAt = None /\ now' = now
  BY <1>3 DEF NewRow, Rotate
<1>6. /\ Rotated(t).rotatedAt # None
      /\ rows[t].rotatedAt # None => Rotated(t).rotatedAt = rows[t].rotatedAt
      /\ Rotated(t).rotatedAt <= now
      /\ now < Rotated(t).rotatedAt + Grace
  <2>1. now \in Nat /\ now # None
    BY NoneAssumption DEF Typed, TypeOK, Time
  <2>2. CASE rows[t].rotatedAt = None
    BY <1>2, <2>1, <2>2, LifetimeAssumption DEF Rotated, Row
  <2>3. CASE rows[t].rotatedAt # None
    <3>1. rows[t].rotatedAt \in Nat /\ Rotated(t).rotatedAt = rows[t].rotatedAt
      BY <1>2, <2>3 DEF Row, Time, Rotated
    <3>2. ~(rows[t].rotatedAt <= now - Grace)
      BY <2>3 DEF Rotate, IsReused
    <3>3. rows[t].rotatedAt <= now
      BY <1>2, <2>3 DEF RotationInv, IssuedOnce
    <3> QED
      BY <2>1, <2>3, <3>1, <3>2, <3>3, LifetimeAssumption
  <2> QED
    BY <2>2, <2>3
<1>7. IssuedOnce'
  BY <1>1, <1>2, <1>3, <1>4, <1>5, <1>6 DEF RotationInv, IssuedOnce
<1>8. ASSUME NEW s \in Tokens PROVE BornInGrace(s)'
  <2> SUFFICES ASSUME rows'[s] # None, rows'[s].parent # None,
                      rows'[rows'[s].parent] # None
               PROVE  BornInGrace(s)'
    BY DEF BornInGrace
  <2>1. CASE s = n
    BY <1>2, <1>3, <1>5, <1>6, <2>1, LifetimeAssumption
       DEF BornInGrace, Created, Typed, TypeOK, Time
  <2>2. CASE s # n
    <3>1. /\ rows[s] # None /\ rows[s] \in Row
          /\ rows'[s].parent = rows[s].parent
          /\ rows'[s].expiresAt = rows[s].expiresAt
      BY <1>2, <1>3, <1>4, <2>2
    <3>2. rows[s].parent \in issued /\ rows[s].parent \in Tokens \ {n}
      BY <1>1, <3>1 DEF Fresh, Row, RotationInv, IssuedOnce
    <3>3. CASE rows[s].parent # t
      BY <1>3, <3>1, <3>2, <3>3 DEF RotationInv, BornInGrace, Created
    <3>4. CASE rows[s].parent = t
      BY <1>2, <1>3, <1>6, <3>1, <3>2, <3>4 DEF RotationInv, BornInGrace, Created
    <3> QED
      BY <3>3, <3>4
  <2> QED
    BY <2>1, <2>2
<1> QED
  BY <1>7, <1>8 DEF RotationInv

LEMMA RotationInvNext == Typed /\ RotationInv /\ [Next]_vars => RotationInv'
<1> SUFFICES ASSUME Typed, RotationInv, [Next]_vars PROVE RotationInv'
  OBVIOUS
<1>1. ASSUME NEW t \in Tokens, endSession(t) PROVE RotationInv'
  BY <1>1, RotationInvShrink DEF endSession, Typed, TypeOK
<1>2. ASSUME NEW r \in Requests, RevokeRowsEnd(r) PROVE RotationInv'
  BY <1>2, RotationInvShrink DEF RevokeRowsEnd
<1>3. ASSUME NEW u \in Users, RemovalCommit(u) PROVE RotationInv'
  BY <1>3, RotationInvShrink DEF RemovalCommit
<1>4. CASE Tick
  BY <1>4 DEF Tick, RotationInv, IssuedOnce, BornInGrace, Created, Typed, TypeOK,
              Time, Row
<1>5. CASE UNCHANGED <<now, rows, issued>>
  BY <1>5 DEF RotationInv, IssuedOnce, BornInGrace, Created
<1> QED
  BY <1>1, <1>2, <1>3, <1>4, <1>5, RotationInvLogin, RotationInvRotate
     DEF Next, vars, DetectReuse, RefreshStep, RevokeRowsBegin, RevokeAccess,
         getUserSession, Mint, Abandon, RemovalDelete, RemovalStep, RemovalRevoke,
         RemovalRollback, RedisFails, RedisRecovers

\* The refresh tokens rotated out of one parent were all drawn within the grace
\* period, so a copied token cannot be kept useful by presenting it repeatedly.
THEOREM RotationBounded == Spec => []SuccessorsWithinGrace
<1>1. Init => RotationInv
  BY DEF Init, RotationInv, IssuedOnce, BornInGrace
<1>2. RotationInv => SuccessorsWithinGrace
  BY DEF RotationInv, BornInGrace, SuccessorsWithinGrace
<1>3. Init => Typed
  BY TypeInit DEF Typed, WhoOK, Init
<1> QED
  BY <1>1, <1>2, <1>3, TypeNext, RotationInvNext, PTL DEF Spec

-----------------------------------------------------------------------------
(* Sessions of removed users *)

\* One step after a removal: no refresh begins to mint, and a token that is
\* minted belongs to a refresh that had begun to.
NoNewSession(u) ==
  /\ Minting(u)' \subseteq Minting(u)
  /\ \A a \in access' \ access : a.user = u => Minting(u) # {}

LEMMA NoSessionStep ==
  ASSUME Typed, [Next]_vars, NEW u \in Users, ~member[u]
  PROVE  NoNewSession(u)
<1> USE DEF NoNewSession, Minting, Goto, Finish, Typed, TypeOK, Steps
<1>1. ASSUME NEW v \in Users, issueSession(v) PROVE NoNewSession(u)
  BY <1>1 DEF issueSession, sendAccessToken, refreshVars
<1>2. ASSUME NEW r \in Requests, Mint(r) PROVE NoNewSession(u)
  BY <1>2 DEF Mint, sendAccessToken
<1>3. ASSUME NEW r \in Requests, getUserSession(r) PROVE NoNewSession(u)
  BY <1>3 DEF getUserSession
<1>4. ASSUME NEW r \in Requests, NEW t \in Tokens, Rotate(r, t) \/ DetectReuse(r, t)
      PROVE  NoNewSession(u)
  BY <1>4 DEF Rotate, DetectReuse
<1>5. ASSUME NEW r \in Requests,
             \/ RevokeRowsBegin(r) \/ RevokeRowsEnd(r) \/ RevokeAccess(r) \/ Abandon(r)
      PROVE  NoNewSession(u)
  BY <1>5 DEF RevokeRowsBegin, RevokeRowsEnd, RevokeAccess, Abandon
<1>6. CASE UNCHANGED <<access, refreshVars>>
  BY <1>6 DEF refreshVars
<1> QED
  BY <1>1, <1>2, <1>3, <1>4, <1>5, <1>6
     DEF Next, vars, refreshVars, endSession, RefreshStep, RemovalDelete,
         RemovalStep, RemovalRevoke, RemovalCommit, RemovalRollback, Tick,
         RedisFails, RedisRecovers

\* After a removal has committed, access tokens of the user come only from
\* refreshes that had read the session before it did.
THEOREM RemovalStopsSessions == Spec => NoSessionAfterRemoval
<1>1. Typed /\ [Next]_vars =>
        [\A u \in Users : ~member[u] =>
           /\ Minting(u)' \subseteq Minting(u)
           /\ \A a \in access' \ access : a.user = u => Minting(u) # {}]_vars
  BY NoSessionStep DEF NoNewSession
<1>2. Spec => []Typed
  BY RemovalInvariant, PTL
<1> QED
  BY <1>1, <1>2, PTL DEF Spec, NoSessionAfterRemoval

-----------------------------------------------------------------------------
(* Access tokens of removed users *)

\* A removal reaches Redis, and no refresh signs a token between the revocation of
\* its user and the commit, or later.
SignedInTime ==
  /\ \A u \in Users : RemovalRevoke(u) => redisUp
  /\ \A r \in Requests : Mint(r) => member[who[r]] /\ removal[who[r]] # "revoked"

\* No token is from the future.
SignedBefore == \A a \in access : a.iat <= now

\* From the revocation on, every token of the user is covered by it.
Covered ==
  \A u \in Users : ~member[u] \/ removal[u] = "revoked" =>
    cut[u] # None /\ \A a \in access : a.user = u => a.iat <= cut[u]

\* Tokens are signed in two places.
LEMMA Signing ==
  ASSUME Next, NEW a \in access' \ access
  PROVE  /\ a.iat = now /\ UNCHANGED <<now, cut, member, removal>>
         /\ \/ \E u \in Users : a.user = u /\ member[u] /\ removal[u] = "idle"
            \/ \E r \in Requests : a.user = who[r] /\ Mint(r)
<1>1. ASSUME NEW u \in Users, issueSession(u)
      PROVE  a.user = u /\ a.iat = now /\ member[u] /\ removal[u] = "idle"
             /\ UNCHANGED <<now, cut, member, removal>>
  BY <1>1 DEF issueSession, sendAccessToken, Unlocked, removalVars
<1>2. ASSUME NEW r \in Requests, Mint(r)
      PROVE  a.user = who[r] /\ a.iat = now /\ UNCHANGED <<now, cut, member, removal>>
  BY <1>2 DEF Mint, sendAccessToken, removalVars
<1>3. CASE UNCHANGED access
  BY <1>3
<1> QED
  BY <1>1, <1>2, <1>3
  DEF Next, endSession, Rotate, DetectReuse, RefreshStep, RevokeRowsBegin, RevokeRowsEnd,
      RevokeAccess, getUserSession, Abandon, RemovalDelete, RemovalStep, RemovalRevoke,
      RemovalCommit, RemovalRollback, Tick, RedisFails, RedisRecovers

\* The clock goes forward, and a revocation is of the present.
LEMMA Revoking ==
  ASSUME Typed, Next
  PROVE  /\ now <= now'
         /\ \A u \in Users : cut'[u] = cut[u] \/ (cut'[u] = now /\ UNCHANGED access)
<1>1. CASE UNCHANGED <<now, cut>>
  BY <1>1 DEF Typed, TypeOK, Time
<1>2. CASE Tick
  BY <1>2 DEF Tick, Typed, TypeOK, Time
<1>3. ASSUME NEW v, NoteRevocation(v), UNCHANGED <<now, access>>
      PROVE  /\ now <= now'
             /\ \A u \in Users : cut'[u] = cut[u] \/ (cut'[u] = now /\ UNCHANGED access)
  BY <1>3 DEF NoteRevocation, Typed, TypeOK, Time
<1> QED
  BY <1>1, <1>2, <1>3
  DEF Next, issueSession, endSession, Rotate, DetectReuse, RefreshStep, RevokeRowsBegin,
      RevokeRowsEnd, RevokeAccess, getUserSession, Mint, Abandon, RemovalDelete,
      RemovalStep, RemovalRevoke, RemovalCommit, RemovalRollback, RedisFails, RedisRecovers

\* A user comes to be removed, or about to be, by a revocation.
LEMMA Removing ==
  ASSUME Typed, Next, NEW u \in Users, ~member'[u] \/ removal'[u] = "revoked"
  PROVE  ~member[u] \/ removal[u] = "revoked" \/ RemovalRevoke(u)
<1> USE DEF Typed, TypeOK
<1>1. CASE UNCHANGED <<member, removal>>
  BY <1>1
<1>2. ASSUME NEW v \in Users, RemovalDelete(v)
      PROVE  ~member[u] \/ removal[u] = "revoked"
  BY <1>2 DEF RemovalDelete, SetRemoval
<1>3. ASSUME NEW v \in Users, RemovalRevoke(v)
      PROVE  ~member[u] \/ removal[u] = "revoked" \/ RemovalRevoke(u)
  BY <1>3 DEF RemovalRevoke, SetRemoval
<1>4. ASSUME NEW v \in Users, RemovalCommit(v)
      PROVE  ~member[u] \/ removal[u] = "revoked"
  BY <1>4 DEF RemovalCommit, SetRemoval
<1>5. ASSUME NEW v \in Users, RemovalRollback(v)
      PROVE  ~member[u] \/ removal[u] = "revoked"
  BY <1>5 DEF RemovalRollback, SetRemoval
<1> QED
  BY <1>1, <1>2, <1>3, <1>4, <1>5
  DEF Next, issueSession, endSession, Rotate, DetectReuse, RefreshStep, RevokeRowsBegin,
      RevokeRowsEnd, RevokeAccess, getUserSession, Mint, Abandon, RemovalStep, Tick,
      RedisFails, RedisRecovers, removalVars

LEMMA CoveredNext ==
  ASSUME Typed, SignedBefore, Covered, Next, SignedInTime
  PROVE  SignedBefore' /\ Covered'
<1>0. /\ now \in Nat /\ \A a \in access : a.iat \in Nat
      /\ \A u \in Users : cut[u] \in Nat \cup {None}
  BY DEF Typed, TypeOK, AccessToken, Time
<1>t. None \notin Nat
  BY NoneAssumption
<1>1. SignedBefore'
  <2> SUFFICES ASSUME NEW a \in access' PROVE a.iat <= now'
    BY DEF SignedBefore
  <2>1. CASE a \in access
    <3>1. a.iat <= now /\ now <= now' /\ now' \in Nat
      BY <2>1, Revoking, TypeNext DEF SignedBefore, Typed, TypeOK, Time
    <3> QED
      BY <1>0, <2>1, <3>1
  <2>2. CASE a \notin access
    BY <1>0, <2>2, Signing
  <2> QED
    BY <2>1, <2>2
<1>2. Covered'
  <2> SUFFICES ASSUME NEW u \in Users, ~member'[u] \/ removal'[u] = "revoked"
               PROVE  cut'[u] # None /\ \A a \in access' : a.user = u => a.iat <= cut'[u]
    BY DEF Covered
  <2>1. CASE RemovalRevoke(u)
    <3>1. cut'[u] = now /\ UNCHANGED access
      BY <2>1 DEF RemovalRevoke, NoteRevocation, SignedInTime, Typed, TypeOK
    <3> QED
      BY <1>0, <1>t, <3>1 DEF SignedBefore
  <2>2. CASE ~member[u] \/ removal[u] = "revoked"
    <3>1. cut[u] # None /\ \A a \in access : a.user = u => a.iat <= cut[u]
      BY <2>2 DEF Covered
    <3>2. \A a \in access' \ access : a.user # u
      BY <2>2, Signing DEF SignedInTime
    <3>3. CASE cut'[u] = cut[u]
      BY <3>1, <3>2, <3>3
    <3>4. CASE cut'[u] = now /\ UNCHANGED access
      BY <1>0, <1>t, <3>4 DEF SignedBefore
    <3> QED
      BY <3>3, <3>4, Revoking
  <2> QED
    BY <2>1, <2>2, Removing
<1> QED
  BY <1>1, <1>2

\* The access tokens of a removed user are refused as soon as the removal has
\* committed, as the README promises, for every token, clock and outage, unless Redis
\* was away when the revocation was written, or a refresh signs a token after it, as
\* in the violation that the run shows: nothing else lets a removed user in.
THEOREM RemovedUsersAreOut ==
  Spec /\ [][SignedInTime]_vars => []RemovedLoseAccess
<1>1. Init => SignedBefore /\ Covered
  BY DEF Init, SignedBefore, Covered
<1>2. Typed /\ SignedBefore /\ Covered /\ [Next]_vars /\ [SignedInTime]_vars
        => SignedBefore' /\ Covered'
  <2>1. CASE UNCHANGED vars
    BY <2>1 DEF vars, removalVars, SignedBefore, Covered
  <2>2. ASSUME Typed, SignedBefore, Covered, Next, SignedInTime
        PROVE  SignedBefore' /\ Covered'
    BY <2>2, CoveredNext
  <2> QED
    BY <2>1, <2>2
<1>3. Typed /\ Covered /\ RevokedTokensRejected => RemovedLoseAccess
  BY DEF Typed, TypeOK, AccessToken, Covered, RevokedTokensRejected, RemovedLoseAccess
<1>4. Spec => []Typed
  BY RemovalInvariant, PTL
<1> QED
  BY <1>1, <1>2, <1>3, <1>4, RevocationEnforced, PTL DEF Spec

-----------------------------------------------------------------------------
(* The life of a token *)

Life == [t \in Tokens |-> Stage(t)]

From == [t \in Tokens |-> Parent(t)]

\* The stage of a token is one that TokenLife knows.
LEMMA StageType == \A t \in Tokens : Stage(t) \in Abstract!Stages
BY DEF Stage, Abstract!Stages

\* A login begins the life of one token; what it purges was gone already.
LEMMA LoginIssues ==
  ASSUME Typed, RotationInv, NEW u \in Users, issueSession(u)
  PROVE  \E n \in Tokens : /\ Stage(n) = "unissued"
                           /\ Life' = [Life EXCEPT ![n] = "live"] /\ From' = From
<1>1. PICK n \in Fresh : create_refresh_token(u, n) /\ issued' = issued \cup {n}
  BY DEF issueSession
<1>2. n \in Tokens /\ n \notin issued /\ now' = now /\ now \in Nat
  BY <1>1 DEF Fresh, issueSession, Typed, TypeOK, Time
<1>3. rows'[n] = NewRow(u, None)
  BY <1>1, <1>2 DEF create_refresh_token
<1>4. /\ rows'[n] # None /\ rows'[n].expiresAt = now + RefreshTtl
      /\ rows'[n].rotatedAt = None /\ rows'[n].parent = None
  <2>1. NewRow(u, None) \in Row
    BY NewRowType DEF Typed
  <2> QED
    BY <1>3, <2>1, NoRowAssumption DEF NewRow
<1>5. Stage(n)' = "live" /\ Parent(n)' = None
  BY <1>1, <1>2, <1>4, LifetimeAssumption DEF Stage, Parent, Live
<1>6. ASSUME NEW t \in Tokens, t # n
      PROVE  Stage(t)' = Stage(t) /\ Parent(t)' = Parent(t)
  <2>1. rows'[t] = rows[t] \/ (~Live(t) /\ rows'[t] = None)
    BY <1>1, <1>6 DEF create_refresh_token
  <2> QED
    BY <1>1, <1>2, <1>6, <2>1 DEF Stage, Parent, Live
<1>7. Stage(n) = "unissued" /\ Parent(n) = None
  BY <1>2 DEF Stage, Parent, Live, RotationInv, IssuedOnce
<1>8. Life' = [Life EXCEPT ![n] = "live"]
  BY <1>2, <1>5, <1>6 DEF Life
<1>9. From' = From
  BY <1>2, <1>5, <1>6, <1>7 DEF From
<1> QED
  BY <1>2, <1>7, <1>8, <1>9

\* A rotation renews a token that is live or in its grace period.
LEMMA RotateRenews ==
  ASSUME Typed, RotationInv, NEW r \in Requests, NEW t \in Tokens, Rotate(r, t)
  PROVE  \E n \in Tokens : /\ Stage(t) \in {"live", "grace"} /\ Stage(n) = "unissued"
                           /\ Life' = [Life EXCEPT ![t] = "grace", ![n] = "live"]
                           /\ From' = [From EXCEPT ![n] = t]
<1> DEFINE u == rows[t].user
<1>1. PICK n \in Fresh :
        /\ rows' = [rows EXCEPT ![t] = Rotated(t), ![n] = NewRow(u, t)]
        /\ issued' = issued \cup {n}
  BY DEF Rotate
<1>2. /\ n \in Tokens /\ n \notin issued /\ n # t /\ t \in issued
      /\ now' = now /\ now \in Nat
      /\ rows[t] # None /\ now < rows[t].expiresAt /\ rows[t] \in Row
      /\ rows \in [Tokens -> Row \cup {None}]
  BY <1>1 DEF Fresh, Rotate, Live, Typed, TypeOK, Time, RotationInv, IssuedOnce
<1>3. /\ rows'[n] = NewRow(u, t) /\ rows'[t] = Rotated(t)
      /\ \A s \in Tokens \ {n, t} : rows'[s] = rows[s]
  BY <1>1, <1>2
<1>4. rows[t].rotatedAt # None => rows[t].rotatedAt \in Nat /\ now < rows[t].rotatedAt + Grace
  BY <1>2, LifetimeAssumption DEF Rotate, IsReused, Row, Time
<1>5. Stage(t) \in {"live", "grace"}
  BY <1>2, <1>4 DEF Stage, Live
<1>6. /\ Rotated(t) # None /\ Rotated(t).expiresAt = rows[t].expiresAt
      /\ Rotated(t).rotatedAt # None /\ now < Rotated(t).rotatedAt + Grace
  <2>1. Rotated(t) \in Row /\ Rotated(t).expiresAt = rows[t].expiresAt
    BY <1>2, RotatedType DEF Typed
  <2>2. CASE rows[t].rotatedAt = None
    <3>1. Rotated(t).rotatedAt = now
      BY <1>2, <2>2 DEF Rotated, Row
    <3> QED
      BY <1>2, <2>1, <3>1, LifetimeAssumption, NoneAssumption, NoRowAssumption
  <2>3. CASE rows[t].rotatedAt # None
    <3>1. Rotated(t).rotatedAt = rows[t].rotatedAt
      BY <1>2, <2>3 DEF Rotated, Row
    <3> QED
      BY <1>4, <2>1, <2>3, <3>1, NoRowAssumption
  <2> QED
    BY <2>2, <2>3
<1>7. Stage(t)' = "grace" /\ Parent(t)' = Parent(t)
  <2>1. Rotated(t).parent = rows[t].parent
    BY <1>2, RotatedType DEF Typed
  <2> QED
    BY <1>1, <1>2, <1>3, <1>6, <2>1 DEF Stage, Parent, Live
<1>8. /\ rows'[n] # None /\ rows'[n].expiresAt = now + RefreshTtl
      /\ rows'[n].rotatedAt = None /\ rows'[n].parent = t
  <2>1. u \in Users
    BY <1>2 DEF Row
  <2>2. NewRow(u, t) \in Row
    BY <2>1, NewRowType DEF Typed
  <2> QED
    BY <1>3, <2>2, NoRowAssumption DEF NewRow
<1>9. Stage(n)' = "live" /\ Parent(n)' = t
  BY <1>1, <1>2, <1>8, LifetimeAssumption DEF Stage, Parent, Live
<1>10. \A s \in Tokens \ {n, t} : Stage(s)' = Stage(s) /\ Parent(s)' = Parent(s)
  BY <1>1, <1>2, <1>3 DEF Stage, Parent, Live
<1>11. Life' = [Life EXCEPT ![t] = "grace", ![n] = "live"]
  BY <1>2, <1>7, <1>9, <1>10 DEF Life
<1>12. From' = [From EXCEPT ![n] = t]
  BY <1>2, <1>7, <1>9, <1>10 DEF From
<1>13. Stage(n) = "unissued"
  BY <1>2 DEF Stage
<1> QED
  BY <1>2, <1>5, <1>11, <1>12, <1>13

\* What a token's stage and parent may do in a step that draws none.
Fades(t) ==
  /\ Abstract!Ages(Stage(t), Stage(t)')
  /\ Parent(t)' = IF Stage(t)' = "gone" THEN None ELSE Parent(t)

\* Rows that are deleted leave their tokens gone.
LEMMA DeletionFades ==
  ASSUME issued' = issued, now' = now,
         \A t \in Tokens : rows'[t] = rows[t] \/ rows'[t] = None,
         \A t \in Tokens : rows[t] # None => t \in issued
  PROVE  \A t \in Tokens : Fades(t)
BY DEF Fades, Stage, Parent, Live, Abstract!Ages

\* The clock moves tokens forward only.
LEMMA TickFades ==
  ASSUME Typed, RotationInv, Tick
  PROVE  \A t \in Tokens : Fades(t)
<1> SUFFICES ASSUME NEW t \in Tokens PROVE Fades(t)
  OBVIOUS
<1>1. /\ now \in Nat /\ now' = now + 1 /\ rows' = rows /\ issued' = issued
      /\ rows[t] # None => /\ t \in issued /\ rows[t].expiresAt \in Nat
                           /\ rows[t].rotatedAt # None => rows[t].rotatedAt \in Nat
  BY DEF Tick, Typed, TypeOK, Time, Row, RotationInv, IssuedOnce
<1> QED
  BY <1>1, LifetimeAssumption DEF Fades, Stage, Parent, Live, Abstract!Ages

\* Every step of the sessions is a step of TokenLife, or none.
LEMMA KeepsTokenLifeNext ==
  Typed /\ RotationInv /\ [Next]_vars => [Abstract!Next]_<<Life, From>>
<1> SUFFICES ASSUME Typed, RotationInv, [Next]_vars PROVE [Abstract!Next]_<<Life, From>>
  OBVIOUS
<1>1. ASSUME NEW u \in Users, issueSession(u) PROVE [Abstract!Next]_<<Life, From>>
  BY <1>1, LoginIssues DEF Abstract!Next, Abstract!Issue, Life, From
<1>2. ASSUME NEW r \in Requests, NEW t \in Tokens, Rotate(r, t)
      PROVE  [Abstract!Next]_<<Life, From>>
  BY <1>2, RotateRenews DEF Abstract!Next, Abstract!Renew, Life, From
<1>3. ASSUME \A t \in Tokens : Fades(t)
      PROVE  [Abstract!Next]_<<Life, From>>
  BY <1>3 DEF Abstract!Next, Abstract!Fade, Fades, Life, From
<1>4. \A t \in Tokens : rows[t] # None => t \in issued
  BY DEF RotationInv, IssuedOnce
<1>5. ASSUME NEW t \in Tokens, endSession(t) PROVE [Abstract!Next]_<<Life, From>>
  BY <1>3, <1>4, <1>5, DeletionFades DEF endSession, Typed, TypeOK
<1>6. ASSUME NEW r \in Requests, RevokeRowsEnd(r) PROVE [Abstract!Next]_<<Life, From>>
  BY <1>3, <1>4, <1>6, DeletionFades DEF RevokeRowsEnd
<1>7. ASSUME NEW u \in Users, RemovalCommit(u) PROVE [Abstract!Next]_<<Life, From>>
  BY <1>3, <1>4, <1>7, DeletionFades DEF RemovalCommit
<1>8. CASE Tick
  BY <1>3, <1>8, TickFades
<1>9. CASE UNCHANGED <<now, rows, issued>>
  BY <1>9 DEF Life, From, Stage, Parent, Live
<1> QED
  BY <1>1, <1>2, <1>5, <1>6, <1>7, <1>8, <1>9
     DEF Next, vars, DetectReuse, RefreshStep, RevokeRowsBegin, RevokeAccess,
         getUserSession, Mint, Abandon, RemovalDelete, RemovalStep, RemovalRevoke,
         RemovalRollback, RedisFails, RedisRecovers

\* The sessions implement TokenLife: whatever transactions, reuse detections and
\* removals overlap, a token that is past its grace period, or gone, is never
\* renewed, and every renewal puts a token in place that was never issued before.
THEOREM SessionsKeepTokenLife == Spec => KeepsTokenLife
<1>1. Init => Abstract!Init
  BY DEF Init, Abstract!Init, Stage, Parent, Live
<1>2. Init => Typed /\ RotationInv
  BY TypeInit DEF Typed, WhoOK, Init, RotationInv, IssuedOnce, BornInGrace
<1>3. Typed /\ RotationInv /\ [Next]_vars => [Abstract!Next]_Abstract!tlVars
  BY KeepsTokenLifeNext DEF Life, From, Abstract!tlVars
<1> QED
  BY <1>1, <1>2, <1>3, TypeNext, RotationInvNext, PTL
     DEF Spec, KeepsTokenLife, Abstract!Spec

-----------------------------------------------------------------------------
(***************************************************************************)
(* The pool of connections                                                 *)
(***************************************************************************)

-----------------------------------------------------------------------------
(* The inductive invariant *)

Types ==
  /\ job \in [Clients -> Job \cup {NoJob}]
  /\ busy \subseteq Clients \X Uses
  /\ queue \in Seq(Clients)

\* The counters a use goes with.
Counted ==
  \A r \in Clients : job[r] # NoJob =>
    /\ job[r].for = "guard" => job[r].guards > 0
    /\ job[r].for = "call" => job[r].calls > 0 /\ ~job[r].manager

\* A request holds the connection for its present use, or the one of its
\* transaction while it asks GuardDBService; one that has ended holds none.
Held ==
  \A c \in busy :
    /\ job[c[1]] # NoJob
    /\ \/ c[2] = job[c[1]].for
       \/ c[2] = "transaction" /\ job[c[1]].for = "call"

\* Whoever is in the queue waits, and is in it once.
Queued ==
  /\ \A i \in 1..Len(queue) : queue[i] \in Waiting
  /\ \A i, j \in 1..Len(queue) : queue[i] = queue[j] => i = j

Bounded == IsFiniteSet(busy) /\ Cardinality(busy) <= PoolSize

PoolInv == Types /\ Counted /\ Held /\ Queued /\ Bounded

\* The first state satisfies the invariant.
LEMMA PoolInvInit == CPInit => PoolInv
<1> SUFFICES ASSUME CPInit PROVE PoolInv
  OBVIOUS
<1>1. Bounded
  BY FS_EmptySet, PoolAssumption DEF CPInit, Bounded
<1> QED
  BY <1>1 DEF CPInit, PoolInv, Types, Counted, Held, Queued

-----------------------------------------------------------------------------
(* The steps *)

\* A request that asks for a connection it does not hold joins the queue, and
\* those in the queue stay there.
LEMMA AskQueues ==
  ASSUME Types, Queued, NEW r \in Clients, NEW j \in Job, Ask(r, j),
         r \notin Waiting, <<r, j.for>> \notin busy',
         busy' \subseteq busy
  PROVE  queue' \in Seq(Clients) /\ Queued'
<1> DEFINE n == Len(queue)
<1>1. /\ queue' \in Seq(Clients) /\ Len(queue') = n + 1
      /\ \A i \in 1..n : queue'[i] = queue[i]
      /\ queue'[n + 1] = r
      /\ n \in Nat
  BY AppendProperties DEF Ask, Types
<1>2. \A i \in 1..n : queue[i] \in Waiting /\ queue[i] # r
  BY DEF Queued
<1>3. Waiting \subseteq Waiting' /\ r \in Waiting'
  BY NoJobAssumption DEF Ask, Types, Waiting, Holds, Job
<1>4. \A i \in 1..(n + 1) : i \in 1..n \/ i = n + 1
  BY <1>1
<1>5. \A i \in 1..Len(queue') : queue'[i] \in Waiting'
  BY <1>1, <1>2, <1>3, <1>4
<1>6. \A i, k \in 1..Len(queue') : queue'[i] = queue'[k] => i = k
  BY <1>1, <1>2, <1>4 DEF Queued
<1> QED
  BY <1>1, <1>5, <1>6 DEF Queued

\* Giving a connection back keeps the bound.
LEMMA ReleaseBounded ==
  ASSUME Bounded, busy' \subseteq busy
  PROVE  Bounded'
BY FS_Subset, FS_CardinalityType, PoolAssumption DEF Bounded

\* The pool gives a connection to the first in the queue.
LEMMA GrantStep == PoolInv /\ Grant => PoolInv'
<1> SUFFICES ASSUME PoolInv, Grant PROVE PoolInv'
  OBVIOUS
<1> DEFINE r == Head(queue)  c == <<r, job[r].for>>
<1>1. /\ r \in Clients /\ r = queue[1] /\ Len(queue) \in Nat /\ Len(queue) >= 1
      /\ queue' \in Seq(Clients)
      /\ Len(queue') = Len(queue) - 1
      /\ \A i \in 1..Len(queue') : queue'[i] = queue[i + 1]
  BY HeadTailProperties DEF Grant, PoolInv, Types
<1>2. r \in Waiting
  BY <1>1 DEF PoolInv, Queued
<1>3. job[r] \in Job /\ c \notin busy /\ job' = job /\ busy' = busy \cup {c}
  BY <1>2 DEF Waiting, Holds, Grant, PoolInv, Types
<1>4. Types'
  BY <1>1, <1>3 DEF PoolInv, Types, Job
<1>5. Counted' /\ Held'
  BY <1>1, <1>2, <1>3 DEF PoolInv, Counted, Held, Waiting
<1>6. \A i \in 1..Len(queue') : queue'[i] \in Waiting'
  <2> TAKE i \in 1..Len(queue')
  <2>1. i + 1 \in 1..Len(queue) /\ queue'[i] = queue[i + 1]
    BY <1>1
  <2>2. queue[i + 1] \in Waiting /\ queue[i + 1] # r
    BY <1>1, <2>1 DEF PoolInv, Queued
  <2> QED
    BY <1>3, <2>1, <2>2 DEF Waiting, Holds
<1>7. \A i, j \in 1..Len(queue') : queue'[i] = queue'[j] => i = j
  <2> TAKE i, j \in 1..Len(queue')
  <2>1. /\ i + 1 \in 1..Len(queue) /\ queue'[i] = queue[i + 1]
        /\ j + 1 \in 1..Len(queue) /\ queue'[j] = queue[j + 1]
    BY <1>1
  <2>2. queue[i + 1] = queue[j + 1] => i + 1 = j + 1
    BY <2>1 DEF PoolInv, Queued
  <2> QED
    BY <2>1, <2>2
<1>8. Bounded'
  <2>1. /\ IsFiniteSet(busy) /\ Cardinality(busy) \in Nat
        /\ Cardinality(busy) < PoolSize
    BY FS_CardinalityType DEF PoolInv, Bounded, Grant, Free
  <2>2. IsFiniteSet(busy \cup {c}) /\ Cardinality(busy \cup {c}) = Cardinality(busy) + 1
    BY <1>3, <2>1, FS_AddElement
  <2> QED
    BY <1>3, <2>1, <2>2, PoolAssumption DEF Bounded
<1> QED
  BY <1>4, <1>5, <1>6, <1>7, <1>8 DEF PoolInv, Queued

\* A request arrives and waits for its first connection.
LEMMA ArriveStep ==
  ASSUME PoolInv, NEW r \in Clients, NEW g \in 0..MaxGuards,
         NEW c \in 0..MaxCalls, NEW m \in BOOLEAN, Arrive(r, g, c, m)
  PROVE  PoolInv'
<1> DEFINE j == [for |-> IF g > 0 THEN "guard" ELSE "transaction",
                 guards |-> g, calls |-> c, manager |-> m]
<1>1. j \in Job /\ Ask(r, j) /\ busy' = busy /\ job[r] = NoJob
  BY DEF Arrive, Job, Uses
<1>2. r \notin Waiting /\ \A use \in Uses : <<r, use>> \notin busy
  BY <1>1 DEF PoolInv, Held, Waiting
<1>3. queue' \in Seq(Clients) /\ Queued'
  BY <1>1, <1>2, AskQueues DEF PoolInv, Job
<1>4. Types'
  BY <1>1, <1>3 DEF PoolInv, Types, Ask
<1>5. Counted'
  BY <1>1, NoJobAssumption DEF PoolInv, Types, Counted, Ask
<1>6. Held'
  BY <1>1, <1>2, NoJobAssumption DEF PoolInv, Types, Held, Ask
<1>7. Bounded'
  BY <1>1, ReleaseBounded DEF PoolInv
<1> QED
  BY <1>3, <1>4, <1>5, <1>6, <1>7 DEF PoolInv

\* A guard has its answer.
LEMMA GuardStep ==
  ASSUME PoolInv, NEW r \in Clients, GuardAnswered(r)
  PROVE  PoolInv'
<1> DEFINE left == job[r].guards - 1
           j == [job[r] EXCEPT !.guards = left,
                               !.for = IF left > 0 THEN "guard" ELSE "transaction"]
<1>1. /\ job[r] \in Job /\ job[r].for = "guard" /\ <<r, "guard">> \in busy
      /\ job[r].guards > 0
  BY DEF GuardAnswered, Running, Holds, PoolInv, Types, Counted
<1>2. j \in Job /\ Ask(r, j) /\ busy' = busy \ {<<r, "guard">>}
  <2>1. left \in 0..MaxGuards
    BY <1>1, PoolAssumption DEF Job
  <2>2. j \in Job
    BY <1>1, <2>1 DEF Job, Uses
  <2>3. Ask(r, j) /\ busy' = busy \ {<<r, "guard">>}
    BY DEF GuardAnswered
  <2> QED
    BY <2>2, <2>3
<1>3. r \notin Waiting /\ \A use \in Uses : <<r, use>> \notin busy'
  BY <1>1, <1>2 DEF PoolInv, Held, Waiting, Holds
<1>4. queue' \in Seq(Clients) /\ Queued'
  BY <1>2, <1>3, AskQueues DEF PoolInv, Job
<1>5. Types'
  BY <1>2, <1>4 DEF PoolInv, Types, Ask
<1>6. job' = [job EXCEPT ![r] = j] /\ j.for \in {"guard", "transaction"}
      /\ (j.for = "guard" => j.guards > 0)
  BY <1>1, <1>2 DEF Ask, Job
<1>7. Counted'
  BY <1>6, NoJobAssumption DEF PoolInv, Types, Counted
<1>8. Held'
  BY <1>2, <1>3, <1>6 DEF PoolInv, Types, Held
<1>9. Bounded'
  BY <1>2, ReleaseBounded DEF PoolInv
<1> QED
  BY <1>4, <1>5, <1>7, <1>8, <1>9 DEF PoolInv

\* A handler asks GuardDBService.
LEMMA CallStep ==
  ASSUME PoolInv, NEW r \in Clients, CallGuardDB(r)
  PROVE  PoolInv'
<1>1. /\ job[r] \in Job /\ job[r].for = "transaction" /\ job[r].calls > 0
      /\ <<r, "transaction">> \in busy /\ busy' = busy
  BY DEF CallGuardDB, Running, Holds, PoolInv, Types
<1>2. r \notin Waiting /\ <<r, "call">> \notin busy
  BY <1>1 DEF PoolInv, Held, Waiting, Holds
<1>3. Bounded'
  BY <1>1, ReleaseBounded DEF PoolInv
<1>4. CASE OnOwnTransaction(r)
  <2> DEFINE j == [job[r] EXCEPT !.calls = @ - 1]
  <2>1. job' = [job EXCEPT ![r] = j] /\ queue' = queue /\ j \in Job
        /\ j.for = "transaction"
    BY <1>1, <1>4, PoolAssumption DEF CallGuardDB, Job, Uses, PoolInv, Types
  <2>2. Types' /\ Counted' /\ Held'
    BY <1>1, <2>1, NoJobAssumption DEF PoolInv, Types, Counted, Held
  <2>3. Queued'
    BY <1>1, <1>2, <2>1 DEF PoolInv, Types, Queued, Waiting, Holds
  <2> QED
    BY <1>3, <2>2, <2>3 DEF PoolInv
<1>5. CASE ~OnOwnTransaction(r)
  <2> DEFINE j == [job[r] EXCEPT !.for = "call"]
  <2>1. Ask(r, j) /\ j \in Job /\ j.for = "call" /\ j.calls > 0 /\ ~j.manager
    BY <1>1, <1>5 DEF CallGuardDB, Job, Uses, OnOwnTransaction
  <2>a. <<r, j.for>> \notin busy' /\ busy' \subseteq busy
    BY <1>1, <1>2, <2>1
  <2>b. Types /\ Queued
    BY DEF PoolInv
  <2> HIDE DEF j
  <2>2. queue' \in Seq(Clients) /\ Queued'
    BY <1>2, <2>a, <2>b, <2>1, AskQueues
  <2>3. Types'
    BY <1>1, <2>1, <2>2 DEF PoolInv, Types, Ask
  <2>4. Counted' /\ Held'
    BY <1>1, <2>1, NoJobAssumption DEF PoolInv, Types, Counted, Held, Ask
  <2> QED
    BY <1>3, <2>2, <2>3, <2>4 DEF PoolInv
<1> QED
  BY <1>4, <1>5

\* GuardDBService answers.
LEMMA AnswerStep ==
  ASSUME PoolInv, NEW r \in Clients, CallAnswered(r)
  PROVE  PoolInv'
<1> DEFINE j == [job[r] EXCEPT !.for = "transaction", !.calls = @ - 1]
<1>1. /\ job[r] \in Job /\ job[r].for = "call" /\ job[r].calls > 0
      /\ <<r, "call">> \in busy /\ busy' = busy \ {<<r, "call">>}
      /\ queue' = queue
  BY DEF CallAnswered, Running, Holds, PoolInv, Types, Counted
<1>2. job' = [job EXCEPT ![r] = j] /\ j \in Job /\ j.for = "transaction"
  BY <1>1, PoolAssumption DEF CallAnswered, Job, Uses, PoolInv, Types
<1>3. Types' /\ Counted' /\ Held'
  BY <1>1, <1>2, NoJobAssumption DEF PoolInv, Types, Counted, Held
<1>4. r \notin Waiting
  BY <1>1 DEF Waiting, Holds
<1>5. Queued'
  BY <1>1, <1>2, <1>4 DEF PoolInv, Types, Queued, Waiting, Holds
<1>6. Bounded'
  BY <1>1, ReleaseBounded DEF PoolInv
<1> QED
  BY <1>3, <1>5, <1>6 DEF PoolInv

\* A request that runs ends, one way or another.
LEMMA EndStep ==
  ASSUME PoolInv, NEW r \in Clients, NEW use \in Uses, Running(r, use),
         EndRequest(r)
  PROVE  PoolInv'
<1>1. /\ job' = [job EXCEPT ![r] = NoJob] /\ queue' = queue
      /\ busy' = busy \ Released(r)
  BY DEF EndRequest
<1>2. r \notin Waiting
  BY DEF Waiting, Running
<1>3. Types' /\ Counted'
  BY <1>1 DEF PoolInv, Types, Counted
<1>4. Held'
  BY <1>1 DEF PoolInv, Types, Held, Released
<1>5. Queued'
  BY <1>1, <1>2 DEF PoolInv, Types, Queued, Waiting, Holds, Released
<1>6. Bounded'
  BY <1>1, ReleaseBounded DEF PoolInv
<1> QED
  BY <1>3, <1>4, <1>5, <1>6 DEF PoolInv

\* Every step keeps the invariant.
LEMMA PoolInvStep == PoolInv /\ [CPNext]_cpVars => PoolInv'
<1> SUFFICES ASSUME PoolInv, [CPNext]_cpVars PROVE PoolInv'
  OBVIOUS
<1>1. CASE Grant
  BY <1>1, GrantStep
<1>2. ASSUME NEW r \in Clients,
             \E g \in 0..MaxGuards, c \in 0..MaxCalls, m \in BOOLEAN : Arrive(r, g, c, m)
      PROVE  PoolInv'
  BY <1>2, ArriveStep
<1>3. ASSUME NEW r \in Clients,
             GuardAnswered(r) \/ CallGuardDB(r) \/ CallAnswered(r)
      PROVE  PoolInv'
  BY <1>3, GuardStep, CallStep, AnswerStep
<1>4. ASSUME NEW r \in Clients, Return(r) \/ Throw(r)
      PROVE  PoolInv'
  BY <1>4, EndStep DEF Return, Throw, Uses
<1>5. CASE UNCHANGED cpVars
  BY <1>5 DEF cpVars, PoolInv, Types, Counted, Held, Queued, Bounded, Waiting, Holds
<1> QED
  BY <1>1, <1>2, <1>3, <1>4, <1>5 DEF CPNext

-----------------------------------------------------------------------------
(* The theorems *)

\* If everybody who holds a connection waits for another, each of them is in a
\* handler that needs a second one, and holds exactly one.
LEMMA StarvedImpliesNesting == PoolInv => StarvedOnlyByNesting
<1> SUFFICES ASSUME PoolInv, Starved PROVE Cardinality(Nesting) >= PoolSize
  BY DEF StarvedOnlyByNesting
<1>1. \A c \in busy : /\ c = <<c[1], c[2]>> /\ c[1] \in Clients
                      /\ c[2] = "transaction" /\ c[1] \in Nesting
  <2> TAKE c \in busy
  <2>1. c \in Clients \X Uses /\ c[1] \in Clients /\ c = <<c[1], c[2]>>
    BY DEF PoolInv, Types
  <2>2. job[c[1]] # NoJob /\ <<c[1], job[c[1]].for>> \notin busy
    BY <2>1 DEF Starved, Waiting, Holds
  <2>3. c[2] # job[c[1]].for
    BY <2>1, <2>2
  <2>4. c[2] = "transaction" /\ job[c[1]].for = "call"
    BY <2>3 DEF PoolInv, Held
  <2> QED
    BY <2>1, <2>2, <2>4 DEF PoolInv, Counted, Nesting
<1> DEFINE f == [c \in busy |-> c[1]]
<1>2. f \in Injection(busy, Nesting)
  BY <1>1 DEF Injection, IsInjective
<1>3. IsFiniteSet(Nesting)
  BY FS_Subset, PoolAssumption DEF Nesting
<1>4. Cardinality(busy) <= Cardinality(Nesting)
  BY <1>2, <1>3, FS_Injection
<1>5. Cardinality(busy) \in Nat /\ Cardinality(Nesting) \in Nat
      /\ Cardinality(busy) >= PoolSize
  BY <1>3, FS_CardinalityType, PoolAssumption DEF PoolInv, Bounded, Starved, Free
<1> QED
  BY <1>4, <1>5, PoolAssumption

\* The variables have their types and the pool keeps its size in every reachable
\* state.
THEOREM PoolTypeCorrect == CPSpec => []CPTypeOK
<1>1. PoolInv => CPTypeOK
  BY DEF PoolInv, Types, Bounded, CPTypeOK
<1> QED
  BY <1>1, PoolInvInit, PoolInvStep, PTL DEF CPSpec

\* Whatever the size of the pool, only handlers that take a second connection
\* can exhaust it, and only as many of them as it has connections.
THEOREM OnlyNestingStarves == CPSpec => []StarvedOnlyByNesting
BY PoolInvInit, PoolInvStep, StarvedImpliesNesting, PTL DEF CPSpec

=============================================================================
