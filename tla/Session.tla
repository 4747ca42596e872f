------------------------------ MODULE Session ------------------------------
(***************************************************************************)
(* Sessions of OmniStore: the rotating refresh token kept in Postgres, the *)
(* short-lived access token (a JWT nobody stores), the revocation list in  *)
(* Redis, and AuthGuard, which decides from the three whether a request is *)
(* let in.                                                                 *)
(*                                                                         *)
(* The actors are the requests to POST /auth/refresh, one awaited call per *)
(* step, and the request that removes a user (a removal by an              *)
(* administrator, the deletion of an account or of an organization), whose *)
(* database writes stay invisible until its transaction commits while its  *)
(* write to Redis is visible at once.                                      *)
(*                                                                         *)
(* Time is a count of seconds.  A refresh token is its hash; the random    *)
(* value a request draws is a member of Tokens that was never issued.      *)
(***************************************************************************)
EXTENDS Integers, FiniteSets

CONSTANTS
  Users,        \* accounts, each a member of its organization at first
  Tokens,       \* hashes of refresh tokens
  Requests,     \* requests to POST /auth/refresh that may be in flight
  JwtTtl,       \* auth.jwtExpiresIn
  RefreshTtl,   \* auth.refreshExpiresIn
  Grace,        \* the 30 seconds of rotate_refresh_token
  MaxTime,      \* bound on the clock
  Outages,      \* may Redis become unreachable?
  None

ASSUME LifetimeAssumption ==
  /\ JwtTtl \in Nat \ {0} /\ RefreshTtl \in Nat \ {0} /\ Grace \in Nat \ {0}
  /\ MaxTime \in Nat
  /\ Outages \in BOOLEAN

ASSUME NoneAssumption == None \notin Nat \cup Users \cup Tokens

VARIABLES
  now,        \* the clock
  redisUp,    \* Redis answers within commandTimeout
  revokedAt,  \* auth:revoked:<user>, or None; see Revocation for its expiry
  cut,        \* history: the time of the last revocation Redis acknowledged
  member,     \* does the user have a committed row in "user" and user_org_role?
  removal,    \* progress of the transaction that removes the user
  doomed,     \* the token rows that transaction has deleted
  rows,       \* table refresh_tokens: the row of a hash, or None
  issued,     \* hashes ever drawn
  access,     \* access tokens ever signed
  pc,         \* the next step of a refresh request
  who,        \* the user its token belongs to
  snap        \* the rows its DELETE has seen

vars == <<now, redisUp, revokedAt, cut, member, removal, doomed, rows, issued,
          access, pc, who, snap>>

refreshVars == <<pc, who, snap>>

removalVars == <<member, removal, doomed>>

Time == 0..MaxTime

Row == [user: Users, expiresAt: Nat, rotatedAt: Time \cup {None},
        parent: Tokens \cup {None}]

ASSUME NoRowAssumption == None \notin Row

AccessToken == [user: Users, iat: Time]

Steps == {"idle", "session", "mint", "reuse", "delete", "revoke"}

(***************************************************************************)
(* RevocationService and AuthGuard                                         *)
(***************************************************************************)
\* Mutant: the entry lives a second less than the tokens it covers.
BugTtlSeconds == JwtTtl - 1

ttlSeconds == JwtTtl

\* What GET answers: the entry, as long as its EX has not run out.
Revocation(u) ==
  IF revokedAt[u] # None /\ now < revokedAt[u] + ttlSeconds
  THEN revokedAt[u] ELSE None

\* Mutant: milliseconds are written where check compares seconds.
BugRevokeMilliseconds(u) ==
  revokedAt' = IF redisUp THEN [revokedAt EXCEPT ![u] = now * 1000] ELSE revokedAt

\* Mutant: without commandTimeout the write waits for Redis to come back.
BugRevokeWaits(u) == redisUp /\ revokedAt' = [revokedAt EXCEPT ![u] = now]

\* A failed write is logged and forgotten.
revokeUser(u) ==
  revokedAt' = IF redisUp THEN [revokedAt EXCEPT ![u] = now] ELSE revokedAt

NoteRevocation(u) == cut' = IF redisUp THEN [cut EXCEPT ![u] = now] ELSE cut

check(a) ==
  IF ~redisUp THEN "unknown"
  ELSE IF Revocation(a.user) # None /\ a.iat <= Revocation(a.user)
       THEN "revoked" ELSE "ok"

\* The signature's expiry, then Redis, then Postgres if Redis cannot answer.
validateToken(a) ==
  /\ now < a.iat + JwtTtl
  /\ \/ check(a) = "ok"
     \/ check(a) = "unknown" /\ member[a.user]

(***************************************************************************)
(* refresh_tokens                                                          *)
(***************************************************************************)
Fresh == Tokens \ issued

NewRow(u, p) == [user |-> u, expiresAt |-> now + RefreshTtl,
                 rotatedAt |-> None, parent |-> p]

Live(t) == rows[t] # None /\ now < rows[t].expiresAt

RowsOf(u) == {t \in Tokens : rows[t] # None /\ rows[t].user = u}

\* Mutant: refresh_tokens has no foreign key to "user".
BugNoForeignKey(u) == TRUE

\* The DELETE of a removal locks the user and its tokens until the transaction
\* ends: whoever wants to write one of them waits.
Unlocked(u) == removal[u] = "idle"

\* Mutant: rotated_at = now(), without the COALESCE.
BugRotatedAgain(t) == [rows[t] EXCEPT !.rotatedAt = now]

Rotated(t) == [rows[t] EXCEPT !.rotatedAt = IF @ = None THEN now ELSE @]

\* Mutant: < instead of <=.
BugIsReused(t) == rows[t].rotatedAt # None /\ rows[t].rotatedAt < now - Grace

\* Rotated long enough ago that no tab sharing the cookie still presents it.
IsReused(t) == rows[t].rotatedAt # None /\ rows[t].rotatedAt <= now - Grace

create_refresh_token(u, t) ==
  rows' = [x \in Tokens |->
             IF x = t THEN NewRow(u, None)
             ELSE IF x \in RowsOf(u) /\ ~Live(x) THEN None ELSE rows[x]]

Init ==
  /\ now = 0
  /\ redisUp = TRUE
  /\ revokedAt = [u \in Users |-> None]
  /\ cut = [u \in Users |-> None]
  /\ member = [u \in Users |-> TRUE]
  /\ removal = [u \in Users |-> "idle"]
  /\ doomed = [u \in Users |-> {}]
  /\ rows = [t \in Tokens |-> None]
  /\ issued = {}
  /\ access = {}
  /\ pc = [r \in Requests |-> "idle"]
  /\ who = [r \in Requests |-> None]
  /\ snap = [r \in Requests |-> {}]

(***************************************************************************)
(* Login and logout                                                        *)
(***************************************************************************)
sendAccessToken(u) == access' = access \cup {[user |-> u, iat |-> now]}

\* The token row is written in the transaction of the request; its foreign key
\* makes it wait for a removal of the user, and then fail.
issueSession(u) ==
  /\ member[u] /\ Unlocked(u)
  /\ \E t \in Fresh :
       /\ create_refresh_token(u, t)
       /\ issued' = issued \cup {t}
  /\ sendAccessToken(u)
  /\ UNCHANGED <<now, redisUp, revokedAt, cut, removalVars, refreshVars>>

endSession(t) ==
  /\ rows[t] # None /\ Unlocked(rows[t].user)
  /\ rows' = [rows EXCEPT ![t] = None]
  /\ UNCHANGED <<now, redisUp, revokedAt, cut, removalVars, issued, access,
                 refreshVars>>

(***************************************************************************)
(* POST /auth/refresh.  An unknown or expired token is answered with 401   *)
(* and changes nothing.                                                    *)
(***************************************************************************)
Goto(r, step) == pc' = [pc EXCEPT ![r] = step]

\* Every way out of the handler forgets what the request held.
Finish(r) ==
  /\ Goto(r, "idle")
  /\ who' = [who EXCEPT ![r] = None]
  /\ snap' = [snap EXCEPT ![r] = {}]

Rotate(r, t) ==
  /\ pc[r] = "idle"
  /\ Live(t) /\ Unlocked(rows[t].user)
  /\ ~IsReused(t)
  /\ \E n \in Fresh :
       /\ rows' = [rows EXCEPT ![t] = Rotated(t), ![n] = NewRow(rows[t].user, t)]
       /\ issued' = issued \cup {n}
  /\ Goto(r, "session")
  /\ who' = [who EXCEPT ![r] = rows[t].user]
  /\ UNCHANGED <<now, redisUp, revokedAt, cut, removalVars, access, snap>>

DetectReuse(r, t) ==
  /\ pc[r] = "idle"
  /\ Live(t) /\ Unlocked(rows[t].user)
  /\ IsReused(t)
  /\ Goto(r, "reuse")
  /\ who' = [who EXCEPT ![r] = rows[t].user]
  /\ UNCHANGED <<now, redisUp, revokedAt, cut, removalVars, rows, issued,
                 access, snap>>

\* revoke_user_refresh_tokens is one DELETE: it fixes the rows it will visit ...
RevokeRowsBegin(r) ==
  /\ pc[r] = "reuse"
  /\ snap' = [snap EXCEPT ![r] = RowsOf(who[r])]
  /\ Goto(r, "delete")
  /\ UNCHANGED <<now, redisUp, revokedAt, cut, removalVars, rows, issued,
                 access, who>>

\* ... and then deletes them, waiting for the locks others hold on them.
RevokeRowsEnd(r) ==
  /\ pc[r] = "delete"
  /\ Unlocked(who[r])
  /\ rows' = [t \in Tokens |-> IF t \in snap[r] THEN None ELSE rows[t]]
  /\ Goto(r, "revoke")
  /\ UNCHANGED <<now, redisUp, revokedAt, cut, removalVars, issued, access,
                 who, snap>>

RevokeAccess(r) ==
  /\ pc[r] = "revoke"
  /\ revokeUser(who[r]) /\ NoteRevocation(who[r])
  /\ Finish(r)
  /\ UNCHANGED <<now, redisUp, removalVars, rows, issued, access>>

\* Mutant: the claims are taken from the presented token.
BugSessionFromToken(r) ==
  /\ pc[r] = "session"
  /\ Goto(r, "mint") /\ UNCHANGED <<who, snap>>
  /\ UNCHANGED <<now, redisUp, revokedAt, cut, removalVars, rows, issued,
                 access>>

\* getUserSession reads what is committed, even while a removal is under way.
getUserSession(r) ==
  /\ pc[r] = "session"
  /\ IF member[who[r]]
     THEN Goto(r, "mint") /\ UNCHANGED <<who, snap>>
     ELSE Finish(r)
  /\ UNCHANGED <<now, redisUp, revokedAt, cut, removalVars, rows, issued,
                 access>>

\* After findActiveWarehouse, which awaits the database once more.
Mint(r) ==
  /\ pc[r] = "mint"
  /\ sendAccessToken(who[r])
  /\ Finish(r)
  /\ UNCHANGED <<now, redisUp, revokedAt, cut, removalVars, rows, issued>>

\* The process, or its connection to the database, fails at any point.
Abandon(r) ==
  /\ pc[r] # "idle"
  /\ Finish(r)
  /\ UNCHANGED <<now, redisUp, revokedAt, cut, removalVars, rows, issued,
                 access>>

(***************************************************************************)
(* The removal of a user: its statements, the write to Redis inside the    *)
(* transaction, and the commit.                                            *)
(***************************************************************************)
SetRemoval(u, step) == removal' = [removal EXCEPT ![u] = step]

\* Deletes the account, the membership and the refresh tokens it finds
\* (ON DELETE CASCADE); nobody sees it before the commit.
RemovalDelete(u) ==
  /\ member[u] /\ removal[u] = "idle"
  /\ SetRemoval(u, "deleted")
  /\ doomed' = [doomed EXCEPT ![u] = RowsOf(u)]
  /\ UNCHANGED <<now, redisUp, revokedAt, cut, member, rows, issued, access,
                 refreshVars>>

RemovalRevoke(u) ==
  /\ removal[u] = "deleted"
  /\ revokeUser(u) /\ NoteRevocation(u)
  /\ SetRemoval(u, "revoked")
  /\ UNCHANGED <<now, redisUp, member, doomed, rows, issued, access, refreshVars>>

RemovalCommit(u) ==
  /\ removal[u] = "revoked"
  /\ SetRemoval(u, "idle")
  /\ member' = [member EXCEPT ![u] = FALSE]
  /\ rows' = [t \in Tokens |-> IF t \in doomed[u] THEN None ELSE rows[t]]
  /\ doomed' = [doomed EXCEPT ![u] = {}]
  /\ UNCHANGED <<now, redisUp, revokedAt, cut, issued, access, refreshVars>>

\* A later statement, the commit or the process fails.
RemovalRollback(u) ==
  /\ removal[u] # "idle"
  /\ SetRemoval(u, "idle")
  /\ doomed' = [doomed EXCEPT ![u] = {}]
  /\ UNCHANGED <<now, redisUp, revokedAt, cut, member, rows, issued, access,
                 refreshVars>>

(***************************************************************************)
(* The environment                                                         *)
(***************************************************************************)
Tick ==
  /\ now < MaxTime
  /\ now' = now + 1
  /\ UNCHANGED <<redisUp, revokedAt, cut, removalVars, rows, issued, access,
                 refreshVars>>

\* Redis keeps its data while it cannot be reached.
RedisFails ==
  /\ Outages /\ redisUp
  /\ redisUp' = FALSE
  /\ UNCHANGED <<now, revokedAt, cut, removalVars, rows, issued, access,
                 refreshVars>>

RedisRecovers ==
  /\ ~redisUp
  /\ redisUp' = TRUE
  /\ UNCHANGED <<now, revokedAt, cut, removalVars, rows, issued, access,
                 refreshVars>>

RefreshStep(r) ==
  \/ RevokeRowsBegin(r) \/ RevokeRowsEnd(r) \/ RevokeAccess(r)
  \/ getUserSession(r) \/ Mint(r)

RemovalStep(u) == RemovalRevoke(u) \/ RemovalCommit(u)

Next ==
  \/ \E u \in Users : issueSession(u)
  \/ \E t \in Tokens : endSession(t)
  \/ \E r \in Requests, t \in Tokens : Rotate(r, t) \/ DetectReuse(r, t)
  \/ \E r \in Requests : RefreshStep(r) \/ Abandon(r)
  \/ \E u \in Users : RemovalDelete(u) \/ RemovalStep(u) \/ RemovalRollback(u)
  \/ Tick \/ RedisFails \/ RedisRecovers

Spec == Init /\ [][Next]_vars

\* A handler's awaited calls return, and the lock queues of Postgres serve a
\* waiting DELETE.
FairSpec ==
  /\ Spec
  /\ \A r \in Requests : SF_vars(RefreshStep(r))
  /\ \A u \in Users : WF_vars(RemovalStep(u))

(***************************************************************************)
(* Properties                                                              *)
(***************************************************************************)
TypeOK ==
  /\ now \in Time
  /\ redisUp \in BOOLEAN
  /\ revokedAt \in [Users -> Time \cup {None}]
  /\ cut \in [Users -> Time \cup {None}]
  /\ member \in [Users -> BOOLEAN]
  /\ removal \in [Users -> {"idle", "deleted", "revoked"}]
  /\ doomed \in [Users -> SUBSET Tokens]
  /\ rows \in [Tokens -> Row \cup {None}]
  /\ issued \in SUBSET Tokens
  /\ access \in SUBSET AccessToken
  /\ pc \in [Requests -> Steps]
  /\ who \in [Requests -> Users \cup {None}]
  /\ snap \in [Requests -> SUBSET Tokens]

\* A revocation that Redis acknowledged holds until the last token it covers
\* has expired: the entry's EX never runs out before the tokens do, and a later
\* revocation never shortens an earlier one.  For a user who is still a member
\* (reuse detection) it needs Redis; for a removed one it also holds through an
\* outage, because the fallback finds no membership.
RevokedTokensRejected ==
  \A a \in access :
    (/\ cut[a.user] # None
     /\ a.iat <= cut[a.user]
     /\ redisUp \/ ~member[a.user]) => ~validateToken(a)

\* Once a removal has committed no refresh token of the user is left to rotate,
\* whichever rotations, logins and reuse detections it raced with.
RemovedHaveNoRefreshTokens ==
  \A u \in Users : ~member[u] => RowsOf(u) = {}

Created(t) == rows[t].expiresAt - RefreshTtl

\* Every successor of a token was drawn within the grace period of the token's
\* first rotation: sharing tabs are served, and a stolen copy cannot be kept alive
\* by presenting it again and again.
SuccessorsWithinGrace ==
  \A t \in Tokens :
    LET p == rows[t].parent IN
      (rows[t] # None /\ p # None /\ rows[p] # None) =>
        /\ rows[p].rotatedAt # None
        /\ rows[p].rotatedAt <= Created(t) /\ Created(t) < rows[p].rotatedAt + Grace

Minting(u) == {r \in Requests : pc[r] = "mint" /\ who[r] = u}

\* After the removal of a user commits, an access token of theirs can only come
\* from a refresh that had already read their session; no refresh starts anew.
NoSessionAfterRemoval ==
  [][\A u \in Users : ~member[u] =>
       /\ Minting(u)' \subseteq Minting(u)
       /\ \A a \in access' \ access : a.user = u => Minting(u) # {}]_vars

\* README, Authentication: the access tokens of a removed user stop working
\* immediately.
RemovedLoseAccess ==
  \A a \in access : ~member[a.user] => ~validateToken(a)

\* The stage of a token, read off the row and the clock.
Stage(t) ==
  IF t \notin issued THEN "unissued"
  ELSE IF ~Live(t) THEN "gone"
  ELSE IF rows[t].rotatedAt = None THEN "live"
  ELSE IF now < rows[t].rotatedAt + Grace THEN "grace" ELSE "old"

\* The token it was rotated out of.
Parent(t) == IF Live(t) THEN rows[t].parent ELSE None

Abstract == INSTANCE TokenLife WITH
              life <- [t \in Tokens |-> Stage(t)], from <- [t \in Tokens |-> Parent(t)]

\* Locks, rollbacks, reuse detection and the clock keep every token on the path
\* of TokenLife: one that has been reused, revoked, or removed with its user is
\* never renewed again, whatever was in flight.
KeepsTokenLife == Abstract!Spec

\* Every refresh is answered, even when it has to wait for a removal.
RefreshAnswered ==
  \A r \in Requests : pc[r] # "idle" ~> pc[r] = "idle"

=============================================================================
