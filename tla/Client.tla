------------------------------ MODULE Client ------------------------------
(***************************************************************************)
(* One browser of a user: tabs that share their cookies, and in each tab   *)
(* the API client, which renews the session when a call is refused and     *)
(* repeats the call once.                                                  *)
(*                                                                         *)
(* A request to renew or to log out carries the refresh token that the     *)
(* cookie held when it was sent, is handled at some later time, and its    *)
(* answer sets or clears the cookies later still.  Either may be lost.     *)
(* What happens inside the server is the subject of Session; here each of  *)
(* its handlers is one step.  Access tokens expire while they travel, so   *)
(* any call may be refused and the access cookie itself is left out: it is *)
(* set and cleared together with the refresh cookie.                       *)
(*                                                                         *)
(* A token that neither the cookie nor a request holds can never be        *)
(* presented again: its name is used for another one.                      *)
(***************************************************************************)
EXTENDS Naturals, FiniteSets

CONSTANTS
  Tabs,
  Calls,      \* calls of a page that may be under way at once, in each tab
  Tokens,     \* names for the refresh tokens somebody holds
  MaxLogins,  \* bound on the logins
  NoToken, NoRequest

Slots == Calls \cup {"status"}

ASSUME ClientAssumption ==
  /\ MaxLogins \in Nat
  /\ NoToken \notin Tokens /\ "status" \notin Calls

VARIABLES
  jar,         \* the refresh token in the cookies
  token,       \* what the server knows of a refresh token
  call,        \* the progress of a call that was refused
  refreshing,  \* the request to /auth/refresh that a tab's calls wait for
  logout,      \* the request to /logout of a tab
  signedIn,    \* isAuthenticated of a tab
  logins,      \* history: sessions begun
  ended,       \* history: sessions that a tab was told it has logged out of
  raced        \* history: those for which a renewal was under way then

clVars == <<jar, token, call, refreshing, logout, signedIn, logins, ended, raced>>

Sessions == 1..MaxLogins

Token == [state: {"live", "grace", "old", "gone"}, session: 0..MaxLogins,
          lost: BOOLEAN]

Spare == [state |-> "gone", session |-> 0, lost |-> FALSE]

Refresh == [presented: Tokens \cup {NoToken}, got: Tokens \cup {NoToken},
            step: {"sent", "renewed", "invalid", "missing"}]

Logout == [presented: Tokens \cup {NoToken}, step: {"sent", "answered"}]

ASSUME NoRequestAssumption == NoRequest \notin Refresh \cup Logout

Held ==
  {jar}
  \cup {refreshing[t].presented : t \in {s \in Tabs : refreshing[s] # NoRequest}}
  \cup {refreshing[t].got : t \in {s \in Tabs : refreshing[s] # NoRequest}}
  \cup {logout[t].presented : t \in {s \in Tabs : logout[s] # NoRequest}}

Unused == Tokens \ Held

\* The tokens as in f; those nobody holds any more are forgotten.
Keep(f) == token' = [x \in Tokens |-> IF x \in Held' THEN f[x] ELSE Spare]

NewToken(s) == [state |-> "live", session |-> s, lost |-> FALSE]

CLInit ==
  /\ jar = NoToken
  /\ token = [x \in Tokens |-> Spare]
  /\ call = [t \in Tabs |-> [c \in Slots |-> "idle"]]
  /\ refreshing = [t \in Tabs |-> NoRequest]
  /\ logout = [t \in Tabs |-> NoRequest]
  /\ signedIn = [t \in Tabs |-> FALSE]
  /\ logins = 0
  /\ ended = {} /\ raced = {}

history == <<logins, ended, raced>>

(***************************************************************************)
(* Calls, and the renewal they wait for (api/client.ts)                    *)
(***************************************************************************)
\* refreshSession: the first of the tab's calls sends the request, the others
\* wait for the same one.
refreshSession(t, c) ==
  /\ call' = [call EXCEPT ![t][c] = "waiting"]
  /\ refreshing' =
       [refreshing EXCEPT ![t] =
          IF @ = NoRequest
          THEN [presented |-> jar, got |-> NoToken, step |-> "sent"] ELSE @]

\* A call from a page of a user who is signed in is answered 401.
CallRefused(t, c) ==
  /\ signedIn[t] /\ call[t][c] = "idle"
  /\ refreshSession(t, c)
  /\ UNCHANGED <<jar, token, logout, signedIn, history>>

\* The page is loaded, and AuthProvider asks for /auth/status: it is answered,
\* or refused as any call.
LoadPage(t) ==
  /\ call[t] = [c \in Slots |-> "idle"]
  /\ refreshing[t] = NoRequest /\ logout[t] = NoRequest
  /\ \/ /\ jar # NoToken
        /\ signedIn' = [signedIn EXCEPT ![t] = TRUE]
        /\ UNCHANGED <<call, refreshing>>
     \/ /\ signedIn' = [signedIn EXCEPT ![t] = FALSE]
        /\ refreshSession(t, "status")
  /\ UNCHANGED <<jar, token, logout, history>>

\* Mutant: the request is not marked as _retried, so a second 401 renews again.
BugRepeatRefused(t, c) ==
  /\ refreshSession(t, c)
  /\ UNCHANGED signedIn

\* _retried: a 401 of a repeated call is an error of the page.
RepeatRefused(t, c) ==
  /\ call' = [call EXCEPT ![t][c] = "idle"]
  /\ signedIn' = IF c = "status" THEN [signedIn EXCEPT ![t] = FALSE] ELSE signedIn
  /\ UNCHANGED refreshing

\* The repeated call is answered.  The answer to /auth/status says who is
\* signed in.
RepeatAnswered(t, c) ==
  /\ call[t][c] = "repeated"
  /\ \/ RepeatRefused(t, c)
     \/ /\ jar # NoToken
        /\ call' = [call EXCEPT ![t][c] = "idle"]
        /\ signedIn' = IF c = "status" THEN [signedIn EXCEPT ![t] = TRUE] ELSE signedIn
        /\ UNCHANGED refreshing
  /\ UNCHANGED <<jar, token, logout, history>>

\* Whoever waits is repeated or fails.
Afterwards(progress, renewed) ==
  IF progress # "waiting" THEN progress ELSE IF renewed THEN "repeated" ELSE "idle"

\* The promise settles.
Settle(t, renewed) ==
  /\ refreshing' = [refreshing EXCEPT ![t] = NoRequest]
  /\ call' = [call EXCEPT ![t] = [c \in Slots |-> Afterwards(@[c], renewed)]]

\* Mutant: the renewed refresh token is not sent.
BugRenewedJar(q) == jar

\* sendRefreshToken
RenewedJar(q) == q.got

\* The browser stores the cookies of the answer and the promise settles.
RefreshArrives(t) ==
  LET q == refreshing[t] IN
  /\ q # NoRequest /\ q.step # "sent"
  /\ jar' = CASE q.step = "renewed" -> RenewedJar(q)
              [] q.step = "invalid" -> NoToken
              [] q.step = "missing" -> jar
  /\ Settle(t, q.step = "renewed")
  /\ UNCHANGED <<logout, signedIn, history>>
  /\ Keep(token)

\* The request or its answer is lost, or the page is left.
RefreshLost(t) ==
  LET q == refreshing[t] IN
  /\ q # NoRequest
  /\ Settle(t, FALSE)
  /\ UNCHANGED <<jar, logout, signedIn, history>>
  /\ Keep(IF q.step = "renewed" THEN [token EXCEPT ![q.presented].lost = TRUE]
                                ELSE token)

(***************************************************************************)
(* The server                                                              *)
(***************************************************************************)
\* SessionService.refresh: a token that was rotated within the grace period is
\* renewed like a live one; one rotated before it ends every session.
Refreshed(t) ==
  LET q == refreshing[t]  x == q.presented
      Became(step, n) ==
        refreshing' = [refreshing EXCEPT ![t].step = step, ![t].got = n]
  IN
  /\ q # NoRequest /\ q.step = "sent"
  /\ \/ /\ x = NoToken
        /\ Became("missing", NoToken)
        /\ UNCHANGED token
     \/ /\ x # NoToken /\ token[x].state = "gone"
        /\ Became("invalid", NoToken)
        /\ UNCHANGED token
     \/ /\ x # NoToken /\ token[x].state = "old"
        /\ Became("invalid", NoToken)
        /\ token' = [y \in Tokens |-> [token[y] EXCEPT !.state = "gone"]]
     \/ /\ x # NoToken /\ token[x].state \in {"live", "grace"}
        /\ \E n \in Unused :
           /\ Became("renewed", n)
           /\ token' = [token EXCEPT ![x].state = "grace",
                                     ![n] = NewToken(token[x].session)]
  /\ UNCHANGED <<jar, call, logout, signedIn, history>>

UnderWay(x) == \E t \in Tabs : refreshing[t] # NoRequest /\ refreshing[t].presented = x

\* A request to renew that is still under way when the grace period of its token
\* ends has taken too long.
AfterGrace(x) ==
  [token EXCEPT ![x].state = "old", ![x].lost = @ \/ UnderWay(x)]

GraceEnds(x) ==
  /\ token[x].state = "grace"
  /\ token' = AfterGrace(x)
  /\ UNCHANGED <<jar, call, refreshing, logout, signedIn, history>>

(***************************************************************************)
(* Login and logout                                                        *)
(***************************************************************************)
\* POST /login and its answer.
Login(t) ==
  /\ ~signedIn[t] /\ call[t]["status"] = "idle"
  /\ logins < MaxLogins
  /\ logins' = logins + 1
  /\ \E n \in Unused :
     /\ jar' = n
     /\ UNCHANGED <<call, refreshing, logout, ended, raced>>
     /\ Keep([token EXCEPT ![n] = NewToken(logins + 1)])
  /\ signedIn' = [signedIn EXCEPT ![t] = TRUE]

\* handleLogout of the navigation bar.
LogoutSent(t) ==
  /\ signedIn[t] /\ logout[t] = NoRequest
  /\ logout' = [logout EXCEPT ![t] = [presented |-> jar, step |-> "sent"]]
  /\ UNCHANGED <<jar, token, call, refreshing, signedIn, history>>

\* SessionService.endSession deletes the row of the token it is given.
LoggedOut(t) ==
  /\ logout[t] # NoRequest /\ logout[t].step = "sent"
  /\ token' = [x \in Tokens |-> IF x = logout[t].presented
                                THEN [token[x] EXCEPT !.state = "gone"] ELSE token[x]]
  /\ logout' = [logout EXCEPT ![t].step = "answered"]
  /\ UNCHANGED <<jar, call, refreshing, signedIn, history>>

\* Mutant: the cookies are not cleared.
BugClearSession == jar

clearSession == NoToken

Ending(t) ==
  {token[x].session : x \in {logout[t].presented} \cap Tokens} \cap Sessions

LogoutArrives(t) ==
  /\ logout[t] # NoRequest /\ logout[t].step = "answered"
  /\ jar' = clearSession
  /\ signedIn' = [signedIn EXCEPT ![t] = FALSE]
  /\ logout' = [logout EXCEPT ![t] = NoRequest]
  /\ ended' = ended \cup Ending(t)
  /\ raced' = IF \E s \in Tabs : refreshing[s] # NoRequest
              THEN raced \cup Ending(t) ELSE raced
  /\ UNCHANGED <<call, refreshing, logins>>
  /\ Keep(token)

\* The page only logs the error and goes on as before.
LogoutLost(t) ==
  /\ logout[t] # NoRequest
  /\ logout' = [logout EXCEPT ![t] = NoRequest]
  /\ UNCHANGED <<jar, call, refreshing, signedIn, history>>
  /\ Keep(token)

CLNext ==
  \/ \E x \in Tokens : GraceEnds(x)
  \/ \E t \in Tabs :
       \/ LoadPage(t)
       \/ \E c \in Calls : CallRefused(t, c)
       \/ \E c \in Slots : RepeatAnswered(t, c)
       \/ RefreshArrives(t) \/ RefreshLost(t) \/ Refreshed(t)
       \/ Login(t)
       \/ LogoutSent(t) \/ LoggedOut(t) \/ LogoutArrives(t) \/ LogoutLost(t)

CLSpec == CLInit /\ [][CLNext]_clVars

\* A request ends, with an answer or an error.
RefreshEnds(t) == Refreshed(t) \/ RefreshArrives(t) \/ RefreshLost(t)

(***************************************************************************)
(* Properties                                                              *)
(***************************************************************************)
\* The variables have their types, and a call waits only for a request that is
\* under way.
CLTypeOK ==
  /\ jar \in Tokens \cup {NoToken}
  /\ token \in [Tokens -> Token]
  /\ call \in [Tabs -> [Slots -> {"idle", "waiting", "repeated"}]]
  /\ refreshing \in [Tabs -> Refresh \cup {NoRequest}]
  /\ \A t \in Tabs, c \in Slots : call[t][c] = "waiting" => refreshing[t] # NoRequest
  /\ logout \in [Tabs -> Logout \cup {NoRequest}]
  /\ signedIn \in [Tabs -> BOOLEAN]
  /\ logins \in 0..MaxLogins
  /\ ended \subseteq Sessions /\ raced \subseteq Sessions

\* The tabs of an honest user never look like a thief to SessionService.refresh:
\* a token is presented after its grace period only if the answer to an earlier
\* renewal with it was lost, or one was under way until the period ended.
HonestTabsKeepSession ==
  \A t \in Tabs :
    LET q == refreshing[t] IN
    (q # NoRequest /\ q.step = "sent" /\ q.presented # NoToken
       /\ token[q.presented].state = "old")
    => token[q.presented].lost

\* Once a tab was told that it has logged out, the cookies of the browser do not
\* renew that session any more, unless a renewal was under way at that moment.
LoggedOutStaysOut ==
  jar # NoToken /\ token[jar].session \in ended => token[jar].session \in raced

\* Every call of a page is answered or fails: none waits for ever for a renewal,
\* and none is repeated over and over.
CallsAnswered ==
  \A t \in Tabs, c \in Slots : call[t][c] # "idle" ~> call[t][c] = "idle"

=============================================================================
