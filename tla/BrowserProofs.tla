---------------------------- MODULE BrowserProofs ---------------------------
(***************************************************************************)
(* What holds of the cookies that tabs share, for any number of tabs,      *)
(* calls, tokens and logins; of what a tab shows of the subscription, for  *)
(* any users, checkouts and numbers of attempts; and of the page of the    *)
(* active warehouse, for any warehouses, calls and changes by others.      *)
(***************************************************************************)
EXTENDS Browser, FiniteSetTheorems, TLAPS

-----------------------------------------------------------------------------
(***************************************************************************)
(* The tabs of a browser                                                   *)
(***************************************************************************)

-----------------------------------------------------------------------------
(* Types *)

\* A request is no absence of one.
LEMMA RequestsExist ==
  ASSUME NEW q \in Refresh \cup Logout
  PROVE  q # NoRequest
BY NoRequestAssumption

\* Keep forgets tokens nobody holds, and leaves the others as they are.
LEMMA Kept ==
  ASSUME NEW f, f \in [Tokens -> Token], Keep(f)
  PROVE  /\ token' \in [Tokens -> Token]
         /\ \A x \in Held' \cap Tokens : token'[x] = f[x]
         /\ \A x \in Tokens : token'[x].session \in {0, f[x].session}
<1>1. Spare \in Token /\ Spare.session = 0
  BY ClientAssumption DEF Spare, Token
<1> QED
  BY <1>1 DEF Keep

\* What happens to a token leaves it one.
LEMMA Tokened ==
  ASSUME NEW f, f \in [Tokens -> Token], NEW x
  PROVE  /\ [f EXCEPT ![x].lost = TRUE] \in [Tokens -> Token]
         /\ \A st \in {"grace", "old", "gone"} :
              [f EXCEPT ![x].state = st] \in [Tokens -> Token]
<1>1. ASSUME NEW y \in Token
      PROVE  /\ [y EXCEPT !.lost = TRUE] \in Token
             /\ \A st \in {"grace", "old", "gone"} : [y EXCEPT !.state = st] \in Token
  BY DEF Token
<1>2. CASE x \in Tokens
  BY <1>1, <1>2
<1>3. CASE x \notin Tokens
  BY <1>3
<1> QED
  BY <1>2, <1>3

\* A call that waits for a renewal waits for one that is under way.
LEMMA SessionAsked ==
  ASSUME CLTypeOK, NEW t \in Tabs, NEW c \in Slots, refreshSession(t, c)
  PROVE  /\ refreshing' \in [Tabs -> Refresh \cup {NoRequest}]
         /\ call' \in [Tabs -> [Slots -> {"idle", "waiting", "repeated"}]]
         /\ \A s \in Tabs, d \in Slots : call'[s][d] = "waiting" => refreshing'[s] # NoRequest
         /\ \A s \in Tabs :
              \/ refreshing'[s] = refreshing[s]
              \/ refreshing'[s] = [presented |-> jar, got |-> NoToken, step |-> "sent"]
<1> DEFINE new == [presented |-> jar, got |-> NoToken, step |-> "sent"]
<1>1. new \in Refresh /\ new # NoRequest
  BY RequestsExist DEF CLTypeOK, Refresh
<1>2. /\ refreshing' \in [Tabs -> Refresh \cup {NoRequest}] /\ refreshing'[t] # NoRequest
      /\ \A s \in Tabs : refreshing'[s] \in {refreshing[s], new}
      /\ \A s \in Tabs : refreshing[s] # NoRequest => refreshing'[s] # NoRequest
  BY <1>1 DEF CLTypeOK, refreshSession
<1>3. call' \in [Tabs -> [Slots -> {"idle", "waiting", "repeated"}]]
      /\ \A s \in Tabs, d \in Slots : call'[s][d] = "waiting" => s = t \/ call[s][d] = "waiting"
  BY DEF CLTypeOK, refreshSession
<1> QED
  BY <1>2, <1>3 DEF CLTypeOK

\* When the promise settles nobody waits for it.
LEMMA Settled ==
  ASSUME CLTypeOK, NEW t \in Tabs, NEW renewed \in BOOLEAN, Settle(t, renewed)
  PROVE  /\ refreshing' \in [Tabs -> Refresh \cup {NoRequest}]
         /\ call' \in [Tabs -> [Slots -> {"idle", "waiting", "repeated"}]]
         /\ \A s \in Tabs, d \in Slots : call'[s][d] = "waiting" => refreshing'[s] # NoRequest
         /\ refreshing'[t] = NoRequest
         /\ \A s \in Tabs \ {t} : refreshing'[s] = refreshing[s]
<1>1. /\ refreshing' \in [Tabs -> Refresh \cup {NoRequest}]
      /\ refreshing'[t] = NoRequest
      /\ \A s \in Tabs \ {t} : refreshing'[s] = refreshing[s]
  BY DEF CLTypeOK, Settle
<1>2. [c \in Slots |-> Afterwards(call[t][c], renewed)] \in [Slots -> {"idle", "repeated"}]
  BY DEF CLTypeOK, Afterwards
<1>3. /\ call' \in [Tabs -> [Slots -> {"idle", "waiting", "repeated"}]]
      /\ call'[t] \in [Slots -> {"idle", "repeated"}]
      /\ \A s \in Tabs \ {t} : call'[s] = call[s]
  BY <1>2 DEF CLTypeOK, Settle
<1> QED
  BY <1>1, <1>3 DEF CLTypeOK

\* The first state has the types.
LEMMA TypedInit == CLInit => CLTypeOK
<1>1. Spare \in Token
  BY ClientAssumption DEF Spare, Token
<1> QED
  BY <1>1, ClientAssumption DEF CLInit, CLTypeOK, Sessions

\* The calls of a page.
LEMMA TypedCalls ==
  ASSUME CLTypeOK, NEW t \in Tabs, NEW c \in Slots,
         (c \in Calls /\ CallRefused(t, c)) \/ LoadPage(t) \/ RepeatAnswered(t, c)
  PROVE  CLTypeOK'
<1>1. CASE c \in Calls /\ CallRefused(t, c)
  BY <1>1, SessionAsked DEF CallRefused, CLTypeOK, history
<1>2. CASE LoadPage(t)
  <2>1. "status" \in Slots
    BY DEF Slots
  <2>2. CASE refreshSession(t, "status")
    BY <1>2, <2>1, <2>2, SessionAsked DEF LoadPage, CLTypeOK, history
  <2>3. CASE UNCHANGED <<call, refreshing>>
    BY <1>2, <2>3 DEF LoadPage, CLTypeOK, history
  <2> QED
    BY <1>2, <2>2, <2>3 DEF LoadPage
<1>3. CASE RepeatAnswered(t, c)
  <2>1. call' = [call EXCEPT ![t][c] = "idle"] /\ refreshing' = refreshing
    BY <1>3 DEF RepeatAnswered, RepeatRefused
  <2>2. signedIn' \in [Tabs -> BOOLEAN]
    BY <1>3 DEF RepeatAnswered, RepeatRefused, CLTypeOK
  <2>3. /\ call' \in [Tabs -> [Slots -> {"idle", "waiting", "repeated"}]]
        /\ \A s \in Tabs, d \in Slots : call'[s][d] = "waiting" => call[s][d] = "waiting"
    BY <2>1 DEF CLTypeOK
  <2> QED
    BY <1>3, <2>1, <2>2, <2>3 DEF RepeatAnswered, CLTypeOK, history
<1> QED
  BY <1>1, <1>2, <1>3

\* A renewal ends.
LEMMA TypedRenewals ==
  ASSUME CLTypeOK, NEW t \in Tabs, RefreshArrives(t) \/ RefreshLost(t)
  PROVE  CLTypeOK'
<1>1. refreshing[t] \in Refresh
  BY DEF CLTypeOK, RefreshArrives, RefreshLost
<1>2. CASE RefreshArrives(t)
  <2>1. jar' \in Tokens \cup {NoToken}
    BY <1>1, <1>2 DEF RefreshArrives, RenewedJar, CLTypeOK, Refresh
  <2>2. token' \in [Tokens -> Token]
    BY <1>2, Kept DEF RefreshArrives, CLTypeOK
  <2>3. Settle(t, refreshing[t].step = "renewed")
    BY <1>2 DEF RefreshArrives
  <2> QED
    BY <1>2, <2>1, <2>2, <2>3, Settled DEF RefreshArrives, CLTypeOK, history
<1>3. CASE RefreshLost(t)
  <2> DEFINE q == refreshing[t]
             f == IF q.step = "renewed" THEN [token EXCEPT ![q.presented].lost = TRUE]
                  ELSE token
  <2>1. f \in [Tokens -> Token]
    BY Tokened DEF CLTypeOK
  <2>2. Keep(f) /\ Settle(t, FALSE)
    BY <1>3 DEF RefreshLost
  <2>3. token' \in [Tokens -> Token]
    BY <2>1, <2>2, Kept
  <2> QED
    BY <1>3, <2>2, <2>3, Settled DEF RefreshLost, CLTypeOK, history
<1> QED
  BY <1>2, <1>3

\* The requests when the one of tab t is answered.
WithAnswer(t, step, n) == [refreshing EXCEPT ![t].step = step, ![t].got = n]

\* What the server makes of a request to renew.
LEMMA Answers ==
  ASSUME NEW t \in Tabs, Refreshed(t)
  PROVE  LET x == refreshing[t].presented IN
         \E step \in {"renewed", "invalid", "missing"}, n \in Unused \cup {NoToken} :
           /\ refreshing' = WithAnswer(t, step, n)
           /\ \/ step # "renewed" /\ n = NoToken /\ token' = token
              \/ /\ step = "invalid" /\ n = NoToken
                 /\ token' = [y \in Tokens |-> [token[y] EXCEPT !.state = "gone"]]
              \/ /\ step = "renewed" /\ n # NoToken /\ n \in Unused /\ x # NoToken
                 /\ token[x].state \in {"live", "grace"}
                 /\ token' = [token EXCEPT ![x].state = "grace",
                                           ![n] = NewToken(token[x].session)]
<1>1. \A n \in Unused : n # NoToken
  BY ClientAssumption DEF Unused
<1> QED
  BY <1>1 DEF Refreshed, WithAnswer

\* The request stays the one it was.
LEMMA RenewalAnswered ==
  ASSUME CLTypeOK, NEW t \in Tabs, Refreshed(t),
         NEW step \in {"renewed", "invalid", "missing"}, NEW n \in Tokens \cup {NoToken},
         refreshing' = WithAnswer(t, step, n)
  PROVE  /\ refreshing' \in [Tabs -> Refresh \cup {NoRequest}]
         /\ refreshing'[t] =
              [presented |-> refreshing[t].presented, got |-> n, step |-> step]
         /\ refreshing'[t] # NoRequest
         /\ \A s \in Tabs \ {t} : refreshing'[s] = refreshing[s]
<1> DEFINE q == refreshing[t]
           new == [presented |-> q.presented, got |-> n, step |-> step]
           r == [[q EXCEPT !.step = step] EXCEPT !.got = n]
<1>1. q \in Refresh
  BY DEF CLTypeOK, Refreshed
<1>2. new \in Refresh /\ r = new
  <2>1. new \in Refresh
    BY <1>1 DEF Refresh
  <2>2. r \in Refresh /\ r.presented = q.presented /\ r.got = n /\ r.step = step
    BY <1>1 DEF Refresh
  <2>3. \A v, w \in Refresh :
          v.presented = w.presented /\ v.got = w.got /\ v.step = w.step => v = w
    BY DEF Refresh
  <2>4. new.presented = q.presented /\ new.got = n /\ new.step = step
    OBVIOUS
  <2> HIDE DEF r, new
  <2> QED
    BY <2>1, <2>2, <2>3, <2>4
<1>3. refreshing' = [refreshing EXCEPT ![t] = new]
  BY <1>2 DEF CLTypeOK, WithAnswer
<1> QED
  BY <1>2, <1>3, RequestsExist DEF CLTypeOK

\* The server renews, and grace periods end.
LEMMA TypedServer ==
  ASSUME CLTypeOK,
         \/ \E t \in Tabs : Refreshed(t) \/ LoggedOut(t)
         \/ \E x \in Tokens : GraceEnds(x)
  PROVE  CLTypeOK'
<1>1. ASSUME NEW t \in Tabs, Refreshed(t) PROVE CLTypeOK'
  <2> DEFINE x == refreshing[t].presented
  <2>1. \A n \in Tokens : x # NoToken =>
          [token EXCEPT ![x].state = "grace", ![n] = NewToken(token[x].session)]
            \in [Tokens -> Token]
    <3>1. ASSUME x # NoToken PROVE x \in Tokens /\ NewToken(token[x].session) \in Token
      BY <1>1, <3>1 DEF Refreshed, CLTypeOK, Refresh, Token, NewToken
    <3>2. [token EXCEPT ![x].state = "grace"] \in [Tokens -> Token]
      BY Tokened DEF CLTypeOK
    <3> QED
      BY <3>1, <3>2
  <2>2. [y \in Tokens |-> [token[y] EXCEPT !.state = "gone"]] \in [Tokens -> Token]
    BY DEF CLTypeOK, Token
  <2>3. PICK step \in {"renewed", "invalid", "missing"}, n \in Unused \cup {NoToken} :
          /\ refreshing' = WithAnswer(t, step, n)
          /\ \/ token' = token
             \/ token' = [y \in Tokens |-> [token[y] EXCEPT !.state = "gone"]]
             \/ /\ n \in Unused /\ x # NoToken
                /\ token' = [token EXCEPT ![x].state = "grace",
                                          ![n] = NewToken(token[x].session)]
    BY <1>1, Answers
  <2>4. n \in Tokens \cup {NoToken} /\ Unused \subseteq Tokens
    BY DEF Unused
  <2>5. token' \in [Tokens -> Token]
    <3> DEFINE renewed == [token EXCEPT ![x].state = "grace",
                                        ![n] = NewToken(token[x].session)]
               gone == [y \in Tokens |-> [token[y] EXCEPT !.state = "gone"]]
    <3>1. n \in Unused /\ x # NoToken => renewed \in [Tokens -> Token]
      BY <2>1, <2>4
    <3>2. gone \in [Tokens -> Token] /\ token \in [Tokens -> Token]
      BY <2>2 DEF CLTypeOK
    <3>3. token' \in {token, gone} \/ (n \in Unused /\ x # NoToken /\ token' = renewed)
      BY <2>3
    <3> HIDE DEF renewed, gone
    <3> QED
      BY <3>1, <3>2, <3>3
  <2>6. /\ refreshing' \in [Tabs -> Refresh \cup {NoRequest}]
        /\ \A s \in Tabs : refreshing[s] # NoRequest => refreshing'[s] # NoRequest
    BY <1>1, <2>3, <2>4, RenewalAnswered
  <2> QED
    BY <1>1, <2>5, <2>6 DEF Refreshed, CLTypeOK, history
<1>2. ASSUME NEW t \in Tabs, LoggedOut(t) PROVE CLTypeOK'
  BY <1>2 DEF LoggedOut, CLTypeOK, Token, Logout, history
<1>3. ASSUME NEW x \in Tokens, GraceEnds(x) PROVE CLTypeOK'
  <2>1. AfterGrace(x) \in [Tokens -> Token]
    <3>1. UnderWay(x) \in BOOLEAN
      BY DEF UnderWay
    <3>2. [[token[x] EXCEPT !.state = "old"] EXCEPT !.lost = token[x].lost \/ UnderWay(x)]
            \in Token
      BY <3>1 DEF CLTypeOK, Token
    <3> QED
      BY <3>2 DEF AfterGrace, CLTypeOK
  <2> QED
    BY <1>3, <2>1 DEF GraceEnds, CLTypeOK, history
<1> QED
  BY <1>1, <1>2, <1>3

\* Sessions begin and end.
LEMMA TypedSessions ==
  ASSUME CLTypeOK, NEW t \in Tabs,
         Login(t) \/ LogoutSent(t) \/ LogoutArrives(t) \/ LogoutLost(t)
  PROVE  CLTypeOK'
<1>1. CASE Login(t)
  <2>1. logins + 1 \in 0..MaxLogins
    BY <1>1, ClientAssumption DEF Login, CLTypeOK
  <2>2. PICK n \in Unused : jar' = n /\ Keep([token EXCEPT ![n] = NewToken(logins + 1)])
    BY <1>1 DEF Login
  <2>3. n \in Tokens /\ [token EXCEPT ![n] = NewToken(logins + 1)] \in [Tokens -> Token]
    BY <2>1, <2>2 DEF Unused, CLTypeOK, Token, NewToken
  <2>4. token' \in [Tokens -> Token]
    BY <2>2, <2>3, Kept
  <2> QED
    BY <1>1, <2>1, <2>2, <2>3, <2>4 DEF Login, CLTypeOK
<1>2. CASE LogoutSent(t)
  BY <1>2 DEF LogoutSent, CLTypeOK, Logout, history
<1>3. CASE LogoutArrives(t)
  <2>1. token' \in [Tokens -> Token]
    BY <1>3, Kept DEF LogoutArrives, CLTypeOK
  <2>2. ended' \subseteq Sessions /\ raced' \subseteq Sessions
    BY <1>3 DEF LogoutArrives, Ending, CLTypeOK
  <2> QED
    BY <1>3, <2>1, <2>2 DEF LogoutArrives, CLTypeOK, clearSession
<1>4. CASE LogoutLost(t)
  <2>1. token' \in [Tokens -> Token]
    BY <1>4, Kept DEF LogoutLost, CLTypeOK
  <2> QED
    BY <1>4, <2>1 DEF LogoutLost, CLTypeOK, history
<1> QED
  BY <1>1, <1>2, <1>3, <1>4

\* The variables have their types, and a call waits only for a request that is
\* under way.
THEOREM ClientTypeCorrect == CLSpec => []CLTypeOK
<1>1. CLTypeOK /\ [CLNext]_clVars => CLTypeOK'
  <2> SUFFICES ASSUME CLTypeOK, [CLNext]_clVars PROVE CLTypeOK'
    OBVIOUS
  <2>1. CASE UNCHANGED clVars
    BY <2>1 DEF clVars, CLTypeOK
  <2>2. CASE CLNext
    <3>1. "status" \in Slots /\ Calls \subseteq Slots
      BY DEF Slots
    <3> QED
      BY <2>2, <3>1, TypedCalls, TypedRenewals, TypedServer, TypedSessions DEF CLNext
  <2> QED
    BY <2>1, <2>2
<1> QED
  BY <1>1, TypedInit, PTL DEF CLSpec

-----------------------------------------------------------------------------
(* Honest tabs *)

Asked(t) == refreshing[t] # NoRequest

\* A token that comes with an answer is new: neither the cookies nor another
\* request hold it.
NewOnes ==
  \A t \in Tabs : Asked(t) /\ refreshing[t].got # NoToken =>
    LET n == refreshing[t].got IN
    /\ token[n].state \in {"live", "gone"}
    /\ n # jar
    /\ \A s \in Tabs : Asked(s) => refreshing[s].presented # n
    /\ \A s \in Tabs \ {t} : Asked(s) => refreshing[s].got # n

\* Only the answer to a renewal brings a token.
Brings ==
  \A t \in Tabs : Asked(t) =>
    (refreshing[t].got # NoToken <=> refreshing[t].step = "renewed")

Renewing(x) ==
  \E t \in Tabs : Asked(t) /\ refreshing[t].presented = x /\ refreshing[t].step = "renewed"

\* The token in the cookies is spent only while a successor is on its way, or
\* after that was lost.
JarSafe ==
  jar # NoToken =>
    /\ token[jar].state = "grace" => token[jar].lost \/ Renewing(jar)
    /\ token[jar].state = "old" => token[jar].lost

\* So is one that has been sent and not yet looked at.
SentSafe ==
  \A t \in Tabs :
    LET q == refreshing[t] IN
    (Asked(t) /\ q.step = "sent" /\ q.presented # NoToken
       /\ token[q.presented].state = "old")
    => token[q.presented].lost

HonestInv == NewOnes /\ Brings /\ JarSafe /\ SentSafe

\* What the cookies and the requests hold is held.
LEMMA HeldNow ==
  ASSUME NEW s \in Tabs
  PROVE  /\ jar \in Held
         /\ Asked(s) => refreshing[s].presented \in Held /\ refreshing[s].got \in Held
BY DEF Held, Asked

LEMMA HeldNext ==
  ASSUME NEW s \in Tabs
  PROVE  /\ jar' \in Held'
         /\ Asked(s)' => refreshing'[s].presented \in Held' /\ refreshing'[s].got \in Held'
BY DEF Held, Asked

\* Requests carry tokens, or none.
LEMMA Carried ==
  ASSUME CLTypeOK, NEW s \in Tabs, Asked(s)
  PROVE  /\ refreshing[s].presented \in Tokens \cup {NoToken}
         /\ refreshing[s].got \in Tokens \cup {NoToken}
         /\ refreshing[s].step \in {"sent", "renewed", "invalid", "missing"}
BY DEF CLTypeOK, Asked, Refresh

\* A step after which the browser holds no more than before, in which tokens
\* only end, and in which no answer with a token is dropped unless that is noted.
LEMMA HonestLess ==
  ASSUME CLTypeOK, HonestInv,
         jar' \in {jar, NoToken},
         \A s \in Tabs : refreshing'[s] \in {refreshing[s], NoRequest},
         \A s \in Tabs : Asked(s) /\ ~Asked(s)' /\ refreshing[s].step = "renewed"
                           /\ refreshing[s].presented = jar /\ jar' = jar /\ jar # NoToken
                         => token'[jar].lost,
         \A x \in Held' \cap Tokens :
           /\ token'[x].state \in {token[x].state, "gone"}
           /\ token[x].lost => token'[x].lost
  PROVE  HonestInv'
<1>1. ASSUME NEW s \in Tabs, Asked(s)'
      PROVE  /\ Asked(s) /\ refreshing'[s] = refreshing[s]
             /\ refreshing[s].presented \in Tokens \cup {NoToken}
             /\ refreshing[s].got \in Tokens \cup {NoToken}
             /\ refreshing[s].presented \in Held' /\ refreshing[s].got \in Held'
  <2>1. Asked(s) /\ refreshing'[s] = refreshing[s]
    BY <1>1 DEF Asked
  <2> QED
    BY <1>1, <2>1, Carried, HeldNext
<1>2. jar' # NoToken => jar' = jar /\ jar \in Held' \cap Tokens
  BY HeldNext DEF CLTypeOK, Held
<1>3. NewOnes'
  <2> SUFFICES ASSUME NEW t \in Tabs, Asked(t)', refreshing'[t].got # NoToken
               PROVE  LET n == refreshing'[t].got IN
                      /\ token'[n].state \in {"live", "gone"}
                      /\ n # jar'
                      /\ \A s \in Tabs : Asked(s)' => refreshing'[s].presented # n
                      /\ \A s \in Tabs \ {t} : Asked(s)' => refreshing'[s].got # n
    BY DEF NewOnes
  <2> QED
    BY <1>1 DEF HonestInv, NewOnes
<1>4. Brings'
  BY <1>1 DEF HonestInv, Brings
<1>5. JarSafe'
  <2> SUFFICES ASSUME jar' # NoToken
               PROVE  /\ token'[jar'].state = "grace" => token'[jar'].lost \/ Renewing(jar)'
                      /\ token'[jar'].state = "old" => token'[jar'].lost
    BY DEF JarSafe
  <2>1. CASE token'[jar].state = token[jar].state
    BY <1>2, <2>1 DEF HonestInv, JarSafe, Renewing, Asked
  <2>2. CASE token'[jar].state = "gone"
    BY <1>2, <2>2
  <2> QED
    BY <1>2, <2>1, <2>2
<1>6. SentSafe'
  BY <1>1 DEF HonestInv, SentSafe
<1> QED
  BY <1>3, <1>4, <1>5, <1>6 DEF HonestInv

\* A step in which the server and the cookies stay as they are, and calls may ask
\* for a renewal with the cookies.
LEMMA HonestAsks ==
  ASSUME CLTypeOK, HonestInv, UNCHANGED <<jar, token>>,
         \A s \in Tabs :
           \/ refreshing'[s] = refreshing[s]
           \/ /\ refreshing[s] = NoRequest
              /\ refreshing'[s] = [presented |-> jar, got |-> NoToken, step |-> "sent"]
  PROVE  HonestInv'
<1>1. NewOnes'
  <2> SUFFICES ASSUME NEW t \in Tabs, Asked(t)', refreshing'[t].got # NoToken
               PROVE  LET n == refreshing'[t].got IN
                      /\ token'[n].state \in {"live", "gone"}
                      /\ n # jar'
                      /\ \A s \in Tabs : Asked(s)' => refreshing'[s].presented # n
                      /\ \A s \in Tabs \ {t} : Asked(s)' => refreshing'[s].got # n
    BY DEF NewOnes
  <2>1. Asked(t) /\ refreshing'[t] = refreshing[t]
    BY DEF Asked
  <2> QED
    BY <2>1 DEF HonestInv, NewOnes, Asked
<1>2. Brings'
  BY DEF HonestInv, Brings, Asked
<1>3. JarSafe'
  BY DEF HonestInv, JarSafe, Renewing, Asked
<1>4. SentSafe'
  BY DEF HonestInv, SentSafe, JarSafe, Asked
<1> QED
  BY <1>1, <1>2, <1>3, <1>4 DEF HonestInv

LEMMA HonestCalls ==
  ASSUME CLTypeOK, HonestInv, NEW t \in Tabs, NEW c \in Slots,
         (c \in Calls /\ CallRefused(t, c)) \/ LoadPage(t) \/ RepeatAnswered(t, c)
  PROVE  HonestInv'
<1>1. "status" \in Slots
  BY DEF Slots
<1>2. UNCHANGED <<jar, token>>
  BY DEF CallRefused, LoadPage, RepeatAnswered
<1>3. \/ refreshing' = refreshing
      \/ \E d \in Slots : refreshSession(t, d)
  BY <1>1 DEF CallRefused, LoadPage, RepeatAnswered, RepeatRefused
<1>4. \A s \in Tabs :
        \/ refreshing'[s] = refreshing[s]
        \/ /\ refreshing[s] = NoRequest
           /\ refreshing'[s] = [presented |-> jar, got |-> NoToken, step |-> "sent"]
  BY <1>3 DEF refreshSession, CLTypeOK
<1> QED
  BY <1>2, <1>4, HonestAsks

\* The renewed token replaces the one in the cookies.
LEMMA HonestArrives ==
  ASSUME CLTypeOK, HonestInv, NEW t \in Tabs, RefreshArrives(t)
  PROVE  HonestInv'
<1>1. /\ Asked(t) /\ refreshing[t].step # "sent" /\ refreshing[t].step \in {"renewed", "invalid", "missing"}
      /\ refreshing[t].got \in Tokens \cup {NoToken}
  BY Carried DEF RefreshArrives, Asked
<1>2. /\ refreshing'[t] = NoRequest
      /\ \A s \in Tabs \ {t} : refreshing'[s] = refreshing[s]
  BY Settled DEF RefreshArrives
<1>3. \A x \in Held' \cap Tokens : token'[x] = token[x]
  BY Kept DEF RefreshArrives, CLTypeOK
<1>4. CASE refreshing[t].step # "renewed"
  <2>1. jar' \in {jar, NoToken}
    BY <1>1, <1>4 DEF RefreshArrives
  <2> QED
    BY <1>2, <1>3, <1>4, <2>1, HonestLess DEF Asked
<1>5. CASE refreshing[t].step = "renewed"
  <2> DEFINE n == refreshing[t].got
  <2>1. jar' = n /\ n \in Tokens /\ n \in Held'
    <3>1. jar' = n
      BY <1>5 DEF RefreshArrives, RenewedJar
    <3> QED
      BY <1>1, <1>5, <3>1, HeldNext DEF HonestInv, Brings
  <2>2. ASSUME NEW s \in Tabs, Asked(s)'
        PROVE  /\ s # t /\ Asked(s) /\ refreshing'[s] = refreshing[s]
               /\ refreshing[s].presented \in Tokens \cup {NoToken}
               /\ refreshing[s].got \in Tokens \cup {NoToken}
               /\ refreshing[s].presented \in Held' /\ refreshing[s].got \in Held'
    <3>1. s # t /\ Asked(s) /\ refreshing'[s] = refreshing[s]
      BY <1>2, <2>2 DEF Asked
    <3> QED
      BY <2>2, <3>1, Carried, HeldNext
  <2>3. NewOnes'
    <3> SUFFICES ASSUME NEW s \in Tabs, Asked(s)', refreshing'[s].got # NoToken
                 PROVE  LET m == refreshing'[s].got IN
                        /\ token'[m].state \in {"live", "gone"}
                        /\ m # jar'
                        /\ \A u \in Tabs : Asked(u)' => refreshing'[u].presented # m
                        /\ \A u \in Tabs \ {s} : Asked(u)' => refreshing'[u].got # m
      BY DEF NewOnes
    <3> QED
      BY <1>1, <1>3, <2>1, <2>2 DEF HonestInv, NewOnes
  <2>4. Brings'
    BY <2>2 DEF HonestInv, Brings
  <2>5. JarSafe'
    <3>1. token'[n] = token[n] /\ token[n].state \in {"live", "gone"}
      BY <1>1, <1>3, <2>1, ClientAssumption DEF HonestInv, NewOnes
    <3> QED
      BY <2>1, <3>1 DEF JarSafe
  <2>6. SentSafe'
    BY <1>3, <2>2 DEF HonestInv, SentSafe
  <2> QED
    BY <2>3, <2>4, <2>5, <2>6 DEF HonestInv
<1> QED
  BY <1>4, <1>5

LEMMA HonestLost ==
  ASSUME CLTypeOK, HonestInv, NEW t \in Tabs, RefreshLost(t)
  PROVE  HonestInv'
<1> DEFINE q == refreshing[t]
           f == IF q.step = "renewed" THEN [token EXCEPT ![q.presented].lost = TRUE]
                ELSE token
<1>1. f \in [Tokens -> Token] /\ Keep(f)
  BY Tokened DEF RefreshLost, CLTypeOK
<1>2. \A x \in Tokens : f[x].state = token[x].state /\ (token[x].lost => f[x].lost)
  BY DEF CLTypeOK, Token
<1>3. \A x \in Held' \cap Tokens : token'[x] = f[x]
  BY <1>1, Kept
<1>4. q.step = "renewed" => \A x \in Tokens : x = q.presented => f[x].lost
  BY DEF CLTypeOK, Token
<1> HIDE DEF f
<1>5. \A x \in Held' \cap Tokens :
        token'[x].state = token[x].state /\ (token[x].lost => token'[x].lost)
  BY <1>2, <1>3
<1>6. /\ refreshing'[t] = NoRequest
      /\ \A s \in Tabs \ {t} : refreshing'[s] = refreshing[s]
  BY Settled DEF RefreshLost
<1>7. jar' = jar /\ (jar # NoToken => jar \in Held' \cap Tokens)
  BY HeldNext DEF RefreshLost, CLTypeOK
<1>8. \A s \in Tabs : Asked(s) /\ ~Asked(s)' /\ refreshing[s].step = "renewed"
                       /\ refreshing[s].presented = jar /\ jar' = jar /\ jar # NoToken
                     => token'[jar].lost
  BY <1>3, <1>4, <1>6, <1>7 DEF Asked
<1> QED
  BY <1>5, <1>6, <1>7, <1>8, HonestLess

LEMMA HonestServed ==
  ASSUME CLTypeOK, HonestInv, NEW t \in Tabs, Refreshed(t)
  PROVE  HonestInv'
<1> DEFINE x == refreshing[t].presented
<1>1. /\ Asked(t) /\ refreshing[t].step = "sent" /\ refreshing[t].got = NoToken
      /\ x \in Tokens \cup {NoToken} /\ jar' = jar
  BY Carried DEF Refreshed, Asked, HonestInv, Brings
<1>2. PICK step \in {"renewed", "invalid", "missing"}, n \in Unused \cup {NoToken} :
        /\ refreshing' = WithAnswer(t, step, n)
        /\ \/ step # "renewed" /\ n = NoToken /\ token' = token
           \/ /\ step = "invalid" /\ n = NoToken
              /\ token' = [y \in Tokens |-> [token[y] EXCEPT !.state = "gone"]]
           \/ /\ step = "renewed" /\ n # NoToken /\ n \in Unused /\ x # NoToken
              /\ token[x].state \in {"live", "grace"}
              /\ token' = [token EXCEPT ![x].state = "grace",
                                        ![n] = NewToken(token[x].session)]
  BY Answers
<1>3. n \in Tokens \cup {NoToken} /\ Unused \subseteq Tokens \ Held
  BY DEF Unused
<1>4. /\ refreshing'[t] = [presented |-> x, got |-> n, step |-> step]
      /\ refreshing'[t] # NoRequest
      /\ \A s \in Tabs \ {t} : refreshing'[s] = refreshing[s]
  <2>1. /\ step \in {"renewed", "invalid", "missing"}
        /\ refreshing' = WithAnswer(t, step, n)
    BY <1>2
  <2> QED
    BY <1>3, <2>1, RenewalAnswered
<1>5. \A s \in Tabs : Asked(s)' => Asked(s) /\ refreshing'[s].presented = refreshing[s].presented
  BY <1>1, <1>4 DEF Asked
<1>6. CASE n = NoToken
  <2>1. \A y \in Tokens : /\ token'[y].state \in {token[y].state, "gone"}
                          /\ token'[y].lost = token[y].lost
    BY <1>2, <1>6 DEF CLTypeOK, Token
  <2>2. ASSUME NEW s \in Tabs, Asked(s)', refreshing'[s].got # NoToken
        PROVE  s # t /\ refreshing'[s] = refreshing[s] /\ refreshing[s].got \in Tokens
    BY <1>4, <1>6, <2>2, Carried DEF Asked
  <2>3. step # "renewed"
    BY <1>2, <1>6
  <2>4. NewOnes'
    <3> SUFFICES ASSUME NEW s \in Tabs, Asked(s)', refreshing'[s].got # NoToken
                 PROVE  LET m == refreshing'[s].got IN
                        /\ token'[m].state \in {"live", "gone"}
                        /\ m # jar'
                        /\ \A u \in Tabs : Asked(u)' => refreshing'[u].presented # m
                        /\ \A u \in Tabs \ {s} : Asked(u)' => refreshing'[u].got # m
      BY DEF NewOnes
    <3> QED
      BY <1>1, <1>5, <2>1, <2>2 DEF HonestInv, NewOnes
  <2>5. Brings'
    BY <1>4, <1>6, <2>3 DEF HonestInv, Brings, Asked
  <2>6. JarSafe'
    <3>1. jar # NoToken => jar \in Tokens
      BY DEF CLTypeOK
    <3>2. jar # NoToken /\ Renewing(jar) => Renewing(jar)'
      BY <1>1, <1>4 DEF Renewing, Asked
    <3> QED
      BY <1>1, <2>1, <3>1, <3>2 DEF HonestInv, JarSafe
  <2>7. SentSafe'
    <3> SUFFICES ASSUME NEW s \in Tabs, Asked(s)', refreshing'[s].step = "sent",
                        refreshing'[s].presented # NoToken,
                        token'[refreshing'[s].presented].state = "old"
                 PROVE  token'[refreshing'[s].presented].lost
      BY DEF SentSafe
    <3>1. s # t /\ refreshing'[s] = refreshing[s] /\ Asked(s)
      BY <1>4, <1>5
    <3>2. refreshing[s].presented \in Tokens
      BY <3>1, Carried
    <3> QED
      BY <2>1, <3>1, <3>2 DEF HonestInv, SentSafe
  <2> QED
    BY <2>4, <2>5, <2>6, <2>7 DEF HonestInv
<1>7. CASE n # NoToken
  <2>1. /\ step = "renewed" /\ n \in Tokens /\ x \in Tokens /\ n \notin Held /\ x # n
        /\ token[x].state \in {"live", "grace"}
        /\ token' = [token EXCEPT ![x].state = "grace", ![n] = NewToken(token[x].session)]
    BY <1>1, <1>2, <1>3, <1>7, HeldNow
  <2>2. /\ token'[n].state = "live"
        /\ token'[x].state = "grace" /\ token'[x].lost = token[x].lost
        /\ \A y \in Tokens \ {x, n} : token'[y] = token[y]
    BY <2>1 DEF CLTypeOK, NewToken, Token
  <2>3. \A s \in Tabs : Asked(s) => refreshing[s].presented # n /\ refreshing[s].got # n
    BY <2>1, HeldNow
  <2>4. jar # n
    BY <1>1, <2>1, HeldNow
  <2>5. NewOnes'
    <3> SUFFICES ASSUME NEW s \in Tabs, Asked(s)', refreshing'[s].got # NoToken
                 PROVE  LET m == refreshing'[s].got IN
                        /\ token'[m].state \in {"live", "gone"}
                        /\ m # jar'
                        /\ \A u \in Tabs : Asked(u)' => refreshing'[u].presented # m
                        /\ \A u \in Tabs \ {s} : Asked(u)' => refreshing'[u].got # m
      BY DEF NewOnes
    <3>1. CASE s = t
      BY <1>1, <1>4, <1>5, <2>2, <2>3, <2>4, <3>1 DEF Asked
    <3>2. CASE s # t
      <4>1. /\ refreshing'[s] = refreshing[s] /\ Asked(s)
            /\ refreshing[s].got \in Tokens
        BY <1>4, <1>5, <3>2, Carried
      <4>2. refreshing[s].got \notin {x, n}
        BY <1>1, <2>3, <4>1 DEF HonestInv, NewOnes
      <4> QED
        BY <1>1, <1>4, <1>5, <2>2, <4>1, <4>2 DEF HonestInv, NewOnes
    <3> QED
      BY <3>1, <3>2
  <2>6. Brings'
    BY <1>4, <1>7, <2>1 DEF HonestInv, Brings, Asked
  <2>7. JarSafe'
    <3> SUFFICES ASSUME jar # NoToken
                 PROVE  /\ token'[jar].state = "grace" => token'[jar].lost \/ Renewing(jar)'
                        /\ token'[jar].state = "old" => token'[jar].lost
      BY <1>1 DEF JarSafe
    <3>1. CASE jar = x
      BY <1>1, <1>4, <2>1, <2>2, <3>1 DEF Renewing, Asked
    <3>2. CASE jar # x
      <4>1. token'[jar] = token[jar]
        BY <2>2, <2>4, <3>2 DEF CLTypeOK
      <4>2. Renewing(jar) => Renewing(jar)'
        BY <1>1, <1>4 DEF Renewing, Asked
      <4> QED
        BY <4>1, <4>2 DEF HonestInv, JarSafe
    <3> QED
      BY <3>1, <3>2
  <2>8. SentSafe'
    <3> SUFFICES ASSUME NEW s \in Tabs, Asked(s)', refreshing'[s].step = "sent",
                        refreshing'[s].presented # NoToken,
                        token'[refreshing'[s].presented].state = "old"
                 PROVE  token'[refreshing'[s].presented].lost
      BY DEF SentSafe
    <3>1. s # t /\ refreshing'[s] = refreshing[s] /\ refreshing[s].presented \in Tokens
      BY <1>4, <1>5, <2>1, Carried
    <3> QED
      BY <1>5, <2>2, <2>3, <3>1 DEF HonestInv, SentSafe
  <2> QED
    BY <2>5, <2>6, <2>7, <2>8 DEF HonestInv
<1> QED
  BY <1>6, <1>7

\* The end of a grace period is noted at the requests it overtakes.
LEMMA HonestFades ==
  ASSUME CLTypeOK, HonestInv, NEW x \in Tokens, GraceEnds(x)
  PROVE  HonestInv'
<1>1. /\ UNCHANGED <<jar, refreshing>>
      /\ token[x].state = "grace"
      /\ token' = AfterGrace(x)
  BY DEF GraceEnds
<1>2. /\ \A y \in Tokens \ {x} : token'[y] = token[y]
      /\ token'[x].state = "old"
      /\ token'[x].lost = (token[x].lost \/ UnderWay(x))
  BY <1>1 DEF AfterGrace, CLTypeOK, Token
<1>3. NewOnes'
  <2> SUFFICES ASSUME NEW t \in Tabs, Asked(t), refreshing[t].got # NoToken
               PROVE  token'[refreshing[t].got].state \in {"live", "gone"}
    BY <1>1 DEF HonestInv, NewOnes, Asked
  <2>1. refreshing[t].got \in Tokens \ {x}
    BY <1>1, Carried DEF HonestInv, NewOnes
  <2> QED
    BY <1>2, <2>1 DEF HonestInv, NewOnes
<1>4. Brings'
  BY <1>1 DEF HonestInv, Brings, Asked
<1>5. JarSafe'
  <2>1. jar \in Tokens \cup {NoToken}
    BY DEF CLTypeOK
  <2>2. CASE jar = x
    <3>1. token[x].lost \/ UnderWay(x) \/ x = NoToken
      BY <1>1, <2>2 DEF HonestInv, JarSafe, Renewing, UnderWay, Asked
    <3> QED
      BY <1>1, <1>2, <2>2, <3>1 DEF JarSafe
  <2>3. CASE jar # x
    BY <1>1, <1>2, <2>1, <2>3 DEF HonestInv, JarSafe, Renewing, Asked
  <2> QED
    BY <2>2, <2>3
<1>6. SentSafe'
  <2> SUFFICES ASSUME NEW t \in Tabs, Asked(t), refreshing[t].step = "sent",
                      refreshing[t].presented # NoToken,
                      token'[refreshing[t].presented].state = "old"
               PROVE  token'[refreshing[t].presented].lost
    BY <1>1 DEF SentSafe, Asked
  <2>1. CASE refreshing[t].presented = x
    BY <1>2, <2>1 DEF UnderWay, Asked
  <2>2. CASE refreshing[t].presented # x
    BY <1>2, <2>2, Carried DEF HonestInv, SentSafe
  <2> QED
    BY <2>1, <2>2
<1> QED
  BY <1>3, <1>4, <1>5, <1>6 DEF HonestInv

LEMMA HonestLogin ==
  ASSUME CLTypeOK, HonestInv, NEW t \in Tabs, Login(t)
  PROVE  HonestInv'
<1>1. PICK n \in Unused : jar' = n /\ Keep([token EXCEPT ![n] = NewToken(logins + 1)])
  BY DEF Login
<1>2. refreshing' = refreshing
  BY DEF Login
<1>3. n \in Tokens /\ n # NoToken /\ n \in Held'
      /\ \A s \in Tabs : Asked(s) => refreshing[s].presented # n /\ refreshing[s].got # n
  BY <1>1, HeldNow, HeldNext, ClientAssumption DEF Unused
<1>4. NewToken(logins + 1) \in Token /\ NewToken(logins + 1).state = "live"
  BY ClientAssumption DEF Login, CLTypeOK, NewToken, Token
<1>5. token'[n].state = "live" /\ \A x \in (Held' \cap Tokens) \ {n} : token'[x] = token[x]
  <2>1. [token EXCEPT ![n] = NewToken(logins + 1)] \in [Tokens -> Token]
    BY <1>4 DEF CLTypeOK
  <2>2. \A x \in Held' \cap Tokens :
          token'[x] = [token EXCEPT ![n] = NewToken(logins + 1)][x]
    BY <1>1, <2>1, Kept
  <2> QED
    BY <1>3, <1>4, <2>2 DEF CLTypeOK
<1>6. ASSUME NEW s \in Tabs, Asked(s)
      PROVE  /\ refreshing[s].presented # NoToken =>
                  token'[refreshing[s].presented] = token[refreshing[s].presented]
             /\ refreshing[s].got # NoToken =>
                  token'[refreshing[s].got] = token[refreshing[s].got]
  <2>1. Asked(s)'
    BY <1>2, <1>6 DEF Asked
  <2>2. refreshing[s].presented \in Held' /\ refreshing[s].got \in Held'
    BY <1>2, <2>1, HeldNext
  <2> QED
    BY <1>3, <1>5, <1>6, <2>2, Carried
<1>7. NewOnes'
  BY <1>1, <1>2, <1>3, <1>6 DEF HonestInv, NewOnes, Asked
<1>8. Brings' /\ JarSafe' /\ SentSafe'
  BY <1>1, <1>2, <1>5, <1>6 DEF HonestInv, Brings, JarSafe, SentSafe, Asked
<1> QED
  BY <1>7, <1>8 DEF HonestInv

LEMMA HonestLogout ==
  ASSUME CLTypeOK, HonestInv, NEW t \in Tabs,
         LogoutSent(t) \/ LoggedOut(t) \/ LogoutArrives(t) \/ LogoutLost(t)
  PROVE  HonestInv'
<1>1. refreshing' = refreshing /\ jar' \in {jar, NoToken}
  BY DEF LogoutSent, LoggedOut, LogoutArrives, LogoutLost, clearSession
<1>2. \A x \in Held' \cap Tokens :
        /\ token'[x].state \in {token[x].state, "gone"}
        /\ token[x].lost => token'[x].lost
  <2>1. CASE LogoutSent(t)
    BY <2>1 DEF LogoutSent
  <2>2. CASE LoggedOut(t)
    BY <2>2 DEF LoggedOut, CLTypeOK, Token
  <2>3. CASE LogoutArrives(t) \/ LogoutLost(t)
    BY <2>3, Kept DEF LogoutArrives, LogoutLost, CLTypeOK
  <2> QED
    BY <2>1, <2>2, <2>3
<1> QED
  BY <1>1, <1>2, HonestLess DEF Asked

\* The tabs of an honest user never look like a thief to SessionService.refresh: a
\* token is presented after its grace period only if the answer to an earlier
\* renewal with it was lost, or one was under way until the period ended.
THEOREM HonestTabs == CLSpec => []HonestTabsKeepSession
<1>1. CLInit => HonestInv
  BY DEF CLInit, HonestInv, NewOnes, Brings, JarSafe, SentSafe, Asked
<1>2. CLTypeOK /\ HonestInv /\ [CLNext]_clVars => HonestInv'
  <2> SUFFICES ASSUME CLTypeOK, HonestInv, [CLNext]_clVars PROVE HonestInv'
    OBVIOUS
  <2>1. CASE UNCHANGED clVars
    BY <2>1, HonestAsks DEF clVars
  <2>2. CASE CLNext
    <3>1. "status" \in Slots /\ Calls \subseteq Slots
      BY DEF Slots
    <3> QED
      BY <2>2, <3>1, HonestCalls, HonestArrives, HonestLost, HonestServed, HonestFades,
         HonestLogin, HonestLogout DEF CLNext
  <2> QED
    BY <2>1, <2>2
<1>3. HonestInv => HonestTabsKeepSession
  BY DEF HonestInv, SentSafe, HonestTabsKeepSession, Asked
<1> QED
  BY <1>1, <1>2, <1>3, ClientTypeCorrect, PTL DEF CLSpec

-----------------------------------------------------------------------------
(* Logged out *)

\* The cookies may be left with x: it does not belong to a session that a tab was
\* told it has logged out of, unless a renewal was under way then.
MayStay(x) == x # NoToken => token[x].session \notin ended \ raced

\* Sessions are numbered as they begin.
SessionsBegun ==
  /\ \A x \in Tokens : token[x].session <= logins
  /\ ended \subseteq 1..logins

StayInv ==
  /\ SessionsBegun
  /\ MayStay(jar)
  /\ \A t \in Tabs :
       Asked(t) => MayStay(refreshing[t].presented) /\ MayStay(refreshing[t].got)

\* A step that begins and ends no session, after which the browser holds what it
\* held before.
LEMMA StayLess ==
  ASSUME CLTypeOK, StayInv, UNCHANGED history,
         \A x \in Tokens : token'[x].session \in {0, token[x].session},
         \/ jar' \in {jar, NoToken}
         \/ \E s \in Tabs : Asked(s) /\ jar' = refreshing[s].got,
         \A s \in Tabs :
           \/ refreshing'[s] \in {refreshing[s], NoRequest}
           \/ refreshing'[s] = [presented |-> jar, got |-> NoToken, step |-> "sent"]
  PROVE  StayInv'
<1>1. logins' = logins /\ ended' = ended /\ raced' = raced /\ logins \in Nat /\ 0 \notin ended
  BY ClientAssumption DEF history, StayInv, SessionsBegun, CLTypeOK
<1>2. \A x \in Tokens : token[x].session \in Nat /\ token'[x].session \in Nat
  BY ClientAssumption DEF CLTypeOK, Token
<1>3. SessionsBegun'
  BY <1>1, <1>2 DEF StayInv, SessionsBegun
<1>4. \A x \in Tokens \cup {NoToken} : MayStay(x) => (x # NoToken => token'[x].session \notin ended' \ raced')
  BY <1>1 DEF MayStay
<1>5. jar \in Tokens \cup {NoToken}
  BY DEF CLTypeOK
<1>6. MayStay(jar)'
  BY <1>4, <1>5, Carried DEF StayInv, MayStay
<1>7. ASSUME NEW s \in Tabs, Asked(s)'
      PROVE  MayStay(refreshing[s].presented)' /\ MayStay(refreshing[s].got)'
  <2>1. CASE refreshing'[s] = refreshing[s]
    <3>1. Asked(s)
      BY <1>7, <2>1 DEF Asked
    <3> QED
      BY <1>4, <2>1, <3>1, Carried DEF StayInv, MayStay
  <2>2. CASE refreshing'[s] = [presented |-> jar, got |-> NoToken, step |-> "sent"]
    BY <1>4, <1>5, <2>2 DEF StayInv, MayStay
  <2> QED
    BY <1>7, <2>1, <2>2 DEF Asked
<1> QED
  BY <1>3, <1>6, <1>7 DEF StayInv

LEMMA StayCalls ==
  ASSUME CLTypeOK, StayInv, NEW t \in Tabs, NEW c \in Slots,
         (c \in Calls /\ CallRefused(t, c)) \/ LoadPage(t) \/ RepeatAnswered(t, c)
  PROVE  StayInv'
<1>1. "status" \in Slots
  BY DEF Slots
<1>2. UNCHANGED <<jar, token, history>>
  BY DEF CallRefused, LoadPage, RepeatAnswered
<1>3. \A s \in Tabs :
        \/ refreshing'[s] = refreshing[s]
        \/ refreshing'[s] = [presented |-> jar, got |-> NoToken, step |-> "sent"]
  BY <1>1, SessionAsked DEF CallRefused, LoadPage, RepeatAnswered, RepeatRefused
<1> QED
  BY <1>2, <1>3, StayLess

LEMMA StayRenewals ==
  ASSUME CLTypeOK, StayInv, NEW t \in Tabs, RefreshArrives(t) \/ RefreshLost(t)
  PROVE  StayInv'
<1>1. /\ Asked(t)
      /\ \A s \in Tabs : refreshing'[s] \in {refreshing[s], NoRequest}
  BY Settled DEF RefreshArrives, RefreshLost, Asked
<1>2. CASE RefreshArrives(t)
  <2>1. jar' \in {jar, NoToken, refreshing[t].got}
    BY <1>1, <1>2, Carried DEF RefreshArrives, RenewedJar
  <2>2. \A x \in Tokens : token'[x].session \in {0, token[x].session}
    BY <1>2, Kept DEF RefreshArrives, CLTypeOK
  <2>3. UNCHANGED history
    BY <1>2 DEF RefreshArrives
  <2> QED
    BY <1>1, <2>1, <2>2, <2>3, StayLess
<1>3. CASE RefreshLost(t)
  <2> DEFINE q == refreshing[t]
             f == IF q.step = "renewed" THEN [token EXCEPT ![q.presented].lost = TRUE]
                  ELSE token
  <2>1. f \in [Tokens -> Token] /\ Keep(f)
    BY <1>3, Tokened DEF RefreshLost, CLTypeOK
  <2>2. \A x \in Tokens : f[x].session = token[x].session
    BY DEF CLTypeOK, Token
  <2> HIDE DEF f
  <2>3. \A x \in Tokens : token'[x].session \in {0, token[x].session}
    BY <2>1, <2>2, Kept
  <2>4. jar' = jar /\ UNCHANGED history
    BY <1>3 DEF RefreshLost
  <2> QED
    BY <1>1, <2>3, <2>4, StayLess
<1> QED
  BY <1>2, <1>3

LEMMA StayFades ==
  ASSUME CLTypeOK, StayInv, NEW x \in Tokens, GraceEnds(x)
  PROVE  StayInv'
<1>1. \A y \in Tokens : token'[y].session = token[y].session
  BY DEF GraceEnds, AfterGrace, CLTypeOK, Token
<1> QED
  BY <1>1, StayLess DEF GraceEnds

\* A new token belongs to the session of the one that was presented.
LEMMA StayServed ==
  ASSUME CLTypeOK, StayInv, NEW t \in Tabs, Refreshed(t)
  PROVE  StayInv'
<1> DEFINE x == refreshing[t].presented
<1>1. Asked(t) /\ x \in Tokens \cup {NoToken} /\ jar' = jar /\ UNCHANGED history
  BY Carried DEF Refreshed, Asked
<1>2. PICK step \in {"renewed", "invalid", "missing"}, n \in Unused \cup {NoToken} :
        /\ refreshing' = WithAnswer(t, step, n)
        /\ \/ step # "renewed" /\ n = NoToken /\ token' = token
           \/ /\ step = "invalid" /\ n = NoToken
              /\ token' = [y \in Tokens |-> [token[y] EXCEPT !.state = "gone"]]
           \/ /\ step = "renewed" /\ n # NoToken /\ n \in Unused /\ x # NoToken
              /\ token[x].state \in {"live", "grace"}
              /\ token' = [token EXCEPT ![x].state = "grace",
                                        ![n] = NewToken(token[x].session)]
  BY Answers
<1>3. n \in Tokens \cup {NoToken}
  BY DEF Unused
<1>4. /\ refreshing'[t] = [presented |-> x, got |-> n, step |-> step]
      /\ \A s \in Tabs \ {t} : refreshing'[s] = refreshing[s]
  BY <1>2, <1>3, RenewalAnswered
<1>5. /\ \A y \in Tokens :
           \/ token'[y].session = token[y].session
           \/ x # NoToken /\ token'[y].session = token[x].session
      /\ n # NoToken => x # NoToken /\ token'[n].session = token[x].session
  <2>1. CASE n = NoToken
    BY <1>2, <2>1 DEF CLTypeOK, Token
  <2>2. CASE n # NoToken
    <3>1. /\ x # NoToken /\ x \in Tokens /\ n \in Tokens
          /\ token' = [token EXCEPT ![x].state = "grace",
                                    ![n] = NewToken(token[x].session)]
      BY <1>1, <1>2, <1>3, <2>2
    <3>2. [token[x] EXCEPT !.state = "grace"].session = token[x].session
      BY <3>1 DEF CLTypeOK, Token
    <3>3. NewToken(token[x].session).session = token[x].session
      BY DEF NewToken
    <3>4. \A y \in Tokens : token'[y] \in {token[y], [token[x] EXCEPT !.state = "grace"],
                                           NewToken(token[x].session)}
      BY <3>1 DEF CLTypeOK
    <3>5. token'[n] = NewToken(token[x].session)
      BY <3>1 DEF CLTypeOK
    <3> QED
      BY <2>2, <3>1, <3>2, <3>3, <3>4, <3>5
  <2> QED
    BY <2>1, <2>2
<1>6. logins' = logins /\ ended' = ended /\ raced' = raced
  BY <1>1 DEF history
<1>7. SessionsBegun'
  BY <1>1, <1>5, <1>6 DEF StayInv, SessionsBegun
<1>8. /\ MayStay(x) /\ (n # NoToken => token'[n].session \notin ended' \ raced')
      /\ \A y \in Tokens : MayStay(y) => token'[y].session \notin ended' \ raced' \/ y = NoToken
  BY <1>1, <1>5, <1>6 DEF StayInv, MayStay
<1>9. MayStay(jar)'
  BY <1>1, <1>8 DEF StayInv, MayStay, CLTypeOK
<1>10. ASSUME NEW s \in Tabs, Asked(s)'
       PROVE  MayStay(refreshing[s].presented)' /\ MayStay(refreshing[s].got)'
  <2>1. CASE s = t
    BY <1>1, <1>4, <1>8, <2>1 DEF MayStay
  <2>2. CASE s # t
    <3>1. Asked(s) /\ refreshing'[s] = refreshing[s]
      BY <1>4, <1>10, <2>2 DEF Asked
    <3> QED
      BY <1>8, <3>1, Carried DEF StayInv, MayStay
  <2> QED
    BY <2>1, <2>2
<1> QED
  BY <1>7, <1>9, <1>10 DEF StayInv

LEMMA NewTokens ==
  ASSUME NEW s \in Nat, s <= MaxLogins
  PROVE  NewToken(s) \in Token
BY ClientAssumption DEF NewToken, Token

\* A login begins a session that nobody has ended.
LEMMA StayLogin ==
  ASSUME CLTypeOK, StayInv, NEW t \in Tabs, Login(t)
  PROVE  StayInv'
<1>1. PICK n \in Unused : jar' = n /\ Keep([token EXCEPT ![n] = NewToken(logins + 1)])
  BY DEF Login
<1>2. /\ refreshing' = refreshing /\ ended' = ended /\ raced' = raced
      /\ logins' = logins + 1 /\ logins \in Nat /\ logins + 1 <= MaxLogins
  BY ClientAssumption DEF Login, CLTypeOK
<1>3. n \in Tokens
  BY DEF Unused
<1>4. \A x \in Tokens : token'[x].session \in {0, token[x].session, logins + 1}
  <2>1. [token EXCEPT ![n] = NewToken(logins + 1)] \in [Tokens -> Token]
    BY <1>2, <1>3, NewTokens DEF CLTypeOK
  <2>2. \A x \in Tokens : [token EXCEPT ![n] = NewToken(logins + 1)][x].session
                            \in {token[x].session, logins + 1}
    BY DEF CLTypeOK, NewToken
  <2> QED
    BY <1>1, <2>1, <2>2, Kept
<1>5. 0 \notin ended /\ logins + 1 \notin ended
  BY <1>2 DEF StayInv, SessionsBegun
<1>6. SessionsBegun'
  <2>1. \A x \in Tokens : token[x].session \in Nat /\ token[x].session <= logins
    BY ClientAssumption DEF StayInv, SessionsBegun, CLTypeOK, Token
  <2> QED
    BY <1>2, <1>4, <2>1 DEF StayInv, SessionsBegun
<1>7. \A x \in Tokens : MayStay(x) => token'[x].session \notin ended' \ raced' \/ x = NoToken
  BY <1>2, <1>4, <1>5 DEF MayStay
<1>8. MayStay(jar)'
  <2>1. token'[n].session \in {0, logins + 1}
    <3>1. [token EXCEPT ![n] = NewToken(logins + 1)] \in [Tokens -> Token]
      BY <1>2, <1>3, NewTokens DEF CLTypeOK
    <3>2. [token EXCEPT ![n] = NewToken(logins + 1)][n].session = logins + 1
      BY <1>3 DEF CLTypeOK, NewToken
    <3> QED
      BY <1>1, <1>3, <3>1, <3>2, Kept
  <2> QED
    BY <1>1, <1>2, <1>5, <2>1 DEF MayStay
<1>9. ASSUME NEW s \in Tabs, Asked(s)'
      PROVE  MayStay(refreshing[s].presented)' /\ MayStay(refreshing[s].got)'
  <2>1. Asked(s)
    BY <1>2, <1>9 DEF Asked
  <2> QED
    BY <1>2, <1>7, <2>1, Carried DEF StayInv, MayStay
<1> QED
  BY <1>6, <1>8, <1>9 DEF StayInv

\* Either a renewal is under way when the logout is answered, and the session
\* counts among those, or nobody holds a token of it any more.
LEMMA StayLogout ==
  ASSUME CLTypeOK, StayInv, NEW t \in Tabs,
         LogoutSent(t) \/ LoggedOut(t) \/ LogoutArrives(t) \/ LogoutLost(t)
  PROVE  StayInv'
<1>1. CASE LogoutSent(t) \/ LoggedOut(t) \/ LogoutLost(t)
  <2>1. jar' = jar /\ refreshing' = refreshing /\ UNCHANGED history
    BY <1>1 DEF LogoutSent, LoggedOut, LogoutLost
  <2>2. \A x \in Tokens : token'[x].session \in {0, token[x].session}
    <3>1. CASE LogoutSent(t)
      BY <3>1 DEF LogoutSent
    <3>2. CASE LoggedOut(t)
      BY <3>2 DEF LoggedOut, CLTypeOK, Token
    <3>3. CASE LogoutLost(t)
      BY <3>3, Kept DEF LogoutLost, CLTypeOK
    <3> QED
      BY <1>1, <3>1, <3>2, <3>3
  <2> QED
    BY <2>1, <2>2, StayLess
<1>2. CASE LogoutArrives(t)
  <2>1. jar' = NoToken /\ refreshing' = refreshing /\ logins' = logins
    BY <1>2 DEF LogoutArrives, clearSession
  <2>2. \A x \in Tokens : token'[x].session \in {0, token[x].session}
    BY <1>2, Kept DEF LogoutArrives, CLTypeOK
  <2>3. ended' = ended \cup Ending(t) /\ Ending(t) \subseteq 1..logins
    <3>1. \A x \in Tokens : token[x].session \in Nat /\ token[x].session <= logins
      BY ClientAssumption DEF StayInv, SessionsBegun, CLTypeOK, Token
    <3> QED
      BY <1>2, <3>1, ClientAssumption DEF LogoutArrives, Ending, Sessions, CLTypeOK
  <2>4. SessionsBegun'
    <3>1. \A x \in Tokens : token[x].session \in Nat /\ token[x].session <= logins
      BY ClientAssumption DEF StayInv, SessionsBegun, CLTypeOK, Token
    <3>2. logins \in Nat
      BY ClientAssumption DEF CLTypeOK
    <3>3. \A x \in Tokens : token'[x].session <= logins'
      BY <2>1, <2>2, <3>1, <3>2
    <3>4. ended' \subseteq 1..logins'
      BY <2>1, <2>3 DEF StayInv, SessionsBegun
    <3> QED
      BY <3>3, <3>4 DEF SessionsBegun
  <2>5. ASSUME NEW s \in Tabs, Asked(s)'
        PROVE  MayStay(refreshing[s].presented)' /\ MayStay(refreshing[s].got)'
    <3>1. Asked(s)
      BY <2>1, <2>5 DEF Asked
    <3>2. raced' = raced \cup Ending(t)
      BY <1>2, <3>1 DEF LogoutArrives, Asked
    <3>3. 0 \notin ended' /\ ended' \ raced' \subseteq ended \ raced
      BY <2>3, <3>2 DEF StayInv, SessionsBegun
    <3> QED
      BY <2>1, <2>2, <3>1, <3>3, Carried DEF StayInv, MayStay
  <2> QED
    BY <2>1, <2>4, <2>5 DEF StayInv, MayStay
<1> QED
  BY <1>1, <1>2

\* Once a tab was told that it has logged out, the cookies of the browser do not
\* renew that session any more, unless a renewal was under way at that moment.
THEOREM LogoutIsKept == CLSpec => []LoggedOutStaysOut
<1>1. CLInit => StayInv
  BY ClientAssumption DEF CLInit, StayInv, SessionsBegun, MayStay, Asked, Spare
<1>2. CLTypeOK /\ StayInv /\ [CLNext]_clVars => StayInv'
  <2> SUFFICES ASSUME CLTypeOK, StayInv, [CLNext]_clVars PROVE StayInv'
    OBVIOUS
  <2>1. CASE UNCHANGED clVars
    BY <2>1, StayLess DEF clVars, history
  <2>2. CASE CLNext
    <3>1. "status" \in Slots /\ Calls \subseteq Slots
      BY DEF Slots
    <3> QED
      BY <2>2, <3>1, StayCalls, StayRenewals, StayFades, StayServed, StayLogin,
         StayLogout DEF CLNext
  <2> QED
    BY <2>1, <2>2
<1>3. StayInv => LoggedOutStaysOut
  BY DEF StayInv, MayStay, LoggedOutStaysOut
<1> QED
  BY <1>1, <1>2, <1>3, ClientTypeCorrect, PTL DEF CLSpec

-----------------------------------------------------------------------------
(***************************************************************************)
(* The subscription                                                        *)
(***************************************************************************)

\* The values of the constants do not overlap.
Apart == Null \notin Users \cup Checkouts

-----------------------------------------------------------------------------
(* Types *)

\* Nobody waits on the page of a checkout unless somebody is signed in.
COTyped ==
  /\ COTypeOK
  /\ user = Null => page = "other"

\* What the effect sends is a request for whoever is signed in.
LEMMA Sends ==
  ASSUME NEW u \in Users, NEW marked \in Session, NEW kept \in Session, NEW n \in Nat
  PROVE  /\ SessionId(marked, kept) \in Session
         /\ NewAttempt(u, marked, kept, n) \in Attempt
         /\ NewAttempt(u, marked, kept, n).user = u
         /\ NewAttempt(u, marked, kept, n).session = SessionId(marked, kept)
         /\ NewAttempt(u, marked, kept, n).step = "request"
         /\ ~NewAttempt(u, marked, kept, n).cancelled
BY DEF SessionId, NewAttempt, Attempt

\* After the cleanup nothing is left that counts.
LEMMA Cleans ==
  ASSUME loads \subseteq Attempt
  PROVE  /\ Cleanup \subseteq Attempt
         /\ \A l \in Cleanup : l.cancelled /\ l.step # "timer"
<1>1. ASSUME NEW l \in loads, l.step # "timer"
      PROVE  Cancelled(l) \in Attempt /\ Cancelled(l).cancelled /\ Cancelled(l).step # "timer"
  BY <1>1 DEF Cancelled, Attempt
<1> QED
  BY <1>1 DEF Cleanup

\* A request that moves on stays the one it was.
LEMMA Moves ==
  ASSUME NEW l \in Attempt, NEW st \in {"request", "timer", "plan", "no plan", "error"}
  PROVE  /\ [l EXCEPT !.step = st] \in Attempt
         /\ [l EXCEPT !.step = st].user = l.user
         /\ [l EXCEPT !.step = st].session = l.session
         /\ [l EXCEPT !.step = st].cancelled <=> l.cancelled
         /\ [l EXCEPT !.step = st].step = st
BY DEF Attempt

\* What COTypeOK says of the requests and timers.
LoadsOK ==
  /\ loads \subseteq Attempt
  /\ \A l, m \in loads : ~l.cancelled /\ ~m.cancelled => l = m /\ l.user = user
  /\ \A l \in loads : l.step = "timer" => ~l.cancelled

\* One of them moves on.
LEMMA Replaced ==
  ASSUME LoadsOK, NEW l \in loads, NEW m \in Attempt,
         m.user = l.user, m.cancelled <=> l.cancelled, m.step = "timer" => ~m.cancelled,
         loads' = (loads \ {l}) \cup {m}, user' = user
  PROVE  LoadsOK'
<1>1. \A k \in loads' : k \in Attempt /\ (k.step = "timer" => ~k.cancelled)
  BY DEF LoadsOK
<1>2. ASSUME NEW k \in loads', ~k.cancelled
      PROVE  k.user = user' /\ (~m.cancelled => k = m)
  BY <1>2 DEF LoadsOK
<1>3. ASSUME NEW j \in loads', NEW k \in loads', ~j.cancelled, ~k.cancelled
      PROVE  j = k
  BY <1>2, <1>3 DEF LoadsOK
<1> QED
  BY <1>1, <1>2, <1>3 DEF LoadsOK

LEMMA COTypedInit ==
  ASSUME Apart, COInit
  PROVE  COTyped
BY DEF COInit, COTyped, COTypeOK, Session, Nothing, View

\* A timer belongs to whoever is signed in.
LEMMA Fires ==
  ASSUME COTyped, NEW l \in loads, TimerFires(l)
  PROVE  ~l.cancelled /\ l.user = user /\ user \in Users /\ l.poll + 1 \in Nat
<1>1. ~l.cancelled /\ l.user = user
  BY DEF TimerFires, COTyped, COTypeOK
<1>2. l \in Attempt
  BY DEF COTyped, COTypeOK
<1>3. l.user \in Users /\ l.poll \in Nat
  BY <1>2 DEF Attempt
<1> QED
  BY <1>1, <1>3

\* The requests of the effect.
LEMMA COTypedLoads ==
  ASSUME Apart, COTyped, NEW l \in loads,
         Arrive(l) \/ TimerFires(l) \/ getSubscription(l) \/ RequestFails(l)
  PROVE  COTyped'
<1>1. l \in Attempt /\ user \in Users \cup {Null} /\ Users \subseteq Users \cup {Null}
  BY DEF COTyped, COTypeOK
<1>2. CASE Arrive(l)
  <2>1. CASE loads' = loads \ {l} /\ UNCHANGED <<page, url, pending, last, view>>
    BY <1>2, <2>1 DEF Arrive, COTyped, COTypeOK, atServer
  <2>2. CASE /\ ~l.cancelled
             /\ loads' = (loads \ {l}) \cup {[l EXCEPT !.step = "timer"]}
             /\ UNCHANGED <<page, url, pending, last, view>>
    <3>1. LoadsOK
      BY DEF COTyped, COTypeOK, LoadsOK
    <3>2. LoadsOK'
      BY <1>1, <1>2, <2>2, <3>1, Moves, Replaced DEF Arrive
    <3> QED
      BY <1>2, <2>2, <3>2 DEF Arrive, COTyped, COTypeOK, LoadsOK, atServer
  <2>3. CASE /\ loads' = loads \ {l} /\ pending' = Null
             /\ last' = IF l.step = "plan" THEN Null ELSE last
             /\ view' = [plan |-> l.step = "plan", loaded |-> TRUE,
                         failed |-> l.step = "error", of |-> l.user]
             /\ IF l.step = "plan" /\ page = "success"
                THEN page' = "other" /\ url' = Null ELSE UNCHANGED <<page, url>>
    <3>1. view' \in View
      BY <1>1, <2>3 DEF View, Attempt
    <3>2. Null \in Session
      BY DEF Session
    <3> QED
      BY <1>2, <2>3, <3>1, <3>2 DEF Arrive, COTyped, COTypeOK, atServer
  <2> QED
    BY <1>2, <2>1, <2>2, <2>3 DEF Arrive
<1>3. CASE TimerFires(l)
  <2>1. ~l.cancelled /\ l.user = user /\ user \in Users /\ l.poll + 1 \in Nat
    BY <1>3, Fires
  <2>2. /\ loads' = (loads \ {l}) \cup {NewAttempt(user, pending, last, l.poll + 1)}
        /\ last' = SessionId(pending, last)
    BY <1>3, <2>1 DEF TimerFires, NextAttempt
  <2>3. LoadsOK' /\ last' \in Session
    <3>1. LoadsOK /\ pending \in Session /\ last \in Session
      BY DEF COTyped, COTypeOK, LoadsOK
    <3> QED
      BY <1>3, <2>1, <2>2, <3>1, Sends, Replaced DEF TimerFires
  <2> QED
    BY <1>3, <2>3 DEF TimerFires, COTyped, COTypeOK, LoadsOK, atServer
<1>4. CASE getSubscription(l)
  <2>1. Answer(l) \in {"plan", "no plan", "error"}
    BY DEF Answer
  <2>2. plan' \in [Users -> BOOLEAN]
    BY <1>4 DEF getSubscription, COTyped, COTypeOK
  <2>3. LoadsOK
    BY DEF COTyped, COTypeOK, LoadsOK
  <2>4. LoadsOK'
    BY <1>1, <1>4, <2>1, <2>3, Moves, Replaced DEF getSubscription
  <2> QED
    BY <1>4, <2>2, <2>4 DEF getSubscription, COTyped, COTypeOK, LoadsOK
<1>5. CASE RequestFails(l)
  <2>1. LoadsOK
    BY DEF COTyped, COTypeOK, LoadsOK
  <2>2. LoadsOK'
    BY <1>1, <1>5, <2>1, Moves, Replaced DEF RequestFails
  <2> QED
    BY <1>5, <2>2 DEF RequestFails, COTyped, COTypeOK, LoadsOK, atServer
<1> QED
  BY <1>2, <1>3, <1>4, <1>5

\* What the user does.
LEMMA COTypedUser ==
  ASSUME Apart, COTyped,
         \/ \E u \in Users : SignIn(u)
         \/ \E s \in Checkouts : CreateSession(s)
         \/ \E s \in Session : PageLoads(s)
         \/ SignOut \/ OpenSubscribe \/ checkAgain \/ PendingExpires
  PROVE  COTyped'
<1>1. Null \in Session /\ Checkouts \subseteq Session /\ 1 \in Nat
  BY DEF Session
<1>2. ASSUME NEW u \in Users, SignIn(u) PROVE COTyped'
  <2>1. \A l \in loads : l.cancelled
    BY <1>2 DEF SignIn, COTyped, COTypeOK, Attempt, Apart
  <2> QED
    BY <1>1, <1>2, <2>1, Sends DEF SignIn, EffectRuns, COTyped, COTypeOK, atServer, Apart
<1>3. ASSUME NEW s \in Checkouts, CreateSession(s) PROVE COTyped'
  BY <1>1, <1>3 DEF CreateSession, COTyped, COTypeOK
<1>4. ASSUME NEW s \in Session, PageLoads(s) PROVE COTyped'
  <2>1. user \in Users /\ Nothing \in View
    BY <1>4 DEF PageLoads, COTyped, COTypeOK, Nothing, View
  <2>2. PICK marked \in Session :
          /\ loads' = {NewAttempt(user, marked, Null, 1)}
          /\ last' = SessionId(marked, Null)
          /\ pending' \in Session
    BY <1>4 DEF PageLoads, EffectRuns, Marked, COTyped, COTypeOK
  <2>3. page' \in {"other", "success"} /\ url' \in Session
    BY <1>1, <1>4 DEF PageLoads
  <2> QED
    BY <1>1, <1>4, <2>1, <2>2, <2>3, Sends DEF PageLoads, COTyped, COTypeOK, atServer
<1>5. CASE SignOut
  BY <1>1, <1>5, Cleans DEF SignOut, COTyped, COTypeOK, atServer
<1>6. CASE OpenSubscribe \/ PendingExpires
  BY <1>1, <1>6 DEF OpenSubscribe, PendingExpires, COTyped, COTypeOK, atServer
<1>7. CASE checkAgain
  <2>1. user \in Users /\ view' \in View
    BY <1>7 DEF checkAgain, COTyped, COTypeOK, View
  <2> QED
    BY <1>1, <1>7, <2>1, Cleans, Sends DEF checkAgain, EffectRuns, COTyped, COTypeOK, atServer
<1> QED
  BY <1>2, <1>3, <1>4, <1>5, <1>6, <1>7

LEMMA COTypedServer ==
  ASSUME COTyped, NEW s \in Checkouts, Pay(s) \/ Webhook(s)
  PROVE  COTyped'
BY DEF Pay, Webhook, COTyped, COTypeOK

LEMMA COTypedNext ==
  ASSUME Apart, COTyped, [CONext]_coVars
  PROVE  COTyped'
<1>1. CASE UNCHANGED coVars
  BY <1>1 DEF coVars, COTyped, COTypeOK
<1>2. CASE CONext
  BY <1>2, COTypedLoads, COTypedUser, COTypedServer DEF CONext
<1> QED
  BY <1>1, <1>2

\* The variables have their types, one request or timer belongs to whoever is
\* signed in, and a timer never outlives its effect (SubscriptionProvider).
THEOREM CheckoutTypeCorrect ==
  ASSUME Apart
  PROVE  COSpec => []COTypeOK
<1>1. COInit => COTyped
  BY COTypedInit
<1>2. COTyped /\ [CONext]_coVars => COTyped'
  BY COTypedNext
<1>3. COTyped => COTypeOK
  BY DEF COTyped
<1> QED
  BY <1>1, <1>2, <1>3, PTL DEF COSpec

-----------------------------------------------------------------------------
(* Whose plan is shown *)

\* The provider has something to say about whoever is signed in, or is asking.
Asking ==
  user # Null => (\E l \in loads : Current(l)) \/ (view.loaded /\ view.of = user)

\* A request of the present user takes the place of another, or joins the others.
LEMMA Asks ==
  ASSUME NEW l \in loads', ~l.cancelled, l.user = user'
  PROVE  Asking'
BY DEF Asking, Current

\* The request that counts moves on and still counts; or another one does.
LEMMA KeepsAsking ==
  ASSUME Asking, UNCHANGED <<user, view>>,
         \A l \in loads : ~l.cancelled =>
           \E m \in loads' : ~m.cancelled /\ m.user = l.user
  PROVE  Asking'
<1>1. CASE \E l \in loads : Current(l)
  BY <1>1 DEF Asking, Current
<1>2. CASE view.loaded /\ view.of = user
  BY <1>2 DEF Asking
<1>3. CASE user = Null
  BY <1>3 DEF Asking
<1> QED
  BY <1>1, <1>2, <1>3 DEF Asking

\* One of them moves on.
LEMMA MovesOn ==
  ASSUME Asking, UNCHANGED <<user, view>>, NEW l \in loads, l \in Attempt,
         NEW st \in {"request", "timer", "plan", "no plan", "error"},
         loads' = (loads \ {l}) \cup {[l EXCEPT !.step = st]}
  PROVE  Asking'
<1> DEFINE m == [l EXCEPT !.step = st]
<1>1. m.user = l.user /\ (m.cancelled <=> l.cancelled)
  BY Moves
<1>2. m \in loads' /\ \A k \in loads : k = l \/ k \in loads'
  OBVIOUS
<1> HIDE DEF m
<1>3. ASSUME NEW k \in loads, ~k.cancelled
      PROVE  \E j \in loads' : ~j.cancelled /\ j.user = k.user
  BY <1>1, <1>2, <1>3
<1> QED
  BY <1>3, KeepsAsking

LEMMA AskingLoads ==
  ASSUME Apart, COTyped, Asking, NEW l \in loads,
         Arrive(l) \/ TimerFires(l) \/ getSubscription(l) \/ RequestFails(l)
  PROVE  Asking'
<1>1. l \in Attempt
  BY DEF COTyped, COTypeOK
<1>2. CASE Arrive(l)
  <2>1. CASE l.cancelled
    <3>1. loads' = loads \ {l} /\ UNCHANGED <<user, view>>
      BY <1>2, <2>1 DEF Arrive
    <3> QED
      BY <2>1, <3>1, KeepsAsking
  <2>2. CASE ~l.cancelled /\ ShouldRetry(l) /\ l.poll < MaxAttempts(l)
    <3>1. loads' = (loads \ {l}) \cup {[l EXCEPT !.step = "timer"]} /\ UNCHANGED <<user, view>>
      BY <1>2, <2>2 DEF Arrive
    <3> QED
      BY <1>1, <3>1, MovesOn
  <2>3. CASE ~l.cancelled /\ ~(ShouldRetry(l) /\ l.poll < MaxAttempts(l))
    <3>1. /\ view' = [plan |-> l.step = "plan", loaded |-> TRUE,
                      failed |-> l.step = "error", of |-> l.user]
          /\ user' = user
      BY <1>2, <2>3 DEF Arrive
    <3>2. l.user = user
      BY <2>3 DEF COTyped, COTypeOK
    <3> QED
      BY <3>1, <3>2 DEF Asking
  <2> QED
    BY <2>1, <2>2, <2>3
<1>3. CASE TimerFires(l)
  <2>1. user \in Users /\ ~l.cancelled /\ l.user = user /\ l.poll + 1 \in Nat
    BY <1>3, Fires
  <2>2. /\ UNCHANGED <<user, view>> /\ pending \in Session /\ last \in Session
        /\ loads' = (loads \ {l}) \cup {NewAttempt(user, pending, last, l.poll + 1)}
    BY <1>3, <2>1 DEF TimerFires, NextAttempt, COTyped, COTypeOK
  <2> QED
    BY <2>1, <2>2, Sends, Asks
<1>4. CASE getSubscription(l) \/ RequestFails(l)
  <2>1. PICK st \in {"plan", "no plan", "error"} :
          loads' = (loads \ {l}) \cup {[l EXCEPT !.step = st]}
    BY <1>4 DEF getSubscription, RequestFails, Answer
  <2>2. UNCHANGED <<user, view>>
    BY <1>4 DEF getSubscription, RequestFails
  <2> QED
    BY <1>1, <2>1, <2>2, MovesOn
<1> QED
  BY <1>2, <1>3, <1>4

LEMMA AskingNext ==
  ASSUME Apart, COTyped, Asking, [CONext]_coVars
  PROVE  Asking'
<1>1. CASE UNCHANGED coVars
  BY <1>1, KeepsAsking DEF coVars
<1>2. ASSUME NEW u \in Users, SignIn(u) PROVE Asking'
  BY <1>2, Sends, Asks DEF SignIn, EffectRuns, COTyped, COTypeOK
<1>3. ASSUME NEW s \in Checkouts, CreateSession(s) \/ Pay(s) \/ Webhook(s) PROVE Asking'
  BY <1>3, KeepsAsking DEF CreateSession, Pay, Webhook
<1>4. ASSUME NEW s \in Session, PageLoads(s) PROVE Asking'
  <2>1. user \in Users /\ user' = user /\ Null \in Session
    BY <1>4 DEF PageLoads, COTyped, COTypeOK, Session
  <2>2. PICK marked \in Session : loads' = {NewAttempt(user, marked, Null, 1)}
    BY <1>4 DEF PageLoads, EffectRuns, Marked, COTyped, COTypeOK
  <2> QED
    BY <2>1, <2>2, Sends, Asks
<1>5. CASE SignOut
  BY <1>5 DEF SignOut, Asking
<1>6. CASE OpenSubscribe \/ PendingExpires
  BY <1>6, KeepsAsking DEF OpenSubscribe, PendingExpires
<1>7. CASE checkAgain
  BY <1>7, Sends, Asks DEF checkAgain, EffectRuns, COTyped, COTypeOK
<1> QED
  BY <1>1, <1>2, <1>3, <1>4, <1>5, <1>6, <1>7, AskingLoads DEF CONext

\* A plan, or the lack of one, that belongs to somebody else is on the screen only
\* until the request for the present user ends (SubscriptionProvider).
THEOREM ViewIsOfUser ==
  ASSUME Apart
  PROVE  COSpec => []ViewCatchesUp
<1>1. COInit => COTyped /\ Asking
  BY COTypedInit DEF COInit, Asking
<1>2. COTyped /\ Asking /\ [CONext]_coVars => COTyped' /\ Asking'
  BY COTypedNext, AskingNext
<1>3. Asking => ViewCatchesUp
  BY DEF Asking, ViewCatchesUp
<1> QED
  BY <1>1, <1>2, <1>3, PTL DEF COSpec

-----------------------------------------------------------------------------
(* The session of the success page *)

\* On the success page the ref holds the session of the address, and whatever else
\* might be asked for has been cleared.
Remembered ==
  page = "success" =>
    /\ url \in Checkouts /\ last = url /\ pending \in {Null, url}
    /\ SuccessPageAsksForSession

\* A request that moves on asks for the same session.
LEMMA RememberedMoves ==
  ASSUME Remembered, NEW l \in loads, l \in Attempt,
         NEW st \in {"request", "timer", "plan", "no plan", "error"},
         loads' = (loads \ {l}) \cup {[l EXCEPT !.step = st]},
         UNCHANGED <<user, page, url, pending, last>>
  PROVE  Remembered'
<1> DEFINE m == [l EXCEPT !.step = st]
<1>1. m.user = l.user /\ m.session = l.session /\ (m.cancelled <=> l.cancelled)
  BY Moves
<1>2. \A k \in loads' : k = m \/ k \in loads
  OBVIOUS
<1> HIDE DEF m
<1> QED
  BY <1>1, <1>2 DEF Remembered, SuccessPageAsksForSession, Current

LEMMA RememberedLoads ==
  ASSUME Apart, COTyped, Remembered, NEW l \in loads,
         Arrive(l) \/ TimerFires(l) \/ getSubscription(l) \/ RequestFails(l)
  PROVE  Remembered'
<1>1. l \in Attempt
  BY DEF COTyped, COTypeOK
<1>2. CASE Arrive(l)
  <2>1. CASE loads' = loads \ {l} /\ UNCHANGED <<page, url, pending, last, view>>
    BY <1>2, <2>1 DEF Arrive, Remembered, SuccessPageAsksForSession, Current
  <2>2. CASE /\ loads' = (loads \ {l}) \cup {[l EXCEPT !.step = "timer"]}
             /\ UNCHANGED <<page, url, pending, last, view>>
    BY <1>1, <1>2, <2>2, RememberedMoves DEF Arrive
  <2>3. CASE /\ loads' = loads \ {l} /\ pending' = Null
             /\ last' = IF l.step = "plan" THEN Null ELSE last
             /\ IF l.step = "plan" /\ page = "success"
                THEN page' = "other" /\ url' = Null ELSE UNCHANGED <<page, url>>
    <3>1. page' = "success" => page = "success" /\ l.step # "plan" /\ url' = url
      BY <2>3
    <3> QED
      BY <1>2, <2>3, <3>1 DEF Arrive, Remembered, SuccessPageAsksForSession, Current
  <2> QED
    BY <1>2, <2>1, <2>2, <2>3 DEF Arrive
<1>3. CASE TimerFires(l)
  <2>1. user \in Users /\ ~l.cancelled /\ l.user = user /\ l.poll + 1 \in Nat
    BY <1>3, Fires
  <2>2. /\ UNCHANGED <<user, page, url, pending>> /\ pending \in Session /\ last \in Session
        /\ last' = SessionId(pending, last)
        /\ loads' = (loads \ {l}) \cup {NewAttempt(user, pending, last, l.poll + 1)}
    BY <1>3, <2>1 DEF TimerFires, NextAttempt, COTyped, COTypeOK
  <2>3. page = "success" => SessionId(pending, last) = url
    BY DEF Remembered, SessionId
  <2> QED
    BY <2>1, <2>2, <2>3, Sends DEF Remembered, SuccessPageAsksForSession, Current
<1>4. CASE getSubscription(l) \/ RequestFails(l)
  <2>1. PICK st \in {"plan", "no plan", "error"} :
          loads' = (loads \ {l}) \cup {[l EXCEPT !.step = st]}
    BY <1>4 DEF getSubscription, RequestFails, Answer
  <2>2. UNCHANGED <<user, page, url, pending, last>>
    BY <1>4 DEF getSubscription, RequestFails
  <2> QED
    BY <1>1, <2>1, <2>2, RememberedMoves
<1> QED
  BY <1>2, <1>3, <1>4

LEMMA RememberedNext ==
  ASSUME Apart, COTyped, Remembered, [CONext]_coVars
  PROVE  Remembered'
<1>1. CASE UNCHANGED coVars
  BY <1>1 DEF coVars, Remembered, SuccessPageAsksForSession, Current
<1>2. CASE page' # "success"
  BY <1>2 DEF Remembered
<1>3. ASSUME NEW s \in Checkouts, Pay(s) \/ Webhook(s) PROVE Remembered'
  BY <1>3 DEF Pay, Webhook, Remembered, SuccessPageAsksForSession, Current
<1>4. ASSUME NEW s \in Checkouts, CreateSession(s) PROVE page' # "success"
  BY <1>4 DEF CreateSession
<1>5. ASSUME NEW s \in Session, PageLoads(s), s # Null PROVE Remembered'
  <2>1. /\ user \in Users /\ Null \in Session /\ user' = user
        /\ page' = "success" /\ url' = s /\ pending' = s
        /\ loads' = {NewAttempt(user, s, Null, 1)} /\ last' = SessionId(s, Null)
    BY <1>5 DEF PageLoads, EffectRuns, Marked, COTyped, COTypeOK, Session
  <2>2. SessionId(s, Null) = s /\ s \in Checkouts
    BY <1>5 DEF SessionId, Session
  <2> QED
    BY <2>1, <2>2, Sends DEF Remembered, SuccessPageAsksForSession
<1>6. CASE PendingExpires
  BY <1>6 DEF PendingExpires, Remembered, SuccessPageAsksForSession, Current
<1>7. CASE checkAgain
  <2>1. /\ user \in Users /\ user' = user /\ pending \in Session /\ last \in Session
        /\ page = "success" /\ UNCHANGED <<page, url, pending>>
        /\ loads' = Cleanup \cup {NewAttempt(user, pending, last, 1)}
        /\ last' = SessionId(pending, last)
    BY <1>7 DEF checkAgain, EffectRuns, COTyped, COTypeOK
  <2>2. SessionId(pending, last) = url
    BY <2>1 DEF Remembered, SessionId
  <2>3. \A l \in Cleanup : l.cancelled
    BY Cleans DEF COTyped, COTypeOK
  <2> QED
    BY <2>1, <2>2, <2>3, Sends DEF Remembered, SuccessPageAsksForSession, Current
<1>8. CASE SignOut \/ OpenSubscribe \/ (\E u \in Users : SignIn(u)) \/ PageLoads(Null)
  BY <1>2, <1>8 DEF SignOut, OpenSubscribe, SignIn, PageLoads
<1> QED
  BY <1>1, <1>2, <1>3, <1>4, <1>5, <1>6, <1>7, <1>8, RememberedLoads DEF CONext

\* Whoever returns from Stripe asks for the plan with the session of the address,
\* on the first request, on every retry, after giving up and although the marker
\* expires (CheckoutSuccess, SubscriptionProvider).
THEOREM PurchaseIsConfirmed ==
  ASSUME Apart
  PROVE  COSpec => []SuccessPageAsksForSession
<1>1. COInit => COTyped /\ Remembered
  BY COTypedInit DEF COInit, Remembered
<1>2. COTyped /\ Remembered /\ [CONext]_coVars => COTyped' /\ Remembered'
  BY COTypedNext, RememberedNext
<1>3. Remembered => SuccessPageAsksForSession
  BY DEF Remembered, SuccessPageAsksForSession
<1> QED
  BY <1>1, <1>2, <1>3, PTL DEF COSpec

-----------------------------------------------------------------------------
(***************************************************************************)
(* The page of the active warehouse                                        *)
(***************************************************************************)

-----------------------------------------------------------------------------
(* Types *)

\* What the answer to a creation is about.
OneIsAdmin == "admin" \in Roles

\* What WPTypeOK says of the calls, and that a switch has a target.
CallsOK ==
  /\ calls \subseteq Call
  /\ \A p, q \in calls : p.kind = "load" /\ q.kind = "load" => p = q
  /\ \A q \in calls : q.kind \in {"select", "create"} => q.in \in Warehouses

\* A call waits only for a renewal that is under way.
WaitersOK == \A q \in calls : q.step = "waiting" => renewal.step # "no"

\* The variables other than the calls have their types.
StateOK ==
  /\ roles \in [Warehouses -> Role]
  /\ cookie \in Choice
  /\ stored \in [active: Choice, role: Role, list: [Warehouses -> Role]]
  /\ heading \in [in: Choice, role: Role]
  /\ rows \subseteq Choice
  /\ stale \in BOOLEAN
  /\ renewal \in Renewal
  /\ changes \in 0..MaxChanges
  /\ astray \in BOOLEAN

PageTyped == StateOK /\ CallsOK /\ WaitersOK

LEMMA LoadsEqual ==
  ASSUME \A p, q \in calls : p.kind = "load" /\ q.kind = "load" => p = q
  PROVE  \A p, q \in Loads : p = q
BY DEF Loads

LEMMA OneLoad ==
  ASSUME \A p, q \in calls : p.kind = "load" /\ q.kind = "load" => p = q
  PROVE  Cardinality(Loads) <= 1
<1>1. CASE Loads = {}
  BY <1>1, FS_EmptySet
<1>2. CASE Loads # {}
  <2>1. PICK q : q \in Loads
    BY <1>2
  <2>2. \A p \in Loads : p = q
    BY <2>1, LoadsEqual
  <2>3. Loads = {q}
    BY <2>1, <2>2
  <2>4. Cardinality({q}) = 1
    BY FS_Singleton
  <2> QED
    BY <2>3, <2>4
<1> QED
  BY <1>1, <1>2

LEMMA PageTypedTypeOK == PageTyped => WPTypeOK
BY OneLoad DEF PageTyped, StateOK, CallsOK, WaitersOK, WPTypeOK

Kinds == {"load", "select", "create", "add", "change", "changeOwn"}

LEMMA NewCallOK ==
  ASSUME NEW kind \in Kinds, NEW w \in Choice, NEW r \in Role
  PROVE  /\ NewCall(kind, w, r) \in Call
         /\ NewCall(kind, w, r).kind = kind
         /\ NewCall(kind, w, r).in = w
         /\ NewCall(kind, w, r).step = "sent"
         /\ NewCall(kind, w, r).mounted
BY DEF NewCall, Call, Kinds

\* The page is drawn again: loads are aborted, perhaps one is sent.
LEMMA EffectOK ==
  ASSUME CallsOK, NEW others \in SUBSET calls, NEW known, NEW w \in Choice,
         cookie' \in Choice, rows \subseteq Choice, stale \in BOOLEAN,
         Effect(known, w, others)
  PROVE  /\ CallsOK' /\ rows' \subseteq Choice /\ stale' \in BOOLEAN
         /\ \A q \in calls' : q.step = "waiting" => q \in others
<1>1. "load" \in Kinds /\ Unset \in Role
  BY DEF Kinds, Role
<1> DEFINE new == NewCall("load", cookie', Unset)
<1>2. new \in Call /\ new.kind = "load" /\ new.step = "sent"
  BY <1>1, NewCallOK
<1>3. \A q \in calls' : q = new \/ (q \in others /\ q.kind # "load")
  BY DEF Effect, Superseded
<1> HIDE DEF new
<1>4. CallsOK'
  BY <1>2, <1>3 DEF CallsOK
<1>5. rows' \subseteq Choice /\ stale' \in BOOLEAN
  BY DEF Effect
<1> QED
  BY <1>2, <1>3, <1>4, <1>5

\* One call moves on.
LEMMA ReplaceOK ==
  ASSUME CallsOK, NEW q \in calls, NEW m \in Call, m.kind = q.kind,
         q.kind \in {"select", "create"} => m.in = q.in,
         calls' = (calls \ {q}) \cup {m}
  PROVE  CallsOK'
<1>1. \A p \in calls' : p = m \/ (p \in calls /\ p # q)
  OBVIOUS
<1>2. calls' \subseteq Call
  BY DEF CallsOK
<1>3. ASSUME NEW p \in calls', NEW r \in calls', p.kind = "load", r.kind = "load"
      PROVE  p = r
  BY <1>1, <1>3 DEF CallsOK
<1>4. ASSUME NEW p \in calls', p.kind \in {"select", "create"}
      PROVE  p.in \in Warehouses
  BY <1>1, <1>4 DEF CallsOK
<1> QED
  BY <1>2, <1>3, <1>4 DEF CallsOK

LEMMA PageTypedInit ==
  ASSUME MaxChanges \in Nat, WPInit
  PROVE  PageTyped
<1>1. PICK w \in Choice :
        /\ w \in Warehouses \/ w = Unset
        /\ cookie = w
        /\ stored = [active |-> w, role |-> IF w = Unset THEN Unset ELSE roles[w],
                     list |-> roles]
        /\ heading = [in |-> w, role |-> stored.role]
        /\ rows = IF stored.role = "staff" THEN {w} ELSE {}
        /\ calls = IF stored.role \in {"admin", "manager"}
                   THEN {NewCall("load", w, Unset)} ELSE {}
  BY DEF WPInit, Choice
<1>2. roles \in [Warehouses -> Role] /\ Unset \in Role
  BY DEF WPInit, Role
<1>3. stored.role \in Role
  BY <1>1, <1>2
<1>4. stored \in [active: Choice, role: Role, list: [Warehouses -> Role]]
  BY <1>1, <1>2, <1>3
<1>5. StateOK
  <2>1. heading \in [in: Choice, role: Role] /\ rows \subseteq Choice
    BY <1>1, <1>3
  <2>2. changes = 0 /\ stale = FALSE /\ astray = FALSE
    BY DEF WPInit
  <2>3. renewal \in Renewal
    BY DEF WPInit, Renewal, NoRenewal, Choice
  <2>4. changes \in 0..MaxChanges
    BY <2>2
  <2> QED
    BY <1>1, <1>2, <1>4, <2>1, <2>2, <2>3, <2>4 DEF StateOK
<1>6. \A q \in calls : q = NewCall("load", w, Unset)
  BY <1>1
<1>7. \A q \in calls : q \in Call /\ q.kind = "load" /\ q.step = "sent"
  BY <1>2, <1>6, NewCallOK DEF Kinds
<1>8. CallsOK /\ WaitersOK
  BY <1>6, <1>7 DEF CallsOK, WaitersOK
<1> QED
  BY <1>5, <1>8 DEF PageTyped

\* What the user does.
LEMMA PageTypedUser ==
  ASSUME PageTyped,
         \/ \E w \in Warehouses : Switch(w) \/ handleAddWarehouse(w)
         \/ \E r \in Role, kind \in {"change", "changeOwn"} : changeUserRole(kind, r)
         \/ addUser \/ Search \/ OpenPage
  PROVE  PageTyped'
<1>1. Unset \in Role /\ Unset \in Choice /\ Warehouses \subseteq Choice
  BY DEF Role, Choice
<1>2. ASSUME NEW kind \in Kinds \ {"load"}, NEW w \in Choice, NEW r \in Role,
             kind \in {"select", "create"} => w \in Warehouses,
             Send(NewCall(kind, w, r))
      PROVE  PageTyped'
  <2> DEFINE new == NewCall(kind, w, r)
  <2>1. new \in Call /\ new.kind = kind /\ new.in = w /\ new.step = "sent"
    BY NewCallOK
  <2>2. calls' = calls \cup {new}
    BY <1>2 DEF Send
  <2> HIDE DEF new
  <2>3. CallsOK' /\ \A q \in calls' : q \in calls \/ q.step = "sent"
    BY <1>2, <2>1, <2>2 DEF PageTyped, CallsOK
  <2>4. StateOK' /\ renewal' = renewal
    BY <1>2 DEF Send, PageTyped, StateOK, server
  <2> QED
    BY <2>3, <2>4 DEF PageTyped, WaitersOK
<1>3. ASSUME NEW w \in Warehouses, Switch(w) \/ handleAddWarehouse(w)
      PROVE  PageTyped'
  BY <1>1, <1>2, <1>3 DEF Switch, handleAddWarehouse, Kinds
<1>4. ASSUME NEW r \in Role, NEW kind \in {"change", "changeOwn"}, changeUserRole(kind, r)
      PROVE  PageTyped'
  <2>1. cookie \in Choice /\ kind \in Kinds \ {"load"}
    BY DEF PageTyped, StateOK, Kinds
  <2> QED
    BY <1>2, <1>4, <2>1 DEF changeUserRole
<1>5. CASE addUser
  <2>1. cookie \in Choice /\ "add" \in Kinds \ {"load"}
    BY DEF PageTyped, StateOK, Kinds
  <2> QED
    BY <1>1, <1>2, <1>5, <2>1 DEF addUser
<1>6. CASE Search
  <2>1. /\ cookie' = cookie /\ cookie \in Choice /\ heading.in \in Choice /\ CallsOK
        /\ rows \subseteq Choice /\ stale \in BOOLEAN /\ Effect(stored, heading.in, calls)
    BY <1>6 DEF Search, PageTyped, StateOK
  <2>2. /\ CallsOK' /\ rows' \subseteq Choice /\ stale' \in BOOLEAN
        /\ \A q \in calls' : q.step = "waiting" => q \in calls
    BY <2>1, EffectOK
  <2> QED
    BY <1>6, <2>2 DEF Search, PageTyped, StateOK, WaitersOK, server
<1>7. CASE OpenPage
  <2> DEFINE new == NewCall("load", cookie, Unset)
             kept == {[q EXCEPT !.mounted = FALSE] : q \in calls \ Loads}
  <2>1. new \in Call /\ new.kind = "load" /\ new.step = "sent"
    BY <1>1, NewCallOK DEF PageTyped, StateOK, Kinds
  <2>2. \A q \in calls' : q = new \/ q \in kept
    BY <1>7 DEF OpenPage
  <2>3. ASSUME NEW q \in calls \ Loads
        PROVE  LET m == [q EXCEPT !.mounted = FALSE] IN
               /\ m \in Call /\ m.kind = q.kind /\ m.kind # "load" /\ m.in = q.in /\ m.step = q.step
    BY DEF PageTyped, CallsOK, Call, Loads
  <2>4. ASSUME NEW m \in kept
        PROVE  /\ m \in Call /\ m.kind # "load"
               /\ m.kind \in {"select", "create"} => m.in \in Warehouses
               /\ m.step = "waiting" => renewal.step # "no"
    <3>1. PICK q \in calls \ Loads : m = [q EXCEPT !.mounted = FALSE]
      OBVIOUS
    <3> QED
      BY <2>3, <3>1 DEF PageTyped, CallsOK, WaitersOK
  <2> HIDE DEF new, kept
  <2>5. CallsOK' /\ WaitersOK'
    BY <1>7, <2>1, <2>2, <2>4 DEF OpenPage, CallsOK, WaitersOK
  <2>6. heading' \in [in: Choice, role: Role]
    <3>1. /\ heading' = [in |-> stored.active,
                         role |-> IF stored.active = Unset THEN Unset
                                  ELSE stored.list[stored.active]]
          /\ stored.active \in Choice /\ stored.list \in [Warehouses -> Role]
      BY <1>7 DEF OpenPage, getWarehouseFromWarehouseId, PageTyped, StateOK
    <3>2. stored.active # Unset => stored.list[stored.active] \in Role
      BY <3>1 DEF Choice
    <3> QED
      BY <1>1, <3>1, <3>2
  <2>7. rows' \subseteq Choice
    BY <1>7 DEF OpenPage, PageTyped, StateOK
  <2> QED
    BY <1>7, <2>5, <2>6, <2>7 DEF OpenPage, PageTyped, StateOK, server
<1> QED
  BY <1>3, <1>4, <1>5, <1>6, <1>7

\* The server and the network.
LEMMA PageTypedServer ==
  ASSUME OneIsAdmin, MaxChanges \in Nat, PageTyped,
         \/ \E w \in Warehouses, r \in Role : RoleChanged(w, r)
         \/ \E q \in calls : Handle(q) \/ Fail(q) \/ Refuse(q)
         \/ Renew \/ Renewed \/ RenewalFails
  PROVE  PageTyped'
<1>1. ASSUME NEW w \in Warehouses, NEW r \in Role, RoleChanged(w, r) PROVE PageTyped'
  BY <1>1 DEF RoleChanged, browser, PageTyped, StateOK, CallsOK, WaitersOK
<1>2. ASSUME NEW q \in calls, Handle(q) PROVE PageTyped'
  <2>1. /\ CallsOK /\ q \in Call /\ q.in \in Choice /\ q.role \in Role /\ q.kind \in Kinds
        /\ q.kind \in {"select", "create"} => q.in \in Warehouses
    BY DEF PageTyped, CallsOK, Call, Kinds
  <2>2. Granted(q) \in Role
    BY <2>1 DEF Granted, OneIsAdmin, PageTyped, StateOK, Role, Kinds
  <2>3. /\ Answered(q) \in Call /\ Answered(q).kind = q.kind /\ Answered(q).in = q.in
        /\ Answered(q).step = "done"
    BY <2>1, <2>2 DEF Answered, Call
  <2>4. calls' = (calls \ {q}) \cup {Answered(q)} /\ renewal' = renewal
    BY <1>2 DEF Handle
  <2>5. CallsOK'
    BY <2>1, <2>3, <2>4, ReplaceOK
  <2>6. WaitersOK'
    BY <2>3, <2>4 DEF PageTyped, WaitersOK
  <2>7. roles' \in [Warehouses -> Role]
    BY <1>2, <2>2 DEF Handle, PageTyped, StateOK
  <2> QED
    BY <1>2, <2>5, <2>6, <2>7 DEF Handle, PageTyped, StateOK
<1>3. ASSUME NEW q \in calls, Fail(q) PROVE PageTyped'
  <2>1. calls' \subseteq calls /\ renewal' = renewal
    BY <1>3 DEF Fail
  <2>2. CallsOK' /\ WaitersOK'
    BY <2>1 DEF PageTyped, CallsOK, WaitersOK
  <2> QED
    BY <1>3, <2>2 DEF Fail, PageTyped, StateOK, server
<1>4. ASSUME NEW q \in calls, Refuse(q) PROVE PageTyped'
  <2> DEFINE m == [q EXCEPT !.step = "waiting"]
  <2>1. CallsOK /\ m \in Call /\ m.kind = q.kind /\ m.in = q.in
    BY DEF PageTyped, CallsOK, Call
  <2>2. calls' = (calls \ {q}) \cup {m} /\ renewal'.step # "no" /\ renewal' \in Renewal
    BY <1>4 DEF Refuse, Renewal, PageTyped, StateOK
  <2> HIDE DEF m
  <2>3. CallsOK'
    BY <2>1, <2>2, ReplaceOK
  <2> QED
    BY <1>4, <2>2, <2>3 DEF Refuse, PageTyped, StateOK, WaitersOK, server
<1>5. CASE Renew
  <2>1. renewal' \in Renewal /\ renewal'.step # "no"
    BY <1>5 DEF Renew, findActiveWarehouse, Renewal, Choice, PageTyped, StateOK
  <2> QED
    BY <1>5, <2>1 DEF Renew, PageTyped, StateOK, CallsOK, WaitersOK, server
<1>6. CASE Renewed
  <2>1. ASSUME NEW q \in calls
        PROVE  LET m == Resume(q, renewal.in) IN
               /\ m \in Call /\ m.kind = q.kind /\ m.step # "waiting"
               /\ q.kind \in {"select", "create"} => m.in = q.in
    <3>1. q \in Call /\ renewal.in \in Choice
      BY DEF PageTyped, CallsOK, StateOK, Renewal
    <3> QED
      BY <3>1 DEF Resume, WithCookie, Call
  <2>2. calls' = {Resume(q, renewal.in) : q \in calls}
    BY <1>6 DEF Renewed
  <2>3. calls' \subseteq Call /\ WaitersOK'
    BY <2>1, <2>2 DEF WaitersOK
  <2>4. ASSUME NEW p \in calls', NEW r \in calls', p.kind = "load", r.kind = "load"
        PROVE  p = r
    <3>1. PICK q \in calls : p = Resume(q, renewal.in)
      BY <2>2
    <3>2. PICK s \in calls : r = Resume(s, renewal.in)
      BY <2>2
    <3>3. q.kind = "load" /\ s.kind = "load"
      BY <2>1, <2>4, <3>1, <3>2
    <3> QED
      BY <3>1, <3>2, <3>3 DEF PageTyped, CallsOK
  <2>5. \A p \in calls' : p.kind \in {"select", "create"} => p.in \in Warehouses
    BY <2>1, <2>2 DEF PageTyped, CallsOK
  <2>6. CallsOK'
    BY <2>3, <2>4, <2>5 DEF CallsOK
  <2>7. renewal' \in Renewal /\ cookie' \in Choice
    BY <1>6 DEF Renewed, Renewal, NoRenewal, Choice, PageTyped, StateOK
  <2> QED
    BY <1>6, <2>3, <2>6, <2>7 DEF Renewed, PageTyped, StateOK, server
<1>7. CASE RenewalFails
  <2>1. /\ calls' = calls \ {q \in calls : q.step = "waiting"}
        /\ renewal' \in Renewal /\ cookie' \in Choice /\ stale' \in BOOLEAN
    BY <1>7 DEF RenewalFails, Renewal, NoRenewal, Choice, PageTyped, StateOK
  <2>2. CallsOK' /\ WaitersOK'
    BY <2>1 DEF PageTyped, CallsOK, WaitersOK
  <2> QED
    BY <1>7, <2>1, <2>2 DEF RenewalFails, PageTyped, StateOK, server
<1> QED
  BY <1>1, <1>2, <1>3, <1>4, <1>5, <1>6, <1>7

\* The heading is set, if the page is still there.
LEMMA ShowOK ==
  ASSUME PageTyped, NEW q \in calls, NEW w \in Choice, NEW r \in Role, ShowWarehouse(q, w, r),
         cookie' \in Choice
  PROVE  /\ CallsOK' /\ heading' \in [in: Choice, role: Role]
         /\ rows' \subseteq Choice /\ stale' \in BOOLEAN
         /\ \A p \in calls' : p.step = "waiting" => p \in calls
<1>1. Gone(q) \in SUBSET calls
  BY DEF Gone
<1>2. CASE q.mounted
  <2>1. heading' = [in |-> w, role |-> r] /\ Effect(stored', w, Gone(q))
    BY <1>2 DEF ShowWarehouse
  <2>2. CallsOK /\ rows \subseteq Choice /\ stale \in BOOLEAN
    BY DEF PageTyped, StateOK
  <2> QED
    BY <1>1, <2>1, <2>2, EffectOK
<1>3. CASE ~q.mounted
  BY <1>1, <1>3 DEF ShowWarehouse, PageTyped, StateOK, CallsOK
<1> QED
  BY <1>2, <1>3

\* Answers.
LEMMA PageTypedAnswers ==
  ASSUME PageTyped, NEW q \in calls,
         SwitchEnds(q) \/ CreateEnds(q) \/ LoadEnds(q) \/ AddEnds(q) \/ ChangeEnds(q)
  PROVE  PageTyped'
<1>1. /\ q.in \in Choice /\ q.role \in Role
      /\ q.kind \in {"select", "create"} => q.in \in Warehouses
  BY DEF PageTyped, CallsOK, Call
<1>2. Gone(q) \subseteq calls
  BY DEF Gone
<1>3. CASE SwitchEnds(q)
  <2>1. cookie' \in Choice /\ astray' \in BOOLEAN
    BY <1>1, <1>3 DEF SwitchEnds, Selected, PageTyped, StateOK
  <2>2. stored' \in [active: Choice, role: Role, list: [Warehouses -> Role]]
    BY <1>1, <1>3 DEF SwitchEnds, PageTyped, StateOK
  <2>3. /\ CallsOK' /\ heading' \in [in: Choice, role: Role]
        /\ rows' \subseteq Choice /\ stale' \in BOOLEAN
        /\ \A p \in calls' : p.step = "waiting" => p \in calls
    BY <1>1, <1>3, <2>1, ShowOK DEF SwitchEnds
  <2> QED
    BY <1>3, <2>1, <2>2, <2>3 DEF SwitchEnds, PageTyped, StateOK, WaitersOK, server
<1>4. CASE CreateEnds(q)
  <2>1. cookie' \in Choice /\ astray' \in BOOLEAN
    BY <1>1, <1>4 DEF CreateEnds
  <2>2. stored' \in [active: Choice, role: Role, list: [Warehouses -> Role]]
    BY <1>1, <1>4 DEF CreateEnds, PageTyped, StateOK
  <2>3. /\ CallsOK' /\ heading' \in [in: Choice, role: Role]
        /\ rows' \subseteq Choice /\ stale' \in BOOLEAN
        /\ \A p \in calls' : p.step = "waiting" => p \in calls
    BY <1>1, <1>4, <2>1, ShowOK DEF CreateEnds
  <2> QED
    BY <1>4, <2>1, <2>2, <2>3 DEF CreateEnds, PageTyped, StateOK, WaitersOK, server
<1>5. CASE LoadEnds(q) \/ AddEnds(q)
  <2>1. calls' \subseteq calls /\ rows' \subseteq Choice /\ stale' \in BOOLEAN /\ renewal' = renewal
    BY <1>1, <1>2, <1>5 DEF LoadEnds, AddEnds, PageTyped, StateOK
  <2>2. CallsOK' /\ WaitersOK'
    BY <2>1 DEF PageTyped, CallsOK, WaitersOK
  <2> QED
    BY <1>5, <2>1, <2>2 DEF LoadEnds, AddEnds, PageTyped, StateOK, server
<1>6. CASE ChangeEnds(q) /\ IsOwn(q)
  <2>1. cookie' \in Choice /\ heading.in \in Choice
    BY <1>6 DEF ChangeEnds, PageTyped, StateOK
  <2>2. Relisted(q) \in [Warehouses -> Role]
    BY <1>1 DEF Relisted, Role, PageTyped, StateOK
  <2>3. stored' \in [active: Choice, role: Role, list: [Warehouses -> Role]]
    BY <1>1, <1>6, <2>2 DEF ChangeEnds, PageTyped, StateOK
  <2>4. /\ CallsOK' /\ heading' \in [in: Choice, role: Role]
        /\ rows' \subseteq Choice /\ stale' \in BOOLEAN
        /\ \A p \in calls' : p.step = "waiting" => p \in calls
    BY <1>1, <1>6, <2>1, ShowOK DEF ChangeEnds
  <2> QED
    BY <1>6, <2>1, <2>3, <2>4 DEF ChangeEnds, PageTyped, StateOK, WaitersOK, server
<1>7. CASE ChangeEnds(q) /\ ~IsOwn(q)
  BY <1>2, <1>7 DEF ChangeEnds, PageTyped, StateOK, CallsOK, WaitersOK, server
<1> QED
  BY <1>3, <1>4, <1>5, <1>6, <1>7

LEMMA PageTypedNext ==
  ASSUME OneIsAdmin, MaxChanges \in Nat, PageTyped, [WPNext]_wpVars
  PROVE  PageTyped'
<1>1. CASE UNCHANGED wpVars
  BY <1>1 DEF wpVars, PageTyped, StateOK, CallsOK, WaitersOK
<1>2. CASE WPNext
  BY <1>2, PageTypedUser, PageTypedServer, PageTypedAnswers DEF WPNext
<1> QED
  BY <1>1, <1>2

\* The variables have their types, one load is under way at most, and a call waits
\* only for a renewal that is (warehouseUsers.tsx, client.ts).
THEOREM PageTypeCorrect ==
  ASSUME OneIsAdmin, MaxChanges \in Nat
  PROVE  WPSpec => []WPTypeOK
<1>1. WPInit => PageTyped
  BY PageTypedInit
<1>2. PageTyped /\ [WPNext]_wpVars => PageTyped'
  BY PageTypedNext
<1>3. PageTyped => WPTypeOK
  BY PageTypedTypeOK
<1> QED
  BY <1>1, <1>2, <1>3, PTL DEF WPSpec

-----------------------------------------------------------------------------
(* The warehouse of the heading *)

\* A call that carries the cookie is about the warehouse of the heading, or about
\* none and then is refused.
AboutHeading(q) ==
  WithCookie(q) => q.in \in {heading.in, Unset} /\ (q.step = "done" => q.in # Unset)

Followed ==
  /\ cookie \in {heading.in, Unset}
  /\ renewal.step # "no" => renewal.in \in {heading.in, Unset}
  /\ \A q \in calls : AboutHeading(q)
  /\ Loads = {} /\ ~stale => rows \subseteq {heading.in}

\* One thing at a time: whoever waits for the answer to a switch or a write finds
\* the page as it was when it comes.
OneAtATime ==
  /\ \A q \in calls : q.mounted
  /\ \A p, q \in calls : p.kind # "load" /\ q.kind # "load" => p = q

Headed ==
  /\ OneAtATime
  /\ heading.in = stored.active
  /\ ~astray => Followed

LEMMA HeadedInit ==
  ASSUME WPInit
  PROVE  Headed
<1>1. PICK w \in Choice :
        /\ cookie = w
        /\ stored = [active |-> w, role |-> IF w = Unset THEN Unset ELSE roles[w],
                     list |-> roles]
        /\ heading = [in |-> w, role |-> stored.role]
        /\ rows = IF stored.role = "staff" THEN {w} ELSE {}
        /\ calls = IF stored.role \in {"admin", "manager"}
                   THEN {NewCall("load", w, Unset)} ELSE {}
  BY DEF WPInit
<1>2. \A q \in calls : q = NewCall("load", w, Unset)
  BY <1>1
<1>3. \A q \in calls : q.mounted /\ q.kind = "load" /\ q.in = heading.in /\ q.step = "sent"
  BY <1>1, <1>2, NewCallOK DEF Kinds, Role
<1>4. renewal.step = "no" /\ rows \subseteq {heading.in}
  BY <1>1 DEF WPInit, NoRenewal
<1> QED
  BY <1>1, <1>3, <1>4 DEF Headed, OneAtATime, Followed, AboutHeading

\* One call moves on; the rest of the page stays as it is.
LEMMA HeadedMoves ==
  ASSUME Headed, NEW q \in calls, NEW m, m.kind = q.kind, m.mounted <=> q.mounted,
         ~astray /\ AboutHeading(q) => AboutHeading(m),
         calls' = (calls \ {q}) \cup {m},
         UNCHANGED <<cookie, stored, heading, rows, stale, astray>>,
         renewal' = renewal \/ renewal'.in = cookie
  PROVE  Headed'
<1>1. \A p \in calls' : p = m \/ (p \in calls /\ p # q)
  OBVIOUS
<1>2. OneAtATime'
  <2>1. \A p \in calls' : p.mounted
    BY <1>1 DEF Headed, OneAtATime
  <2>2. ASSUME NEW p \in calls', NEW r \in calls', p.kind # "load", r.kind # "load"
        PROVE  p = r
    BY <1>1, <2>2 DEF Headed, OneAtATime
  <2> QED
    BY <2>1, <2>2 DEF OneAtATime
<1>3. ASSUME ~astray PROVE Followed'
  <2>1. /\ cookie' \in {heading'.in, Unset}
        /\ renewal'.step # "no" => renewal'.in \in {heading'.in, Unset}
    BY <1>3 DEF Headed, Followed
  <2>2. ASSUME NEW p \in calls' PROVE AboutHeading(p)'
    <3>1. AboutHeading(p)
      BY <1>1, <1>3 DEF Headed, Followed
    <3> QED
      BY <3>1 DEF AboutHeading
  <2>3. Loads' = {} => Loads = {}
    <3>1. ASSUME NEW p \in Loads PROVE Loads' # {}
      BY m \in calls', p = q \/ p \in calls' DEF Loads
    <3> QED
      BY <3>1
  <2> QED
    BY <1>3, <2>1, <2>2, <2>3 DEF Headed, Followed
<1> QED
  BY <1>2, <1>3 DEF Headed

\* A call has ended, or some have; the rest of the page stays as it is.
LEMMA HeadedEnds ==
  ASSUME Headed, calls' \subseteq calls,
         UNCHANGED <<heading, astray>>, stored'.active = stored.active,
         cookie' \in {cookie, Unset}, renewal' = renewal \/ renewal'.step = "no",
         ~astray /\ Followed /\ Loads' = {} /\ ~stale' => rows' \subseteq {heading.in}
  PROVE  Headed'
<1>1. OneAtATime' /\ heading'.in = stored'.active
  BY DEF Headed, OneAtATime
<1>2. ASSUME ~astray PROVE Followed'
  <2>1. \A p \in calls' : AboutHeading(p)'
    BY <1>2 DEF Headed, Followed, AboutHeading
  <2> QED
    BY <1>2, <2>1 DEF Headed, Followed
<1> QED
  BY <1>1, <1>2 DEF Headed

\* The page is drawn for the warehouse of its heading: a load is sent with the
\* cookie, or the rows are known.
LEMMA HeadedEffect ==
  ASSUME OneAtATime, NEW others \in SUBSET calls,
         \A q \in others : q.kind # "load" => (~astray' => AboutHeading(q)'),
         NEW known, Effect(known, heading'.in, others),
         cookie' \in Choice, heading'.in = stored'.active,
         ~astray' => /\ cookie' \in {heading'.in, Unset}
                     /\ renewal'.step # "no" => renewal'.in \in {heading'.in, Unset}
  PROVE  Headed'
<1> DEFINE new == NewCall("load", cookie', Unset)
<1>1. new.kind = "load" /\ new.in = cookie' /\ new.step = "sent" /\ new.mounted
  BY NewCallOK DEF Kinds, Role
<1>2. \A q \in calls' : q = new \/ (q \in others /\ q.kind # "load")
  BY DEF Effect, Superseded
<1>3. new \in calls' \/ rows' \subseteq {heading'.in}
  BY DEF Effect
<1> HIDE DEF new
<1>4. OneAtATime'
  BY <1>1, <1>2 DEF OneAtATime
<1>5. ASSUME ~astray' PROVE Followed'
  <2>1. \A q \in calls' : AboutHeading(q)'
    BY <1>1, <1>2, <1>5 DEF AboutHeading
  <2>2. Loads' = {} => rows' \subseteq {heading'.in}
    BY <1>1, <1>3 DEF Loads
  <2> QED
    BY <1>5, <2>1, <2>2 DEF Followed
<1> QED
  BY <1>4, <1>5 DEF Headed

\* A patient user asks for something when nothing but a load is under way.
LEMMA HeadedSend ==
  ASSUME Patient, Headed, NEW kind \in Kinds \ {"load"}, NEW w \in Choice, NEW r \in Role,
         kind \in {"select", "create"} \/ w = cookie,
         Send(NewCall(kind, w, r))
  PROVE  Headed'
<1> DEFINE new == NewCall(kind, w, r)
<1>1. new.kind = kind /\ new.in = w /\ new.step = "sent" /\ new.mounted
  BY NewCallOK
<1>2. /\ calls = Loads /\ calls' = calls \cup {new}
      /\ UNCHANGED <<cookie, stored, heading, rows, stale, renewal, astray>>
  BY DEF Send, Ready
<1>3. \A q \in calls : q.kind = "load"
  BY <1>2 DEF Loads
<1> HIDE DEF new
<1>4. OneAtATime'
  BY <1>1, <1>2, <1>3 DEF Headed, OneAtATime
<1>5. ASSUME ~astray PROVE Followed'
  <2>1. AboutHeading(new)'
    BY <1>1, <1>2, <1>5 DEF AboutHeading, WithCookie, Headed, Followed
  <2>2. \A q \in calls' : AboutHeading(q)'
    BY <1>2, <1>5, <2>1 DEF AboutHeading, Headed, Followed
  <2>3. Loads' = {} => Loads = {}
    BY <1>2 DEF Loads
  <2> QED
    BY <1>2, <1>5, <2>2, <2>3 DEF Headed, Followed
<1> QED
  BY <1>2, <1>4, <1>5 DEF Headed

\* What the user does.
LEMMA HeadedUser ==
  ASSUME Patient, PageTyped, Headed,
         \/ \E w \in Warehouses : Switch(w) \/ handleAddWarehouse(w)
         \/ \E r \in Role, kind \in {"change", "changeOwn"} : changeUserRole(kind, r)
         \/ addUser \/ Search \/ OpenPage
  PROVE  Headed'
<1>1. Unset \in Role /\ Warehouses \subseteq Choice /\ cookie \in Choice
  BY DEF Role, Choice, PageTyped, StateOK
<1>2. ASSUME NEW w \in Warehouses, Switch(w) \/ handleAddWarehouse(w)
      PROVE  Headed'
  BY <1>1, <1>2, HeadedSend DEF Switch, handleAddWarehouse, Kinds
<1>3. ASSUME NEW r \in Role, NEW kind \in {"change", "changeOwn"}, changeUserRole(kind, r)
      PROVE  Headed'
  BY <1>1, <1>3, HeadedSend DEF changeUserRole, Kinds
<1>4. CASE addUser
  BY <1>1, <1>4, HeadedSend DEF addUser, Kinds
<1>5. CASE Search
  <2>1. /\ UNCHANGED <<cookie, stored, heading, renewal, astray>>
        /\ Effect(stored, heading.in, calls)
    BY <1>5 DEF Search
  <2>2. \A q \in calls : ~astray' => AboutHeading(q)'
    BY <2>1 DEF Headed, Followed, AboutHeading
  <2>3. OneAtATime /\ heading'.in = stored'.active
    BY <2>1 DEF Headed
  <2>4. ~astray' => /\ cookie' \in {heading'.in, Unset}
                    /\ renewal'.step # "no" => renewal'.in \in {heading'.in, Unset}
    BY <2>1 DEF Headed, Followed
  <2> QED
    BY <1>1, <2>1, <2>2, <2>3, <2>4, HeadedEffect
<1>6. CASE OpenPage
  <2> DEFINE new == NewCall("load", cookie, Unset)
  <2>1. /\ calls = Loads /\ UNCHANGED <<cookie, stored, renewal, astray>>
        /\ heading'.in = stored.active
    BY <1>6 DEF OpenPage, getWarehouseFromWarehouseId
  <2>2. new.kind = "load" /\ new.in = cookie /\ new.step = "sent" /\ new.mounted
    BY <1>1, NewCallOK DEF Kinds
  <2>3. /\ \A q \in calls' : q = new
        /\ rows' \subseteq {stored.active}
    BY <1>6, <2>1 DEF OpenPage
  <2> HIDE DEF new
  <2>4. heading'.in = heading.in
    BY <2>1 DEF Headed
  <2>5. OneAtATime'
    BY <2>2, <2>3 DEF OneAtATime
  <2>6. ASSUME ~astray PROVE Followed'
    <3>1. cookie \in {heading.in, Unset}
      BY <2>6 DEF Headed, Followed
    <3>2. \A q \in calls' : AboutHeading(q)'
      BY <2>2, <2>3, <2>4, <3>1 DEF AboutHeading
    <3> QED
      BY <2>1, <2>3, <2>4, <2>6, <3>1, <3>2 DEF Headed, Followed
  <2> QED
    BY <2>1, <2>5, <2>6 DEF Headed
<1> QED
  BY <1>2, <1>3, <1>4, <1>5, <1>6

\* The server and the network.
LEMMA HeadedServer ==
  ASSUME PageTyped, Headed,
         \/ \E w \in Warehouses, r \in Role : RoleChanged(w, r)
         \/ \E q \in calls : Handle(q) \/ Fail(q) \/ Refuse(q)
         \/ Renew \/ Renewed \/ RenewalFails
  PROVE  Headed'
<1>1. ASSUME NEW w \in Warehouses, NEW r \in Role, RoleChanged(w, r) PROVE Headed'
  <2>1. UNCHANGED <<cookie, stored, heading, rows, stale, calls, renewal, astray>>
    BY <1>1 DEF RoleChanged, browser
  <2>2. Loads' = Loads
    BY <2>1 DEF Loads
  <2> QED
    BY <2>1, <2>2, HeadedEnds DEF Followed
<1>2. ASSUME NEW q \in calls, Handle(q) PROVE Headed'
  <2>1. q \in Call
    BY DEF PageTyped, CallsOK
  <2>2. /\ Answered(q).kind = q.kind /\ Answered(q).in = q.in
        /\ Answered(q).mounted <=> q.mounted
    BY <2>1 DEF Answered, Call
  <2>3. WithCookie(q) => q.in # Unset
    BY <1>2, <2>1 DEF Handle, Allowed, Manages, WithCookie, Call
  <2>4. ~astray /\ AboutHeading(q) => AboutHeading(Answered(q))
    BY <2>2, <2>3 DEF AboutHeading, WithCookie
  <2>5. calls' = (calls \ {q}) \cup {Answered(q)}
    BY <1>2 DEF Handle
  <2> QED
    BY <1>2, <2>2, <2>4, <2>5, HeadedMoves DEF Handle
<1>3. ASSUME NEW q \in calls, Fail(q) PROVE Headed'
  <2>1. /\ calls' = calls \ {q} /\ stale' = (stale \/ q.kind = "load")
        /\ UNCHANGED <<cookie, stored, heading, rows, renewal, astray>>
    BY <1>3 DEF Fail
  <2>2. Loads' = {} /\ ~stale' => Loads = {} /\ ~stale
    BY <2>1 DEF Loads
  <2> QED
    BY <2>1, <2>2, HeadedEnds DEF Followed
<1>4. ASSUME NEW q \in calls, Refuse(q) PROVE Headed'
  <2> DEFINE m == [q EXCEPT !.step = "waiting"]
  <2>1. /\ m.kind = q.kind /\ m.in = q.in /\ (m.mounted <=> q.mounted) /\ m.step # "done"
    BY DEF PageTyped, CallsOK, Call
  <2>2. /\ calls' = (calls \ {q}) \cup {m}
        /\ renewal' = renewal \/ renewal'.in = cookie
        /\ UNCHANGED <<cookie, stored, heading, rows, stale, astray>>
    BY <1>4 DEF Refuse
  <2> HIDE DEF m
  <2>3. AboutHeading(q) => AboutHeading(m)
    BY <2>1 DEF AboutHeading, WithCookie
  <2> QED
    BY <2>1, <2>2, <2>3, HeadedMoves
<1>5. CASE Renew
  <2>1. /\ renewal'.in \in {renewal.in, Unset} /\ renewal.step # "no"
        /\ UNCHANGED <<cookie, stored, heading, rows, stale, calls, astray>>
    BY <1>5 DEF Renew, findActiveWarehouse
  <2> QED
    BY <2>1 DEF Headed, OneAtATime, Followed, AboutHeading, Loads
<1>6. CASE Renewed
  <2>1. /\ cookie' = renewal.in /\ renewal.step # "no" /\ renewal'.step = "no"
        /\ calls' = {Resume(q, renewal.in) : q \in calls}
        /\ UNCHANGED <<stored, heading, rows, stale, astray>>
    BY <1>6 DEF Renewed, NoRenewal
  <2>2. ASSUME NEW q \in calls
        PROVE  LET m == Resume(q, renewal.in) IN
               /\ m.kind = q.kind /\ (m.mounted <=> q.mounted)
               /\ m = q \/ (m.step = "repeated" /\ (WithCookie(q) => m.in = renewal.in))
    <3>1. q \in Call
      BY DEF PageTyped, CallsOK
    <3> QED
      BY <3>1 DEF Resume, Call
  <2>3. OneAtATime'
    <3>1. \A p \in calls' : p.mounted
      BY <2>1, <2>2 DEF Headed, OneAtATime
    <3>2. ASSUME NEW p \in calls', NEW r \in calls', p.kind # "load", r.kind # "load"
          PROVE  p = r
      <4>1. PICK q \in calls : p = Resume(q, renewal.in)
        BY <2>1
      <4>2. PICK s \in calls : r = Resume(s, renewal.in)
        BY <2>1
      <4>3. q.kind # "load" /\ s.kind # "load"
        BY <2>2, <3>2, <4>1, <4>2
      <4> QED
        BY <4>1, <4>2, <4>3 DEF Headed, OneAtATime
    <3> QED
      BY <3>1, <3>2 DEF OneAtATime
  <2>4. ASSUME ~astray PROVE Followed'
    <3>1. renewal.in \in {heading.in, Unset}
      BY <2>1, <2>4 DEF Headed, Followed
    <3>2. ASSUME NEW p \in calls' PROVE AboutHeading(p)'
      <4>1. PICK q \in calls : p = Resume(q, renewal.in)
        BY <2>1
      <4>2. AboutHeading(q)
        BY <2>4 DEF Headed, Followed
      <4>3. p.kind = q.kind /\ (p = q \/ (p.step = "repeated" /\ (WithCookie(q) => p.in = renewal.in)))
        BY <2>2, <4>1
      <4> QED
        BY <2>1, <3>1, <4>2, <4>3 DEF AboutHeading, WithCookie
    <3>3. Loads' = {} => Loads = {}
      <4>1. ASSUME NEW q \in Loads PROVE Loads' # {}
        <5>1. Resume(q, renewal.in) \in calls' /\ Resume(q, renewal.in).kind = "load"
          BY <2>1, <2>2 DEF Loads
        <5> QED
          BY <5>1 DEF Loads
      <4> QED
        BY <4>1
    <3> QED
      BY <2>1, <2>4, <3>1, <3>2, <3>3 DEF Headed, Followed
  <2> QED
    BY <2>1, <2>3, <2>4 DEF Headed
<1>7. CASE RenewalFails
  <2> DEFINE failed == {q \in calls : q.step = "waiting"}
  <2>1. /\ calls' = calls \ failed /\ stale' = (stale \/ failed \cap Loads # {})
        /\ cookie' \in {cookie, Unset} /\ renewal'.step = "no"
        /\ UNCHANGED <<stored, heading, rows, astray>>
    BY <1>7 DEF RenewalFails, NoRenewal
  <2> HIDE DEF failed
  <2>2. Loads' = {} /\ ~stale' => Loads = {} /\ ~stale
    BY <2>1 DEF Loads
  <2> QED
    BY <2>1, <2>2, HeadedEnds DEF Followed
<1> QED
  BY <1>1, <1>2, <1>3, <1>4, <1>5, <1>6, <1>7

\* Only loads are left when the answer to something else arrives.
LEMMA OnlyLoadsLeft ==
  ASSUME OneAtATime, NEW q \in calls, q.kind # "load"
  PROVE  Gone(q) \subseteq calls /\ \A p \in Gone(q) : p.kind = "load"
BY DEF OneAtATime, Gone

\* Answers.
LEMMA HeadedAnswers ==
  ASSUME PageTyped, Headed, NEW q \in calls,
         SwitchEnds(q) \/ CreateEnds(q) \/ LoadEnds(q) \/ AddEnds(q) \/ ChangeEnds(q)
  PROVE  Headed'
<1>1. q.in \in Choice /\ cookie \in Choice /\ q.mounted /\ OneAtATime
  BY DEF PageTyped, CallsOK, StateOK, Call, Headed, OneAtATime
<1>2. CASE SwitchEnds(q) \/ CreateEnds(q)
  <2>1. /\ q.kind # "load" /\ cookie' \in {q.in, cookie} /\ stored'.active = q.in
        /\ ShowWarehouse(q, q.in, q.role)
        /\ ~astray' => cookie' = q.in /\ renewal'.step = "no"
    <3>1. CASE SwitchEnds(q)
      BY <3>1 DEF SwitchEnds, Selected, PageTyped, StateOK
    <3>2. CASE CreateEnds(q)
      <4>1. stored'.active = q.in
        BY <3>2 DEF CreateEnds
      <4> QED
        BY <3>2, <4>1 DEF CreateEnds
    <3> QED
      BY <1>2, <3>1, <3>2
  <2>2. heading' = [in |-> q.in, role |-> q.role] /\ Effect(stored', q.in, Gone(q))
    BY <1>1, <2>1 DEF ShowWarehouse
  <2>3. Gone(q) \in SUBSET calls /\ \A p \in Gone(q) : p.kind = "load"
    BY <1>1, <2>1, OnlyLoadsLeft
  <2>4. heading'.in = q.in /\ cookie' \in Choice
    BY <1>1, <2>1, <2>2
  <2> QED
    BY <1>1, <2>1, <2>2, <2>3, <2>4, HeadedEffect
<1>3. CASE LoadEnds(q)
  <2>1. /\ calls' \subseteq calls /\ rows' = {q.in} /\ q.kind = "load" /\ q.step = "done"
        /\ UNCHANGED <<cookie, stored, heading, renewal, astray>>
    BY <1>3 DEF LoadEnds, Gone
  <2>2. Followed => q.in = heading.in
    BY <2>1 DEF Followed, AboutHeading, WithCookie
  <2> QED
    BY <2>1, <2>2, HeadedEnds
<1>4. CASE AddEnds(q)
  <2>1. /\ calls' = calls \ {q} /\ rows' \subseteq rows \cup {q.in}
        /\ q.kind = "add" /\ q.step = "done"
        /\ UNCHANGED <<cookie, stored, heading, stale, renewal, astray>>
    BY <1>4 DEF AddEnds, Gone
  <2>2. Followed => q.in = heading.in
    BY <2>1 DEF Followed, AboutHeading, WithCookie
  <2>3. Loads' = {} => Loads = {}
    BY <2>1 DEF Loads
  <2> QED
    BY <2>1, <2>2, <2>3, HeadedEnds DEF Followed
<1>5. CASE ChangeEnds(q) /\ IsOwn(q)
  <2>1. /\ q.kind # "load" /\ stored'.active = stored.active /\ ShowWarehouse(q, heading.in, q.role)
        /\ UNCHANGED <<cookie, renewal, astray>>
    BY <1>5 DEF ChangeEnds, PageTyped, StateOK
  <2>2. heading' = [in |-> heading.in, role |-> q.role] /\ Effect(stored', heading.in, Gone(q))
    BY <1>1, <2>1 DEF ShowWarehouse
  <2>3. Gone(q) \in SUBSET calls /\ \A p \in Gone(q) : p.kind = "load"
    BY <1>1, <2>1, OnlyLoadsLeft
  <2>4. heading'.in = heading.in /\ heading'.in = stored'.active
    BY <2>1, <2>2 DEF Headed
  <2>5. ~astray' => /\ cookie' \in {heading'.in, Unset}
                    /\ renewal'.step # "no" => renewal'.in \in {heading'.in, Unset}
    BY <2>1, <2>4 DEF Headed, Followed
  <2> QED
    BY <1>1, <2>1, <2>2, <2>3, <2>4, <2>5, HeadedEffect
<1>6. CASE ChangeEnds(q) /\ ~IsOwn(q)
  <2>1. /\ q.kind # "load" /\ calls' = calls \ {q}
        /\ UNCHANGED <<cookie, stored, heading, rows, stale, renewal, astray>>
    BY <1>6 DEF ChangeEnds, Gone
  <2>2. Loads' = {} => Loads = {}
    BY <2>1 DEF Loads
  <2> QED
    BY <2>1, <2>2, HeadedEnds DEF Followed
<1> QED
  BY <1>2, <1>3, <1>4, <1>5, <1>6

LEMMA HeadedNext ==
  ASSUME Patient, PageTyped, Headed, [WPNext]_wpVars
  PROVE  Headed'
<1>1. CASE UNCHANGED wpVars
  BY <1>1 DEF wpVars, Headed, OneAtATime, Followed, AboutHeading, Loads
<1>2. CASE WPNext
  BY <1>2, HeadedUser, HeadedServer, HeadedAnswers DEF WPNext
<1> QED
  BY <1>1, <1>2

\* What a patient user's page may rely on.
LEMMA AlwaysHeaded ==
  ASSUME OneIsAdmin, MaxChanges \in Nat, Patient
  PROVE  WPSpec => [](PageTyped /\ Headed)
<1>1. WPInit => PageTyped /\ Headed
  BY PageTypedInit, HeadedInit
<1>2. PageTyped /\ Headed /\ [WPNext]_wpVars => PageTyped' /\ Headed'
  BY PageTypedNext, HeadedNext
<1> QED
  BY <1>1, <1>2, PTL DEF WPSpec

\* For a user who waits for answers, the server acts on the warehouse of the heading
\* or on none: unless a renewal was under way when the switch was answered, or the
\* user had lost the role in that warehouse (warehouseSelector.tsx,
\* warehouse.controller.ts).
THEOREM ServerFollowsHeading ==
  ASSUME OneIsAdmin, MaxChanges \in Nat, Patient
  PROVE  WPSpec => []ActsOnHeading
<1>1. Headed => ActsOnHeading
  BY DEF Headed, Followed, ActsOnHeading
<1> QED
  BY <1>1, AlwaysHeaded, PTL

\* The rows are members of the warehouse of the heading, unless a load is under way
\* or has failed (warehouseUsers.tsx).
THEOREM RowsFollowHeading ==
  ASSUME OneIsAdmin, MaxChanges \in Nat, Patient
  PROVE  WPSpec => []RowsOfHeading
<1>1. Headed => RowsOfHeading
  BY DEF Headed, Followed, RowsOfHeading
<1> QED
  BY <1>1, AlwaysHeaded, PTL

\* The call that was answered is over.
LEMMA ShowEnds ==
  ASSUME NEW q \in calls, q.kind # "load", NEW w, NEW r, ShowWarehouse(q, w, r), cookie' \in Choice
  PROVE  q \notin calls'
<1>1. NewCall("load", cookie', Unset).kind = "load"
  BY NewCallOK DEF Kinds, Role
<1>2. \A p \in calls' : p = NewCall("load", cookie', Unset) \/ p \in Gone(q)
  BY DEF ShowWarehouse, Effect
<1> QED
  BY <1>1, <1>2 DEF Gone

\* A role is written to the list only where it was given.
LEMMA RelistsWhereGiven ==
  ASSUME OneIsAdmin, MaxChanges \in Nat, PageTyped, Headed, [WPNext]_wpVars, ~astray, NEW w \in Warehouses,
         stored.list[w] # stored'.list[w]
  PROVE  \E q \in calls \ calls' :
           q.step = "done" /\ q.in = w /\ q.kind \in {"create", "changeOwn"}
<1>1. stored' # stored
  OBVIOUS
<1>2. PICK q \in calls : SwitchEnds(q) \/ CreateEnds(q) \/ ChangeEnds(q)
  BY <1>1 DEF WPNext, wpVars, Send, Switch, handleAddWarehouse, changeUserRole, addUser,
              Search, OpenPage, Handle, Fail, Refuse, Renew, Renewed, RenewalFails,
              RoleChanged, browser, LoadEnds, AddEnds
<1>3. /\ stored \in [active: Choice, role: Role, list: [Warehouses -> Role]]
      /\ CallsOK /\ q.mounted /\ q.step = "done" /\ q.kind # "load"
  BY <1>2 DEF PageTyped, StateOK, Headed, OneAtATime, SwitchEnds, CreateEnds, ChangeEnds
<1>4. ~SwitchEnds(q)
  BY <1>3 DEF SwitchEnds
<1>5. cookie' \in Choice
  BY PageTypedNext DEF PageTyped, StateOK
<1>6. CASE CreateEnds(q)
  <2>1. q.in = w
    BY <1>3, <1>6 DEF CreateEnds
  <2>2. q \notin calls'
    BY <1>3, <1>6, <1>5, ShowEnds DEF CreateEnds
  <2> QED
    BY <1>3, <1>6, <2>1, <2>2 DEF CreateEnds
<1>7. CASE ChangeEnds(q)
  <2>1. IsOwn(q) /\ stored' = [stored EXCEPT !.role = q.role, !.list = Relisted(q)]
    BY <1>1, <1>7 DEF ChangeEnds
  <2>2. stored.active = w
    BY <1>3, <2>1 DEF Relisted
  <2>3. q.in = heading.in
    BY <1>3, <2>1 DEF Headed, Followed, AboutHeading, WithCookie, IsOwn
  <2>4. ShowWarehouse(q, heading.in, q.role)
    BY <1>7, <2>1 DEF ChangeEnds
  <2>5. q \notin calls'
    BY <1>3, <1>5, <2>4, ShowEnds
  <2> QED
    BY <1>3, <2>1, <2>2, <2>3, <2>5 DEF Headed, IsOwn
<1> QED
  BY <1>2, <1>4, <1>6, <1>7

\* A role is remembered for a warehouse only by the answer to a change of the user's
\* role in that warehouse (changeUserRole.ts).
THEOREM RolesAreRemembered ==
  ASSUME OneIsAdmin, MaxChanges \in Nat, Patient
  PROVE  WPSpec => RolesRememberedWhereGiven
<1>1. PageTyped /\ Headed /\ [WPNext]_wpVars =>
        [~astray => \A w \in Warehouses :
           stored.list[w] # stored'.list[w] =>
             \E q \in calls \ calls' :
                q.step = "done" /\ q.in = w /\ q.kind \in {"create", "changeOwn"}]_wpVars
  BY RelistsWhereGiven
<1> QED
  BY <1>1, AlwaysHeaded, PTL DEF WPSpec, RolesRememberedWhereGiven

-----------------------------------------------------------------------------
(* The parts side by side *)

\* Whatever tabs, checkout and pages do side by side, every variable of the
\* frontend keeps its type.
THEOREM BrowserTypesCorrect ==
  ASSUME Apart, OneIsAdmin, MaxChanges \in Nat
  PROVE  BrowserSpec => []TypesOK
BY ClientTypeCorrect, CheckoutTypeCorrect, PageTypeCorrect, PTL
   DEF BrowserSpec, TypesOK

=============================================================================
