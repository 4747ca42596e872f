----------------------------- MODULE MCAnswers -----------------------------
(***************************************************************************)
(* Whoever asks is answered: four parts of the system that share no state, *)
(* checked next to each other.  A behavior belongs to one of them, and the *)
(* variables of the others keep their initial values.  Each part has the   *)
(* fairness its own module argues for.                                     *)
(***************************************************************************)
EXTENDS ConnectionPool

CONSTANTS u1, u2, k1, k2, k3, k4, r1, r2, c1, c2, s1, tab, None, NoToken, NoRequest

VARIABLES part

VARIABLES now, redisUp, revokedAt, cut, member, removal, doomed, rows, issued,
          access, pc, who, snap

S == INSTANCE Session WITH
       Users <- {u1}, Tokens <- {k1, k2}, Requests <- {r1, r2},
       JwtTtl <- 2, RefreshTtl <- 2, Grace <- 1, MaxTime <- 2, Outages <- TRUE

sessionVars == <<now, redisUp, revokedAt, cut, member, removal, doomed, rows,
                 issued, access, pc, who, snap>>

VARIABLES jar, token, call, refreshing, logout, signedIn, logins, ended, raced

\* One tab, and three of its calls that wait for the same renewals.
B == INSTANCE Client WITH
       Tabs <- {tab}, Calls <- {c1, c2}, Tokens <- {k1, k2, k3, k4}, MaxLogins <- 1

clientVars == <<jar, token, call, refreshing, logout, signedIn, logins, ended, raced>>

VARIABLES user, page, url, pending, last, loads, view, plan, paid, owner

C == INSTANCE Checkout WITH
       Users <- {u1, u2}, Checkouts <- {s1}, PollAttempts <- 3,
       ErrorAttempts <- 2, MaxLate <- 0, Null <- None

checkoutVars == <<user, page, url, pending, last, loads, view, plan, paid, owner>>

vars == <<part, cpVars, sessionVars, clientVars, checkoutVars>>

Init ==
  /\ part \in {"pool", "session", "client", "checkout"}
  /\ CPInit /\ S!Init /\ B!CLInit /\ C!COInit

Next ==
  /\ UNCHANGED part
  /\ \/ part = "pool" /\ CPNext /\ UNCHANGED <<sessionVars, clientVars, checkoutVars>>
     \/ part = "session" /\ S!Next /\ UNCHANGED <<cpVars, clientVars, checkoutVars>>
     \/ part = "client" /\ B!CLNext /\ UNCHANGED <<cpVars, sessionVars, checkoutVars>>
     \/ part = "checkout" /\ C!CONext /\ UNCHANGED <<cpVars, sessionVars, clientVars>>

Fairness ==
  /\ WF_cpVars(part = "pool" /\ Grant)
  /\ \A r \in Clients : WF_cpVars(part = "pool" /\ Work(r))
  /\ \A r \in {r1, r2} : SF_sessionVars(part = "session" /\ S!RefreshStep(r))
  /\ WF_sessionVars(part = "session" /\ S!RemovalStep(u1))
  /\ WF_clientVars(part = "client" /\ B!RefreshEnds(tab))
  /\ \A c \in B!Slots : WF_clientVars(part = "client" /\ B!RepeatAnswered(tab, c))
  /\ WF_checkoutVars(part = "checkout" /\ C!Going)

Spec == Init /\ [][Next]_vars /\ Fairness

\* Every refresh is answered, even when it has to wait for a removal.
RefreshAnswered == S!RefreshAnswered

\* Every call of a page is answered or fails, however often it has to be renewed.
CallsAnswered == B!CallsAnswered

\* The polling of the subscription provider ends.
LoadingEnds == C!LoadingEnds

=============================================================================
