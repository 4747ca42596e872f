----------------------------- MODULE Checkout -----------------------------
(***************************************************************************)
(* What a tab shows of the subscription: SubscriptionProvider, which asks  *)
(* for the plan when somebody signs in and keeps asking after a checkout,  *)
(* and the pages that mark, clear and confirm the checkout session.        *)
(*                                                                         *)
(* A request is answered for whoever was signed in when it was sent, and   *)
(* its answer arrives later, or an error does.  An effect that is cleaned  *)
(* up cannot take its request back: it ignores the answer.  How a plan is  *)
(* activated inside the server is the subject of Subscription.             *)
(***************************************************************************)
EXTENDS Naturals, FiniteSets

CONSTANTS
  Users,         \* users of this tab, each of an organization of its own
  Checkouts,     \* checkout sessions
  PollAttempts,  \* CHECKOUT_POLL_ATTEMPTS
  ErrorAttempts, \* ERROR_RETRY_ATTEMPTS
  MaxLate,       \* bound on the cancelled requests that may be under way
  Null           \* not among the values it stands beside

VARIABLES
  user,     \* who is signed in
  page,     \* the page, as far as it matters here
  url,      \* the session_id of the address of the page
  pending,  \* checkoutPending in sessionStorage
  last,     \* lastSessionIdRef
  loads,    \* the requests and timers of the effect, the cancelled ones too
  view,     \* the state of the provider, and whose it is
  plan,     \* does the organization of a user have a plan?
  paid,     \* the state of a checkout session at Stripe
  owner     \* who began it

coVars == <<user, page, url, pending, last, loads, view, plan, paid, owner>>

Session == Checkouts \cup {Null}

Attempt == [user: Users, session: Session, poll: Nat, cancelled: BOOLEAN,
         step: {"request", "timer", "plan", "no plan", "error"}]

View == [plan: BOOLEAN, loaded: BOOLEAN, failed: BOOLEAN, of: Users \cup {Null}]

Nothing == [plan |-> FALSE, loaded |-> FALSE, failed |-> FALSE, of |-> Null]

atServer == <<plan, paid, owner>>

COInit ==
  /\ user = Null /\ page = "other" /\ url = Null
  /\ pending = Null /\ last = Null
  /\ loads = {} /\ view = Nothing
  /\ plan = [u \in Users |-> FALSE]
  /\ paid = [s \in Checkouts |-> "none"]
  /\ owner = [s \in Checkouts |-> Null]

(***************************************************************************)
(* The effect of SubscriptionProvider                                      *)
(***************************************************************************)
\* Mutant: without the ref a session is forgotten when polling gives up.
BugSessionId(marked, kept) == marked

\* getPendingCheckoutSessionId() ?? lastSessionIdRef.current
SessionId(marked, kept) == IF marked # Null THEN marked ELSE kept

NewAttempt(u, marked, kept, poll) ==
  [user |-> u, session |-> SessionId(marked, kept), poll |-> poll,
   cancelled |-> FALSE, step |-> "request"]

\* Mutant: the cleanup forgets about requests that are under way.
BugCancelled(l) == l

\* Nobody counts the polls of a request that is cancelled.
Cancelled(l) == [l EXCEPT !.cancelled = TRUE, !.poll = 0]

\* Mutant: the timer is not cleared.
BugCleanup == {Cancelled(l) : l \in loads}

\* The cleanup: timers stop, and answers will be ignored.
Cleanup == {Cancelled(l) : l \in {k \in loads : k.step # "timer"}}

CleanupAllowed == Cardinality(Cleanup) <= MaxLate

\* The effect runs with u signed in and a session marked: load(1).
EffectRuns(u, marked, kept, left) ==
  /\ loads' = left \cup {NewAttempt(u, marked, kept, 1)}
  /\ last' = SessionId(marked, kept)

MaxAttempts(l) == IF l.session # Null THEN PollAttempts ELSE ErrorAttempts

ShouldRetry(l) == l.step # "plan" /\ (l.session # Null \/ l.step = "error")

\* The answer arrives.
Arrive(l) ==
  /\ l \in loads /\ l.step \in {"plan", "no plan", "error"}
  /\ \/ /\ l.cancelled
        /\ loads' = loads \ {l}
        /\ UNCHANGED <<page, url, pending, last, view>>
     \/ /\ ~l.cancelled /\ ShouldRetry(l) /\ l.poll < MaxAttempts(l)
        /\ loads' = (loads \ {l}) \cup {[l EXCEPT !.step = "timer"]}
        /\ UNCHANGED <<page, url, pending, last, view>>
     \/ /\ ~l.cancelled /\ ~(ShouldRetry(l) /\ l.poll < MaxAttempts(l))
        /\ loads' = loads \ {l}
        /\ pending' = Null
        /\ last' = IF l.step = "plan" THEN Null ELSE last
        /\ view' = [plan |-> l.step = "plan", loaded |-> TRUE,
                    failed |-> l.step = "error", of |-> l.user]
        /\ IF l.step = "plan" /\ page = "success"
           THEN page' = "other" /\ url' = Null ELSE UNCHANGED <<page, url>>
  /\ UNCHANGED <<user, atServer>>

\* Mutant: load() is called without the number of the attempt.
BugNextAttempt(l) == 1

NextAttempt(l) == l.poll + 1

\* The two seconds are over.
TimerFires(l) ==
  /\ l \in loads /\ l.step = "timer"
  /\ loads' = (loads \ {l}) \cup {NewAttempt(l.user, pending, last, NextAttempt(l))}
  /\ last' = SessionId(pending, last)
  /\ UNCHANGED <<user, page, url, pending, view, atServer>>

(***************************************************************************)
(* What the user does                                                      *)
(***************************************************************************)
SignIn(u) ==
  /\ user = Null
  /\ user' = u /\ page' = "other" /\ url' = Null
  /\ EffectRuns(u, pending, last, loads)
  /\ UNCHANGED <<pending, view, atServer>>

SignOut ==
  /\ user # Null /\ CleanupAllowed
  /\ user' = Null /\ page' = "other" /\ url' = Null
  /\ loads' = Cleanup
  /\ UNCHANGED <<pending, last, view, atServer>>

\* Subscribe is opened, perhaps after a cancelled checkout.
OpenSubscribe ==
  /\ user # Null
  /\ page' = "subscribe" /\ url' = Null
  /\ pending' = Null
  /\ UNCHANGED <<user, last, loads, view, atServer>>

\* POST /checkout/create-session is answered, and the browser begins to leave.
CreateSession(s) ==
  /\ user # Null /\ page = "subscribe"
  /\ paid[s] = "none" /\ ~plan[user]
  /\ paid' = [paid EXCEPT ![s] = "open"]
  /\ owner' = [owner EXCEPT ![s] = user]
  /\ pending' = s
  /\ UNCHANGED <<user, page, url, last, loads, view, plan>>

\* Mutant: the effect of the provider runs before that of its child.
BugMarked(s) == pending

\* Child effects run before the provider's.
Marked(s) == s

\* The page is loaded by somebody who is signed in: on the return from Stripe,
\* when CheckoutSuccess marks the session of its address first, or anywhere else.
PageLoads(s) ==
  /\ user # Null
  /\ view' = Nothing
  /\ IF s # Null
     THEN /\ page' = "success" /\ url' = s
          /\ paid[s] # "none" /\ owner[s] = user
          /\ pending' = s
          /\ EffectRuns(user, Marked(s), Null, {})
     ELSE /\ page' = "other" /\ url' = Null
          /\ UNCHANGED pending
          /\ EffectRuns(user, pending, Null, {})
  /\ UNCHANGED <<user, atServer>>

\* "Check again", which CheckoutSuccess offers when polling has given up.
checkAgain ==
  /\ page = "success" /\ view.loaded /\ ~view.plan /\ CleanupAllowed
  /\ view' = [view EXCEPT !.loaded = FALSE]
  /\ EffectRuns(user, pending, last, Cleanup)
  /\ UNCHANGED <<user, page, url, pending, atServer>>

\* An hour has passed since the session was marked.
PendingExpires ==
  /\ pending # Null
  /\ pending' = Null
  /\ UNCHANGED <<user, page, url, last, loads, view, atServer>>

(***************************************************************************)
(* The server and Stripe                                                   *)
(***************************************************************************)
\* GET /organizations/subscription: the plan, or else the session is confirmed.
\* One of another organization is refused.
Answer(l) ==
  IF plan[l.user] THEN "plan"
  ELSE IF l.session = Null THEN "no plan"
  ELSE IF owner[l.session] # l.user THEN "error"
  ELSE IF paid[l.session] = "active" THEN "plan" ELSE "no plan"

getSubscription(l) ==
  /\ l \in loads /\ l.step = "request"
  /\ loads' = (loads \ {l}) \cup {[l EXCEPT !.step = Answer(l)]}
  /\ plan' = [plan EXCEPT ![l.user] = Answer(l) = "plan"]
  /\ UNCHANGED <<user, page, url, pending, last, view, paid, owner>>

\* The request fails, on its way or in the server.
RequestFails(l) ==
  /\ l \in loads /\ l.step = "request"
  /\ loads' = (loads \ {l}) \cup {[l EXCEPT !.step = "error"]}
  /\ UNCHANGED <<user, page, url, pending, last, view, atServer>>

Pay(s) ==
  /\ paid[s] = "open"
  /\ paid' = [paid EXCEPT ![s] = "active"]
  /\ UNCHANGED <<user, page, url, pending, last, loads, view, plan, owner>>

\* The webhook activates the plan, or the subscription has ended.
Webhook(s) ==
  /\ paid[s] = "active"
  /\ \/ plan' = [plan EXCEPT ![owner[s]] = TRUE] /\ UNCHANGED paid
     \/ /\ plan' = [plan EXCEPT ![owner[s]] = FALSE]
        /\ paid' = [paid EXCEPT ![s] = "ended"]
  /\ UNCHANGED <<user, page, url, pending, last, loads, view, owner>>

CONext ==
  \/ \E l \in loads : Arrive(l) \/ TimerFires(l) \/ getSubscription(l) \/ RequestFails(l)
  \/ \E u \in Users : SignIn(u)
  \/ \E s \in Checkouts : CreateSession(s) \/ Pay(s) \/ Webhook(s)
  \/ \E s \in Session : PageLoads(s)
  \/ SignOut \/ OpenSubscribe \/ checkAgain \/ PendingExpires

COSpec == COInit /\ [][CONext]_coVars

\* Requests end and timers fire.
Going == \E l \in loads : Arrive(l) \/ TimerFires(l) \/ getSubscription(l)

(***************************************************************************)
(* Properties                                                              *)
(***************************************************************************)
\* The variables have their types, one request or timer belongs to whoever is
\* signed in, and a timer never outlives its effect.
COTypeOK ==
  /\ user \in Users \cup {Null}
  /\ page \in {"other", "subscribe", "success"}
  /\ url \in Session /\ pending \in Session /\ last \in Session
  /\ loads \subseteq Attempt
  /\ \A l, m \in loads : ~l.cancelled /\ ~m.cancelled => l = m /\ l.user = user
  /\ \A l \in loads : l.step = "timer" => ~l.cancelled
  /\ view \in View
  /\ plan \in [Users -> BOOLEAN]
  /\ paid \in [Checkouts -> {"none", "open", "active", "ended"}]
  /\ owner \in [Checkouts -> Users \cup {Null}]

Current(l) == ~l.cancelled /\ l.user = user

\* A plan, or the lack of one, that belongs to somebody else is on the screen
\* only until the request for the present user, which is under way, ends; no late
\* answer of a former user brings it back.
ViewCatchesUp ==
  user # Null /\ view.loaded /\ view.of # user => \E l \in loads : Current(l)

\* Whoever returns from Stripe asks for the plan with the session of the address,
\* on the first request, on every retry, after giving up and although the marker
\* expires: the purchase is confirmed without the webhook.
SuccessPageAsksForSession ==
  page = "success" => \A l \in loads : Current(l) => l.session = url

\* The spinner goes away: the polling of the provider ends, whatever the server
\* answers, unless the user keeps loading the page anew.
LoadingEnds ==
  \/ []<><<\E s \in Session : PageLoads(s)>>_coVars
  \/ (user # Null /\ ~view.loaded) ~> (user = Null \/ view.loaded)

=============================================================================
