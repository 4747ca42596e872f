---------------------------- MODULE Subscription ----------------------------
(***************************************************************************)
(* The paid plan of one organization: its row in Postgres, what Stripe     *)
(* knows, and the requests and webhook deliveries that carry the one to     *)
(* the other.                                                              *)
(*                                                                         *)
(* A checkout session and the subscription it turns into share a name.     *)
(* Stripe delivers every event at least once, in any order, and again      *)
(* after a failure.  Handlers run concurrently; each awaited call is a      *)
(* step.                                                                   *)
(***************************************************************************)
EXTENDS Integers, FiniteSets

CONSTANTS
  Sessions,   \* checkout sessions that may ever be created
  Plans,      \* SUBSCRIPTION_PLANS
  Handlers,   \* requests and webhook deliveries that may be in flight
  Switches,   \* may the customer switch plans in the portal?
  Renames,    \* may an administrator rename the organization?
  Deletes,    \* may the owner delete it?
  None

ASSUME SubscriptionAssumption ==
  /\ None \notin Sessions \cup Plans \cup Handlers
  /\ {Switches, Renames, Deletes} \subseteq BOOLEAN

VARIABLES
  row,        \* the organization's columns subscription and
              \* stripe_subscription_id, or None once it is deleted
  lock,       \* the deletion whose uncommitted DELETE holds the row, or None
  checkout,   \* Stripe: "none", "open" or "complete"
  bought,     \* Stripe: the plan in a session's metadata
  status,     \* Stripe: the status of the subscription, or None
  price,      \* Stripe: the plan its price stands for
  pending,    \* events not yet acknowledged
  delivered,  \* events acknowledged, which may still be delivered again
  job         \* what a handler is doing

vars == <<row, lock, checkout, bought, status, price, pending, delivered, job>>

stripeVars == <<checkout, bought, status, price>>

Row == [plan: Plans \cup {None}, sub: Sessions \cup {None}]

Event == [type: {"completed", "changed"}, sub: Sessions,
          status: {"active", "canceled"}, plan: Plans]

Events == pending \cup delivered

Columns == {"plan", "sub"}

\* What a request has read: the columns it will write, for a rename.
Job == [step: {"create", "set", "setAck", "reload", "save", "delete", "cancel",
               "commit"},
        sub: Sessions \cup {None}, plan: Plans \cup {None},
        write: SUBSET Columns]

ASSUME NoneAssumption == None \notin Row \cup Job \cup {"active", "canceled"}

Idle(h) == job[h] = None

Init ==
  /\ row = [plan |-> None, sub |-> None]
  /\ lock = None
  /\ checkout = [c \in Sessions |-> "none"]
  /\ bought = [c \in Sessions |-> None]
  /\ status = [c \in Sessions |-> None]
  /\ price = [c \in Sessions |-> None]
  /\ pending = {} /\ delivered = {}
  /\ job = [h \in Handlers |-> None]

Do(h, step, s, p) ==
  job' = [job EXCEPT ![h] = [step |-> step, sub |-> s, plan |-> p, write |-> {}]]

Done(h) == job' = [job EXCEPT ![h] = None]

\* GuardDBService.getOrgSubscription reads the plan outside any transaction.
getOrgSubscription == IF row = None THEN None ELSE row.plan

(***************************************************************************)
(* Stripe                                                                  *)
(***************************************************************************)
\* Mutant: the session carries no metadata.
BugCompleted(c) == [type |-> "completed", sub |-> c, status |-> "active",
                    plan |-> None]

Completed(c) == [type |-> "completed", sub |-> c, status |-> "active",
                 plan |-> bought[c]]

Changed(c, st, p) == [type |-> "changed", sub |-> c, status |-> st, plan |-> p]

\* The customer pays: the session completes and its subscription starts.
Pay(c) ==
  /\ checkout[c] = "open"
  /\ checkout' = [checkout EXCEPT ![c] = "complete"]
  /\ status' = [status EXCEPT ![c] = "active"]
  /\ price' = [price EXCEPT ![c] = bought[c]]
  /\ pending' = pending \cup {Completed(c)}
  /\ UNCHANGED <<row, lock, bought, delivered, job>>

\* A switch in the Customer Portal.
SwitchPlan(c, p) ==
  /\ Switches
  /\ status[c] = "active" /\ price[c] # p
  /\ price' = [price EXCEPT ![c] = p]
  /\ pending' = pending \cup {Changed(c, "active", p)}
  /\ UNCHANGED <<row, lock, checkout, bought, status, delivered, job>>

Cancel(c) ==
  /\ status' = [status EXCEPT ![c] = "canceled"]
  /\ pending' = pending \cup {Changed(c, "canceled", price[c])}

\* The customer cancels, or Stripe gives up on the card.
Lapse(c) ==
  /\ status[c] = "active"
  /\ Cancel(c)
  /\ UNCHANGED <<row, lock, checkout, bought, price, delivered, job>>

(***************************************************************************)
(* POST /payment/create-session                                            *)
(***************************************************************************)
CheckNoSubscription(h, p) ==
  /\ Idle(h)
  /\ row # None /\ getOrgSubscription = None
  /\ Do(h, "create", None, p)
  /\ UNCHANGED <<row, lock, stripeVars, pending, delivered>>

CreateSession(h) ==
  /\ ~Idle(h) /\ job[h].step = "create"
  /\ \E c \in Sessions :
       /\ checkout[c] = "none"
       /\ checkout' = [checkout EXCEPT ![c] = "open"]
       /\ bought' = [bought EXCEPT ![c] = job[h].plan]
  /\ Done(h)
  /\ UNCHANGED <<row, lock, status, price, pending, delivered>>

(***************************************************************************)
(* activateFromCheckoutSession, from the webhook or on behalf of a user    *)
(* who comes back from checkout                                            *)
(***************************************************************************)
\* Mutant: neither the session nor its subscription is looked at.
BugRetrieveActive(h, c, step) ==
  /\ Idle(h)
  /\ checkout[c] # "none"
  /\ Do(h, step, c, bought[c])

\* The session is complete and its subscription, retrieved live, active.
RetrieveActive(h, c, step) ==
  /\ Idle(h)
  /\ checkout[c] = "complete" /\ status[c] = "active"
  /\ Do(h, step, c, bought[c])

\* GET /organizations/subscription?sessionId: only while there is no plan.
Confirm(h, c) ==
  /\ getOrgSubscription = None
  /\ RetrieveActive(h, c, "set")
  /\ UNCHANGED <<row, lock, stripeVars, pending, delivered>>

\* The event stays pending: it is acknowledged when the handler is through.
CompletedArrives(h, e) ==
  /\ e.type = "completed"
  /\ RetrieveActive(h, e.sub, "setAck")
  /\ UNCHANGED <<row, lock, stripeVars, pending, delivered>>

\* Mutant: the event is acknowledged before the handler is through.
BugCompletedIgnored(e) ==
  /\ e.type = "completed"
  /\ pending' = pending \ {e}
  /\ delivered' = delivered \cup {e}
  /\ UNCHANGED <<row, lock, stripeVars, job>>

\* Nothing is active any more: acknowledged at once.
CompletedIgnored(e) ==
  /\ e.type = "completed" /\ status[e.sub] # "active"
  /\ pending' = pending \ {e}
  /\ delivered' = delivered \cup {e}
  /\ UNCHANGED <<row, lock, stripeVars, job>>

\* set_org_subscription waits for a deletion and then finds no row.
SetSubscription(h) ==
  /\ ~Idle(h) /\ job[h].step \in {"set", "setAck"} /\ lock = None
  /\ row' = IF row = None THEN None
            ELSE [plan |-> job[h].plan, sub |-> job[h].sub]
  /\ IF job[h].step = "setAck"
     THEN /\ pending' = pending \ {Completed(job[h].sub)}
          /\ delivered' = delivered \cup {Completed(job[h].sub)}
     ELSE UNCHANGED <<pending, delivered>>
  /\ Done(h)
  /\ UNCHANGED <<lock, stripeVars>>

(***************************************************************************)
(* handleSubscriptionChange                                                *)
(***************************************************************************)
\* Mutant: the plan is cleared whichever subscription the row holds.
BugHolds(s) == row # None /\ row.sub # None

\* The row the statements of the webhook find: the one holding the subscription.
Holds(s) == row # None /\ row.sub = s

\* clear_org_subscription and update_org_subscription_plan, driven by the state
\* of the subscription when the event was created, not by its present one.
ChangeArrives(e) ==
  /\ e.type = "changed"
  /\ lock = None
  /\ row' = IF ~Holds(e.sub) THEN row
            ELSE IF e.status = "canceled" THEN [plan |-> None, sub |-> None]
            ELSE [row EXCEPT !.plan = e.plan]
  /\ pending' = pending \ {e}
  /\ delivered' = delivered \cup {e}
  /\ UNCHANGED <<lock, stripeVars, job>>

(***************************************************************************)
(* PATCH /organizations                                                    *)
(***************************************************************************)
\* renameOrganization loads the whole row ...
RenameFind(h) ==
  /\ Renames /\ Idle(h) /\ row # None
  /\ Do(h, "reload", row.sub, row.plan)
  /\ UNCHANGED <<row, lock, stripeVars, pending, delivered>>

\* ... save loads it again, to find the columns that differ ...
RenameReload(h) ==
  /\ ~Idle(h) /\ job[h].step = "reload" /\ row # None
  /\ job' = [job EXCEPT ![h].step = "save",
                        ![h].write = {f \in Columns : job[h][f] # row[f]}]
  /\ UNCHANGED <<row, lock, stripeVars, pending, delivered>>

\* ... and writes these back, with the name.
RenameSave(h) ==
  /\ ~Idle(h) /\ job[h].step = "save" /\ lock = None
  /\ row' = IF row = None THEN None
            ELSE [plan |-> IF "plan" \in job[h].write THEN job[h].plan ELSE row.plan,
                  sub |-> IF "sub" \in job[h].write THEN job[h].sub ELSE row.sub]
  /\ Done(h)
  /\ UNCHANGED <<lock, stripeVars, pending, delivered>>

(***************************************************************************)
(* DELETE /organizations                                                   *)
(***************************************************************************)
DeleteFind(h) ==
  /\ Deletes /\ Idle(h) /\ row # None
  /\ Do(h, "delete", row.sub, None)
  /\ UNCHANGED <<row, lock, stripeVars, pending, delivered>>

\* The DELETE takes the row; a second deletion finds none when it has waited.
DeleteRow(h) ==
  /\ ~Idle(h) /\ job[h].step = "delete" /\ lock = None
  /\ IF row = None
     THEN Done(h) /\ UNCHANGED lock
     ELSE /\ Do(h, IF job[h].sub = None THEN "commit" ELSE "cancel",
                job[h].sub, None)
          /\ lock' = h
  /\ UNCHANGED <<row, stripeVars, pending, delivered>>

\* Mutant: a failure of Stripe is swallowed.
BugCancelSwallowed(h) ==
  /\ ~Idle(h) /\ job[h].step = "cancel"
  /\ \/ Cancel(job[h].sub)
     \/ UNCHANGED <<status, pending>>
  /\ Do(h, "commit", job[h].sub, None)
  /\ UNCHANGED <<row, lock, checkout, bought, price, delivered>>

\* cancelSubscription, inside the transaction, unless it has ended already.
CancelSubscription(h) ==
  /\ ~Idle(h) /\ job[h].step = "cancel"
  /\ IF status[job[h].sub] = "active" THEN Cancel(job[h].sub)
     ELSE UNCHANGED <<status, pending>>
  /\ Do(h, "commit", job[h].sub, None)
  /\ UNCHANGED <<row, lock, checkout, bought, price, delivered>>

DeleteCommit(h) ==
  /\ ~Idle(h) /\ job[h].step = "commit"
  /\ row' = None
  /\ lock' = None
  /\ Done(h)
  /\ UNCHANGED <<stripeVars, pending, delivered>>

\* Any handler may fail; a deletion that cannot cancel at Stripe is rolled back,
\* and one whose commit fails leaves the subscription cancelled.
Fail(h) ==
  /\ ~Idle(h)
  /\ Done(h)
  /\ lock' = IF lock = h THEN None ELSE lock
  /\ UNCHANGED <<row, stripeVars, pending, delivered>>

Next ==
  \/ \E c \in Sessions : Pay(c) \/ Lapse(c) \/ \E p \in Plans : SwitchPlan(c, p)
  \/ \E h \in Handlers :
       \/ \E p \in Plans : CheckNoSubscription(h, p)
       \/ CreateSession(h)
       \/ \E c \in Sessions : Confirm(h, c)
       \/ \E e \in Events : CompletedArrives(h, e)
       \/ SetSubscription(h)
       \/ RenameFind(h) \/ RenameReload(h) \/ RenameSave(h)
       \/ DeleteFind(h) \/ DeleteRow(h) \/ CancelSubscription(h)
       \/ DeleteCommit(h) \/ Fail(h)
  \/ \E e \in Events : CompletedIgnored(e) \/ ChangeArrives(e)

Spec == Init /\ [][Next]_vars

\* A handler goes on or fails; Stripe delivers again what was not acknowledged;
\* and neither do all deliveries of an event fail nor all deletions.
Fairness ==
  \A h \in Handlers :
    /\ WF_vars(SetSubscription(h) \/ CreateSession(h) \/ RenameReload(h)
                \/ RenameSave(h) \/ Fail(h))
    /\ SF_vars(SetSubscription(h) /\ job[h].step = "setAck")
    /\ SF_vars(DeleteRow(h)) /\ SF_vars(CancelSubscription(h)) /\ SF_vars(DeleteCommit(h))
    /\ \A c \in Sessions, p \in Plans :
         LET e == [type |-> "completed", sub |-> c, status |-> "active", plan |-> p]
         IN  SF_vars(e \in pending /\ CompletedArrives(h, e))

FairSpec == Spec /\ Fairness

(***************************************************************************)
(* Properties                                                              *)
(***************************************************************************)
TypeOK ==
  /\ row \in Row \cup {None}
  /\ lock \in Handlers \cup {None}
  /\ checkout \in [Sessions -> {"none", "open", "complete"}]
  /\ bought \in [Sessions -> Plans \cup {None}]
  /\ status \in [Sessions -> {"active", "canceled", None}]
  /\ price \in [Sessions -> Plans \cup {None}]
  /\ pending \subseteq Event /\ delivered \subseteq Event
  /\ job \in [Handlers -> Job \cup {None}]

\* Access is withdrawn only from a subscription that has ended: no late,
\* repeated or reordered event about another one takes it away.
OnlyEndedLoseAccess ==
  [][(row # None /\ row.sub # None /\ row' # None /\ row'.sub = None)
     => status[row.sub] = "canceled"]_vars

\* A plan is held through a subscription of the organization, which was paid for
\* and has at some time been at the price of that plan.
PlanWasPaid ==
  row # None /\ row.plan # None =>
    /\ row.sub # None /\ checkout[row.sub] = "complete"
    /\ \/ row.plan = bought[row.sub]
       \/ Changed(row.sub, "active", row.plan) \in Events

\* Whoever has paid gets a plan, even if they never come back from checkout and
\* deliveries of the webhook fail, unless the subscription ends or the
\* organization is deleted first.
PaidIsActivated ==
  \A c \in Sessions :
    Completed(c) \in pending ~>
      status[c] # "active" \/ row = None \/ getOrgSubscription # None

\* A committed deletion has cancelled the subscription it found, and the
\* deletion of one that could not be cancelled has been rolled back.
DeletionCancels ==
  [][(row # None /\ row' = None) =>
       \A h \in Handlers : (lock = h /\ job[h].sub # None)
         => status[job[h].sub] = "canceled"]_vars

\* subscription.service.ts:85: "A paid session isn't enough: the subscription may
\* have ended since": a plan is not held through an ended subscription, unless
\* the news of its end is still to come.
EndedLosesPlan ==
  (row # None /\ row.sub # None /\ status[row.sub] = "canceled") =>
    \E e \in pending : e.sub = row.sub /\ e.status = "canceled"

=============================================================================
