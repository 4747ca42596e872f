------------------------- MODULE SubscriptionProofs -------------------------
(***************************************************************************)
(* What holds of Subscription for every number of checkout sessions, plans *)
(* and concurrent handlers: whatever order Stripe's events arrive in, and   *)
(* however often.                                                          *)
(***************************************************************************)
EXTENDS Subscription, TLAPS

-----------------------------------------------------------------------------
(* Type correctness *)

\* What Stripe knows of a session grows with it.
StripeOK ==
  /\ \A c \in Sessions : checkout[c] # "none" => bought[c] \in Plans
  /\ \A c \in Sessions : checkout[c] = "complete"
       => status[c] \in {"active", "canceled"} /\ price[c] \in Plans
  /\ \A c \in Sessions : checkout[c] # "complete" => status[c] = None

\* An event was true of its subscription when Stripe created it.
EventsOK ==
  \A e \in Events :
    /\ checkout[e.sub] = "complete"
    /\ e.type = "completed" => e.plan = bought[e.sub] /\ e.status = "active"
    /\ e.status = "canceled" => status[e.sub] = "canceled"

\* A handler holds what it has read, and a deletion the row.
JobOK(h) ==
  LET j == job[h] IN
    /\ j.step \in {"set", "setAck", "cancel"} => j.sub \in Sessions
    /\ j.step \in {"create", "set", "setAck"} => j.plan \in Plans
    /\ j.sub # None => checkout[j.sub] = "complete"
    /\ j.step \in {"set", "setAck"} => j.plan = bought[j.sub]
    /\ j.step \in {"cancel", "commit"} => lock = h
    /\ j.step = "commit" /\ j.sub # None => status[j.sub] = "canceled"

JobsOK == \A h \in Handlers : ~Idle(h) => JobOK(h)

\* The subscription of the row has been paid for.
RowOK == row # None /\ row.sub # None => checkout[row.sub] = "complete"

Inv == TypeOK /\ StripeOK /\ EventsOK /\ JobsOK /\ RowOK

LEMMA InvInit == Init => Inv
BY NoneAssumption
   DEF Init, Inv, TypeOK, StripeOK, EventsOK, JobsOK, RowOK, Row, Events, Idle

\* The steps of Stripe itself.
LEMMA StripeStep ==
  ASSUME Inv, NEW c \in Sessions,
         Pay(c) \/ Lapse(c) \/ \E p \in Plans : SwitchPlan(c, p)
  PROVE  Inv'
<1> USE SubscriptionAssumption, NoneAssumption DEF Inv, Completed, Changed, Cancel, Idle
<1>1. bought[c] \in Plans \/ checkout[c] = "none"
  BY DEF StripeOK
<1>2. status[c] = "active" => checkout[c] = "complete" /\ price[c] \in Plans
  BY DEF StripeOK
<1>3. TypeOK'
  BY <1>1, <1>2 DEF TypeOK, Pay, Lapse, SwitchPlan, Event
<1>4. StripeOK'
  BY <1>1, <1>2 DEF TypeOK, StripeOK, Pay, Lapse, SwitchPlan
<1>5. EventsOK'
  BY <1>1, <1>2 DEF TypeOK, EventsOK, Events, Event, Pay, Lapse, SwitchPlan
<1>6. JobsOK'
  BY DEF TypeOK, JobsOK, JobOK, Job, Pay, Lapse, SwitchPlan
<1>7. RowOK'
  BY DEF TypeOK, RowOK, Row, Pay, Lapse, SwitchPlan
<1> QED
  BY <1>3, <1>4, <1>5, <1>6, <1>7

\* A handler that begins or goes on without writing anything of Stripe or of
\* the row, events only changing hands.
LEMMA QuietStep ==
  ASSUME Inv, NEW h \in Handlers,
         UNCHANGED <<row, lock, stripeVars>>,
         Events' \subseteq Events, pending' \subseteq Event, delivered' \subseteq Event,
         \/ UNCHANGED job
         \/ Done(h)
         \/ \E j \in Job : job' = [job EXCEPT ![h] = j] /\ JobOK(h)'
  PROVE  Inv'
<1> USE DEF Inv, stripeVars, Idle, Done
<1>1. TypeOK'
  BY DEF TypeOK
<1>2. StripeOK' /\ RowOK'
  BY DEF StripeOK, RowOK
<1>3. EventsOK'
  BY DEF EventsOK
<1>4. JobsOK'
  BY DEF JobsOK, JobOK, TypeOK
<1> QED
  BY <1>1, <1>2, <1>3, <1>4

LEMMA HandlerBegins ==
  ASSUME Inv, NEW h \in Handlers,
         \/ \E p \in Plans : CheckNoSubscription(h, p)
         \/ \E c \in Sessions : Confirm(h, c)
         \/ \E e \in Events : CompletedArrives(h, e)
         \/ RenameFind(h) \/ RenameReload(h) \/ DeleteFind(h)
  PROVE  Inv'
<1> USE SubscriptionAssumption DEF Inv
<1>1. UNCHANGED <<row, lock, stripeVars, pending, delivered>>
  BY DEF CheckNoSubscription, Confirm, CompletedArrives, RenameFind,
         RenameReload, DeleteFind
<1>2. Events \subseteq Event
  BY DEF TypeOK, Events
<1>3. \E j \in Job : job' = [job EXCEPT ![h] = j] /\ JobOK(h)'
  <2>1. CASE \E p \in Plans : CheckNoSubscription(h, p)
    <3>1. PICK p \in Plans : CheckNoSubscription(h, p)
      BY <2>1
    <3> DEFINE j == [step |-> "create", sub |-> None, plan |-> p, write |-> {}]
    <3>2. j \in Job /\ job' = [job EXCEPT ![h] = j]
      BY <3>1 DEF CheckNoSubscription, Do, Job
    <3>3. JobOK(h)'
      BY <3>2 DEF JobOK, TypeOK
    <3> QED
      BY <3>2, <3>3
  <2>2. ASSUME NEW d \in Sessions, NEW step \in {"set", "setAck"},
               RetrieveActive(h, d, step)
        PROVE  \E j \in Job : job' = [job EXCEPT ![h] = j] /\ JobOK(h)'
    BY <1>1, <2>2 DEF RetrieveActive, Do, Job, JobOK, TypeOK, StripeOK, stripeVars
  <2>3. CASE \/ \E c \in Sessions : Confirm(h, c)
             \/ \E e \in Events : CompletedArrives(h, e)
    BY <1>2, <2>2, <2>3 DEF Confirm, CompletedArrives, Event
  <2>4. CASE RenameFind(h) \/ DeleteFind(h)
    BY <1>1, <2>4
       DEF RenameFind, DeleteFind, Do, Job, JobOK, TypeOK, Row, RowOK, stripeVars
  <2>5. CASE RenameReload(h)
    <3>1. job[h] \in Job /\ JobOK(h) /\ job[h].step = "reload"
      BY <2>5 DEF RenameReload, TypeOK, JobsOK, Idle
    <3>2. PICK w \in SUBSET Columns :
            job' = [job EXCEPT ![h] = [job[h] EXCEPT !.step = "save", !.write = w]]
      BY <2>5, <3>1 DEF RenameReload, TypeOK, Job
    <3>3. [job[h] EXCEPT !.step = "save", !.write = w] \in Job
      BY <3>1 DEF Job
    <3> QED
      BY <1>1, <3>1, <3>2, <3>3 DEF JobOK, Job, TypeOK, stripeVars
  <2> QED
    BY <2>1, <2>3, <2>4, <2>5
<1> QED
  BY <1>1, <1>3, QuietStep DEF TypeOK, Events

\* An event that reports a change of the subscription.
LEMMA ChangeStep ==
  ASSUME Inv, NEW e \in Events, ChangeArrives(e) PROVE Inv'
<1> USE SubscriptionAssumption DEF Inv, stripeVars, Idle, ChangeArrives
<1>1. e \in Event
  BY DEF TypeOK, Events
<1>2. row' \in Row \cup {None}
  BY <1>1 DEF TypeOK, Row, Event, Holds
<1>3. RowOK'
  BY <1>1 DEF TypeOK, RowOK, Row, Event, Holds
<1>4. TypeOK' /\ EventsOK'
  BY <1>2 DEF TypeOK, Events, EventsOK
<1> QED
  BY <1>3, <1>4 DEF StripeOK, JobsOK, JobOK

\* The handlers that write the row.
LEMMA RowStep ==
  ASSUME Inv, NEW h \in Handlers, SetSubscription(h) \/ RenameSave(h)
  PROVE  Inv'
<1> USE SubscriptionAssumption DEF Inv, stripeVars, Idle, Done
<1>1. job[h] \in Job /\ JobOK(h)
  BY DEF SetSubscription, RenameSave, TypeOK, JobsOK
<1>2. /\ job[h].plan \in Plans \cup {None} /\ job[h].sub \in Sessions \cup {None}
      /\ job[h].sub # None => checkout[job[h].sub] = "complete"
  BY <1>1 DEF Job, JobOK
<1>3. PICK p \in Plans \cup {None}, s \in Sessions \cup {None} :
        /\ row' \in {None, [plan |-> p, sub |-> s]}
        /\ s # None => checkout[s] = "complete"
  <2>1. row # None => /\ row.plan \in Plans \cup {None}
                      /\ row.sub \in Sessions \cup {None}
                      /\ row.sub # None => checkout[row.sub] = "complete"
    BY DEF TypeOK, Row, RowOK
  <2> QED
    BY <1>2, <2>1 DEF SetSubscription, RenameSave
<1>4. row' \in Row \cup {None} /\ RowOK'
  <2>1. UNCHANGED checkout
    BY DEF SetSubscription, RenameSave
  <2> QED
    BY <1>3, <2>1 DEF Row, RowOK
<1>5. pending' \subseteq Event /\ delivered' \subseteq Event /\ EventsOK'
  <2>1. CASE SetSubscription(h)
    BY <1>1, <2>1
       DEF SetSubscription, TypeOK, Event, Events, EventsOK, Job, JobOK, Completed,
           StripeOK
  <2>2. CASE RenameSave(h)
    BY <2>2 DEF RenameSave, TypeOK, Events, EventsOK
  <2> QED
    BY <2>1, <2>2
<1>6. job' \in [Handlers -> Job \cup {None}] /\ JobsOK'
  BY DEF SetSubscription, RenameSave, TypeOK, JobsOK, JobOK
<1>7. StripeOK' /\ UNCHANGED <<lock, checkout, bought, status, price>>
  BY DEF SetSubscription, RenameSave, StripeOK
<1> QED
  BY <1>4, <1>5, <1>6, <1>7 DEF TypeOK

\* The steps of a deletion, and the failure of any handler.
LEMMA DeletionStep ==
  ASSUME Inv, NEW h \in Handlers,
         DeleteRow(h) \/ CancelSubscription(h) \/ DeleteCommit(h) \/ Fail(h)
  PROVE  Inv'
<1> USE SubscriptionAssumption, NoneAssumption DEF Inv, stripeVars, Idle, Done
<1>1. job[h] \in Job /\ JobOK(h)
  BY DEF DeleteRow, CancelSubscription, DeleteCommit, Fail, TypeOK, JobsOK
<1>2. CASE DeleteRow(h)
  <2>1. TypeOK'
    BY <1>1, <1>2 DEF DeleteRow, Do, TypeOK, Job
  <2>2. JobsOK'
    BY <1>1, <1>2 DEF DeleteRow, Do, TypeOK, Job, JobsOK, JobOK
  <2> QED
    BY <1>2, <2>1, <2>2 DEF DeleteRow, StripeOK, EventsOK, Events, RowOK
<1>3. CASE CancelSubscription(h)
  <2>1. job[h].sub \in Sessions /\ checkout[job[h].sub] = "complete"
    BY <1>1, <1>3 DEF CancelSubscription, JobOK
  <2>2. status[job[h].sub] \in {"active", "canceled"} /\ price[job[h].sub] \in Plans
    BY <2>1 DEF StripeOK
  <2>3. TypeOK'
    BY <1>1, <1>3, <2>1, <2>2
       DEF CancelSubscription, Cancel, Changed, Do, TypeOK, Job, Event
  <2>4. StripeOK' /\ RowOK'
    BY <1>3, <2>1 DEF CancelSubscription, Cancel, TypeOK, StripeOK, RowOK, Row
  <2>5. EventsOK'
    BY <1>3, <2>1 DEF CancelSubscription, Cancel, Changed, TypeOK, EventsOK,
                      Events, Event
  <2>6. JobsOK'
    BY <1>1, <1>3, <2>1, <2>2
       DEF CancelSubscription, Cancel, Do, TypeOK, Job, JobsOK, JobOK
  <2> QED
    BY <2>3, <2>4, <2>5, <2>6
<1>4. CASE DeleteCommit(h) \/ Fail(h)
  <2>1. lock' = None \/ (lock' = lock /\ lock # h)
    BY <1>4 DEF DeleteCommit, Fail
  <2>2. \A g \in Handlers : g # h /\ ~Idle(g) /\ job[g].step \in {"cancel", "commit"}
          => lock = g /\ lock # None
    BY DEF JobsOK, JobOK
  <2>3. JobsOK'
    BY <1>1, <1>4, <2>2 DEF DeleteCommit, Fail, TypeOK, JobsOK, JobOK
  <2> QED
    BY <1>4, <2>3 DEF DeleteCommit, Fail, TypeOK, StripeOK, EventsOK, Events, RowOK
<1> QED
  BY <1>2, <1>3, <1>4

\* A new checkout session is nobody's yet.
LEMMA CreateStep ==
  ASSUME Inv, NEW h \in Handlers, CreateSession(h) PROVE Inv'
<1> USE SubscriptionAssumption DEF Inv, Idle, Done
<1>1. job[h] \in Job /\ JobOK(h) /\ job[h].step = "create"
  BY DEF CreateSession, TypeOK, JobsOK
<1>2. job[h].plan \in Plans
  BY <1>1 DEF JobOK
<1>3. PICK c \in Sessions :
        /\ checkout[c] = "none"
        /\ checkout' = [checkout EXCEPT ![c] = "open"]
        /\ bought' = [bought EXCEPT ![c] = job[h].plan]
  BY DEF CreateSession
<1>4. TypeOK' /\ StripeOK'
  BY <1>2, <1>3 DEF CreateSession, TypeOK, StripeOK
<1>5. EventsOK'
  BY <1>3 DEF CreateSession, TypeOK, EventsOK, Events, Event
<1>6. JobsOK' /\ RowOK'
  BY <1>3 DEF CreateSession, TypeOK, JobsOK, JobOK, Job, RowOK, Row
<1> QED
  BY <1>4, <1>5, <1>6

LEMMA InvNext == Inv /\ [Next]_vars => Inv'
<1> SUFFICES ASSUME Inv, [Next]_vars PROVE Inv'
  OBVIOUS
<1>1. CASE UNCHANGED vars
  BY <1>1 DEF vars, stripeVars, Inv, TypeOK, StripeOK, EventsOK, Events, JobsOK,
              JobOK, Idle, RowOK
<1>2. ASSUME NEW e \in Events, CompletedIgnored(e) PROVE Inv'
  BY <1>2 DEF CompletedIgnored, Inv, TypeOK, StripeOK, stripeVars, EventsOK,
              Events, JobsOK, JobOK, Idle, RowOK
<1> QED
  BY <1>1, <1>2, StripeStep, HandlerBegins, RowStep, ChangeStep, DeletionStep,
     CreateStep
  DEF Next

\* In every reachable state the variables have their types.
THEOREM TypeCorrect == Spec => []TypeOK
<1>1. Inv => TypeOK
  BY DEF Inv
<1> QED
  BY <1>1, InvInit, InvNext, PTL DEF Spec

LEMMA InvInvariant == Spec => []Inv
BY InvInit, InvNext, PTL DEF Spec

-----------------------------------------------------------------------------
(* Deletion *)

\* A committed deletion has cancelled the subscription it found at Stripe,
\* renames and every other handler notwithstanding.
THEOREM DeletionCancelled == Spec => DeletionCancels
<1>1. Inv /\ [Next]_vars =>
        [(row # None /\ row' = None) =>
           \A h \in Handlers : (lock = h /\ job[h].sub # None)
             => status[job[h].sub] = "canceled"]_vars
  <2> SUFFICES ASSUME Inv, Next, row # None, row' = None, NEW h \in Handlers,
                      lock = h, job[h].sub # None
               PROVE  status[job[h].sub] = "canceled"
    BY DEF vars
  <2>1. PICK g \in Handlers : DeleteCommit(g)
    <3>1. \A j \in Job \cup {None} : j # None =>
            j.plan \in Plans \cup {None} /\ j.sub \in Sessions \cup {None}
      BY DEF Job
    <3>2. \A p \in Plans \cup {None}, s \in Sessions \cup {None} :
            [plan |-> p, sub |-> s] # None
      BY NoneAssumption DEF Row
    <3>3. \A g \in Handlers : ~SetSubscription(g) /\ ~RenameSave(g)
      BY <3>1, <3>2 DEF SetSubscription, RenameSave, Inv, TypeOK, Row, Idle
    <3>4. \A e \in Events : ~ChangeArrives(e)
      <4> SUFFICES ASSUME NEW e \in Events, ChangeArrives(e) PROVE FALSE
        OBVIOUS
      <4>1. row' \in Row
        BY DEF ChangeArrives, Inv, TypeOK, Row, Events, Event, Holds
      <4> QED
        BY <4>1, NoneAssumption
    <3> QED
      BY <3>3, <3>4
      DEF Next, Pay, Lapse, SwitchPlan, CheckNoSubscription, CreateSession, Confirm,
          CompletedArrives, RetrieveActive, CompletedIgnored, RenameFind,
          RenameReload, DeleteFind, DeleteRow, CancelSubscription, Fail
  <2>2. lock = g /\ JobOK(g) /\ job[g].step = "commit"
    BY <2>1 DEF DeleteCommit, Inv, JobsOK, JobOK
  <2> QED
    BY <2>2 DEF JobOK
<1> QED
  BY <1>1, InvInvariant, PTL DEF Spec, DeletionCancels

-----------------------------------------------------------------------------
(* Payment and access, when nobody renames the organization *)

\* Nobody carries columns of the row that may be stale.
NoStale == ~Renames /\ \A h \in Handlers : ~Idle(h) => job[h].step \notin {"reload", "save"}

LEMMA NoStaleNext == Inv /\ NoStale /\ [Next]_vars => NoStale'
<1> SUFFICES ASSUME Inv, NoStale, [Next]_vars PROVE NoStale'
  OBVIOUS
<1>1. job \in [Handlers -> Job \cup {None}]
  BY DEF Inv, TypeOK
<1>2. CASE UNCHANGED job
  BY <1>2 DEF NoStale, Idle
<1>3. ASSUME NEW h \in Handlers, Done(h) PROVE NoStale'
  BY <1>1, <1>3 DEF NoStale, Idle, Done
<1>4. ASSUME NEW h \in Handlers,
             NEW step \in {"create", "set", "setAck", "delete", "cancel", "commit"},
             NEW s, NEW p, Do(h, step, s, p)
      PROVE  NoStale'
  BY <1>1, <1>4 DEF NoStale, Idle, Do
<1>5. ASSUME NEW h \in Handlers, RenameFind(h) \/ RenameReload(h) \/ RenameSave(h)
      PROVE  FALSE
  BY <1>5 DEF NoStale, Idle, RenameFind, RenameReload, RenameSave
<1> QED
  BY <1>2, <1>3, <1>4, <1>5
  DEF Next, vars, Pay, Lapse, SwitchPlan, CheckNoSubscription, CreateSession,
      Confirm, CompletedArrives, RetrieveActive, CompletedIgnored, SetSubscription,
      ChangeArrives, DeleteFind, DeleteRow, CancelSubscription, DeleteCommit, Fail

\* Nothing that made a plan paid for is taken back.
LEMMA PaidStays ==
  ASSUME Inv, PlanWasPaid, UNCHANGED row, Events \subseteq Events',
         \A c \in Sessions : checkout[c] = "complete"
           => checkout'[c] = "complete" /\ bought'[c] = bought[c]
  PROVE  PlanWasPaid'
BY DEF PlanWasPaid, Inv, TypeOK, Row, RowOK, Changed

LEMMA PaidNext == Inv /\ NoStale /\ PlanWasPaid /\ [Next]_vars => PlanWasPaid'
<1> SUFFICES ASSUME Inv, NoStale, PlanWasPaid, [Next]_vars PROVE PlanWasPaid'
  OBVIOUS
<1>1. /\ Events \subseteq Events'
      /\ \A c \in Sessions : checkout[c] = "complete"
           => checkout'[c] = "complete" /\ bought'[c] = bought[c]
  BY DEF Events, Inv, TypeOK, Next, vars, stripeVars, Pay, Lapse, SwitchPlan, Cancel,
         CheckNoSubscription, CreateSession, Confirm, CompletedArrives,
         RetrieveActive, CompletedIgnored, SetSubscription, ChangeArrives, RenameFind,
         RenameReload, RenameSave, DeleteFind, DeleteRow, CancelSubscription,
         DeleteCommit, Fail
<1>2. CASE UNCHANGED row
  BY <1>1, <1>2, PaidStays
<1>3. ASSUME NEW h \in Handlers, SetSubscription(h) PROVE PlanWasPaid'
  <2>1. /\ JobOK(h) /\ job[h].sub \in Sessions
        /\ job[h].plan = bought[job[h].sub] /\ checkout[job[h].sub] = "complete"
    BY <1>3, SubscriptionAssumption DEF SetSubscription, Inv, JobsOK, JobOK
  <2> QED
    BY <1>3, <2>1, SubscriptionAssumption
    DEF SetSubscription, PlanWasPaid, stripeVars
<1>4. ASSUME NEW e \in Events, ChangeArrives(e) PROVE PlanWasPaid'
  <2>1. e \in Event /\ e.type = "changed" /\ UNCHANGED <<checkout, bought>>
    BY <1>4 DEF ChangeArrives, Inv, TypeOK, Events, stripeVars
  <2>2. CASE UNCHANGED row
    BY <1>1, <2>2, PaidStays
  <2>3. CASE Holds(e.sub) /\ e.status = "canceled"
    BY <1>4, <2>3 DEF ChangeArrives, PlanWasPaid
  <2>4. CASE Holds(e.sub) /\ e.status = "active"
    <3>1. row'.sub = e.sub /\ row'.plan = e.plan
      BY <1>4, <2>4 DEF ChangeArrives, Holds, Inv, TypeOK, Row
    <3>2. Changed(e.sub, "active", e.plan) \in Events'
      BY <1>1, <2>1, <2>4 DEF Changed, Event
    <3>3. e.sub # None /\ checkout[e.sub] = "complete"
      BY <2>1, SubscriptionAssumption DEF Inv, EventsOK, Event
    <3> QED
      BY <2>1, <3>1, <3>2, <3>3 DEF PlanWasPaid, Changed
  <2> QED
    BY <1>4, <2>1, <2>2, <2>3, <2>4 DEF ChangeArrives, Event
<1>5. ASSUME NEW h \in Handlers, DeleteCommit(h) PROVE PlanWasPaid'
  BY <1>5 DEF DeleteCommit, PlanWasPaid
<1>6. ASSUME NEW h \in Handlers, RenameSave(h) PROVE FALSE
  BY <1>6 DEF NoStale, Idle, RenameSave
<1> QED
  BY <1>2, <1>3, <1>4, <1>5, <1>6
  DEF Next, vars, stripeVars, Pay, Lapse, SwitchPlan, CheckNoSubscription,
      CreateSession, Confirm, CompletedArrives, RetrieveActive, CompletedIgnored,
      RenameFind, RenameReload, DeleteFind, DeleteRow, CancelSubscription, Fail

\* While nobody renames it, the organization has no plan that was not paid for.
THEOREM PlansArePaid ==
  ASSUME ~Renames
  PROVE  Spec => []PlanWasPaid
<1>1. Init => PlanWasPaid /\ NoStale
  BY DEF Init, PlanWasPaid, NoStale, Idle
<1> QED
  BY <1>1, InvInvariant, NoStaleNext, PaidNext, PTL DEF Spec

\* While nobody renames it, only the end of its own subscription takes the plan
\* from the organization, in whatever order the events arrive.
THEOREM AccessIsKept ==
  ASSUME ~Renames
  PROVE  Spec => OnlyEndedLoseAccess
<1>1. Init => NoStale
  BY DEF Init, NoStale, Idle
<1>2. Inv /\ NoStale /\ [Next]_vars =>
        [(row # None /\ row.sub # None /\ row' # None /\ row'.sub = None)
           => status[row.sub] = "canceled"]_vars
  <2> SUFFICES ASSUME Inv, NoStale, Next, row # None, row.sub # None, row' # None,
                      row'.sub = None
               PROVE  status[row.sub] = "canceled"
    BY DEF vars
  <2>1. \A h \in Handlers : ~SetSubscription(h)
    BY SubscriptionAssumption DEF SetSubscription, Inv, JobsOK, JobOK
  <2>2. \A h \in Handlers : ~RenameSave(h)
    BY DEF NoStale, Idle, RenameSave
  <2>3. PICK e \in Events : ChangeArrives(e)
    BY <2>1, <2>2
    DEF Next, stripeVars, Pay, Lapse, SwitchPlan, CheckNoSubscription, CreateSession,
        Confirm, CompletedArrives, RetrieveActive, CompletedIgnored, RenameFind,
        RenameReload, DeleteFind, DeleteRow, CancelSubscription, DeleteCommit, Fail
  <2>4. row.sub = e.sub /\ e.status = "canceled"
    <3>1. row \in Row
      BY DEF Inv, TypeOK
    <3> QED
      BY <2>3, <3>1 DEF ChangeArrives, Holds, Row
  <2> QED
    BY <2>4 DEF Inv, EventsOK
<1> QED
  BY <1>1, <1>2, InvInvariant, NoStaleNext, PTL DEF Spec, OnlyEndedLoseAccess

-----------------------------------------------------------------------------
(* Plans of subscriptions that have ended *)

Activates(h, c) == ~Idle(h) /\ job[h].step \in {"set", "setAck"} /\ job[h].sub = c

\* The news that a subscription has ended is not handled while it is being activated.
NewsWaits ==
  \A e \in Events : ChangeArrives(e) /\ e.status = "canceled" =>
    \A h \in Handlers : ~Activates(h, e.sub)

\* A subscription has not ended, or the news of its end is still to come,
Foretold(c) ==
  status[c] = "active" \/ \E e \in pending : e.sub = c /\ e.status = "canceled"

\* in particular one that is being activated.
ActivatedForetold == \A h \in Handlers, c \in Sessions : Activates(h, c) => Foretold(c)

\* A step takes away the news of an end by handling it.
LEMMA ForetoldKept ==
  ASSUME Inv, NEW c \in Sessions, Foretold(c), Next
  PROVE  Foretold(c)' \/ \E e \in Events : ChangeArrives(e) /\ e.sub = c /\ e.status = "canceled"
<1> USE DEF Foretold
<1>1. CASE UNCHANGED <<status, pending>>
  BY <1>1
<1>2. ASSUME NEW d \in Sessions, Cancel(d) PROVE Foretold(c)'
  <2>1. CASE c = d
    <3>1. Changed(d, "canceled", price[d]) \in pending'
      BY <1>2 DEF Cancel
    <3> QED
      BY <2>1, <3>1 DEF Changed
  <2>2. CASE c # d
    BY <1>2, <2>2 DEF Cancel, Inv, TypeOK
  <2> QED
    BY <2>1, <2>2
<1>3. ASSUME NEW d \in Sessions, Pay(d) PROVE Foretold(c)'
  BY <1>3 DEF Pay, Inv, TypeOK
<1>4. ASSUME NEW d \in Sessions, NEW p \in Plans, SwitchPlan(d, p) PROVE Foretold(c)'
  BY <1>4 DEF SwitchPlan
<1>5. ASSUME NEW e, pending' = pending \ {e}, e.status = "active", UNCHANGED status
      PROVE  Foretold(c)'
  BY <1>5
<1>6. ASSUME NEW e \in Events, CompletedIgnored(e) PROVE Foretold(c)'
  <2>1. e.status = "active"
    BY <1>6 DEF CompletedIgnored, Inv, EventsOK
  <2> QED
    BY <1>5, <1>6, <2>1 DEF CompletedIgnored, stripeVars
<1>7. ASSUME NEW h \in Handlers, SetSubscription(h) PROVE Foretold(c)'
  <2>1. Completed(job[h].sub).status = "active" /\ UNCHANGED status
    BY <1>7 DEF Completed, SetSubscription, stripeVars
  <2> QED
    BY <1>5, <1>7, <2>1 DEF SetSubscription
<1>8. ASSUME NEW e \in Events, ChangeArrives(e), e.sub # c \/ e.status # "canceled"
      PROVE  Foretold(c)'
  BY <1>8 DEF ChangeArrives, stripeVars
<1>9. ASSUME NEW d \in Sessions, Lapse(d) PROVE Foretold(c)'
  BY <1>2, <1>9 DEF Lapse
<1>10. ASSUME NEW h \in Handlers, CancelSubscription(h) PROVE Foretold(c)'
  <2>1. job[h].sub \in Sessions
    BY <1>10 DEF CancelSubscription, Inv, JobsOK, JobOK
  <2> QED
    BY <1>2, <1>10, <2>1 DEF CancelSubscription
<1> QED
  BY <1>1, <1>3, <1>4, <1>6, <1>7, <1>8, <1>9, <1>10
  DEF Next, stripeVars, CheckNoSubscription, CreateSession, Confirm, CompletedArrives,
      RetrieveActive, RenameFind, RenameReload, RenameSave, DeleteFind, DeleteRow,
      DeleteCommit, Fail

\* An activation begins with a look at the subscription.
LEMMA ActivationBegins ==
  ASSUME Inv, Next, NEW h \in Handlers, NEW c \in Sessions, Activates(h, c)'
  PROVE  Activates(h, c) \/ Foretold(c)'
<1> USE DEF Activates, Idle
<1>1. job \in [Handlers -> Job \cup {None}]
  BY DEF Inv, TypeOK
<1>2. CASE UNCHANGED job
  BY <1>2
<1>3. ASSUME NEW g \in Handlers, Done(g) PROVE Activates(h, c)
  BY <1>1, <1>3 DEF Done
<1>4. ASSUME NEW g \in Handlers, NEW step \in {"create", "reload", "delete", "cancel", "commit"},
             NEW s, NEW p, Do(g, step, s, p)
      PROVE  Activates(h, c)
  BY <1>1, <1>4 DEF Do
<1>5. ASSUME NEW g \in Handlers, NEW d \in Sessions, NEW step, RetrieveActive(g, d, step),
             UNCHANGED stripeVars
      PROVE  Activates(h, c) \/ Foretold(c)'
  BY <1>1, <1>5 DEF RetrieveActive, Do, Foretold, stripeVars
<1>6. ASSUME NEW g \in Handlers, \/ \E d \in Sessions : Confirm(g, d)
                                 \/ \E e \in Events : CompletedArrives(g, e)
      PROVE  Activates(h, c) \/ Foretold(c)'
  <2>1. \A e \in Events : e.sub \in Sessions
    BY DEF Inv, TypeOK, Events, Event
  <2> QED
    BY <1>5, <1>6, <2>1 DEF Confirm, CompletedArrives
<1>7. ASSUME NEW g \in Handlers, RenameReload(g) PROVE Activates(h, c)
  <2>1. PICK w : job' = [job EXCEPT ![g].step = "save", ![g].write = w]
    BY <1>7 DEF RenameReload
  <2> QED
    BY <1>1, <1>7, <2>1 DEF RenameReload, Job
<1> QED
  BY <1>2, <1>3, <1>4, <1>6, <1>7
  DEF Next, Pay, Lapse, SwitchPlan, CheckNoSubscription, CreateSession,
      CompletedIgnored, SetSubscription, ChangeArrives, RenameFind, RenameSave,
      DeleteFind, DeleteRow, CancelSubscription, DeleteCommit, Fail

EndedInv == NoStale /\ ActivatedForetold /\ EndedLosesPlan

LEMMA EndedNext ==
  ASSUME Inv, EndedInv, Next, NewsWaits
  PROVE  ActivatedForetold' /\ EndedLosesPlan'
<1>1. ActivatedForetold'
  <2> SUFFICES ASSUME NEW h \in Handlers, NEW c \in Sessions, Activates(h, c)'
               PROVE  Foretold(c)'
    BY DEF ActivatedForetold
  <2>1. CASE Activates(h, c)
    BY <2>1, ForetoldKept DEF EndedInv, ActivatedForetold, NewsWaits
  <2> QED
    BY <2>1, ActivationBegins
<1>2. row # None /\ row.sub # None => row.sub \in Sessions /\ Foretold(row.sub)
  BY DEF Inv, TypeOK, Row, RowOK, StripeOK, EndedInv, EndedLosesPlan, Foretold
<1>3. SUFFICES ASSUME NEW c, row' # None, row'.sub = c, c # None PROVE Foretold(c)'
  <2>1. ASSUME NEW c, Foretold(c)', status'[c] = "canceled"
        PROVE  \E e \in pending' : e.sub = c /\ e.status = "canceled"
    BY <2>1 DEF Foretold
  <2>2. SUFFICES EndedLosesPlan'
    BY <1>1
  <2> QED
    BY <2>1 DEF EndedLosesPlan
<1>5. ASSUME row # None, row.sub = c,
             \A e \in Events : ~(ChangeArrives(e) /\ e.sub = c /\ e.status = "canceled")
      PROVE  Foretold(c)'
  BY <1>2, <1>3, <1>5, ForetoldKept
<1>6. ASSUME NEW e \in Events, ChangeArrives(e) PROVE Foretold(c)'
  <2>1. row \in Row \cup {None} /\ e \in Event
    BY DEF Inv, TypeOK, Events
  <2>2. row # None /\ row.sub = c
    BY <1>3, <1>6, <2>1 DEF ChangeArrives, Holds, Row
  <2>3. ASSUME NEW d \in Events, ChangeArrives(d), d.sub = c, d.status = "canceled"
        PROVE  FALSE
    BY <1>3, <2>1, <2>3 DEF ChangeArrives, Holds
  <2> QED
    BY <1>5, <2>2, <2>3
<1>7. ASSUME NEW h \in Handlers, SetSubscription(h) PROVE Foretold(c)'
  <2>1. c \in Sessions /\ Activates(h, c)
    BY <1>3, <1>7 DEF SetSubscription, Inv, JobsOK, JobOK, Activates
  <2>2. Foretold(c)
    BY <2>1 DEF EndedInv, ActivatedForetold
  <2> QED
    BY <2>1, <2>2, ForetoldKept DEF NewsWaits
<1>8. ASSUME NEW h \in Handlers, RenameSave(h) PROVE FALSE
  BY <1>8 DEF RenameSave, EndedInv, NoStale
<1>9. ASSUME NEW h \in Handlers, DeleteCommit(h) PROVE FALSE
  BY <1>3, <1>9 DEF DeleteCommit
<1>10. CASE UNCHANGED row /\ ~\E e \in Events : ChangeArrives(e)
  BY <1>3, <1>5, <1>10
<1> QED
  BY <1>6, <1>7, <1>8, <1>9, <1>10
  DEF Next, stripeVars, Pay, Lapse, SwitchPlan, CheckNoSubscription, CreateSession,
      Confirm, CompletedArrives, RetrieveActive, CompletedIgnored, RenameFind,
      RenameReload, DeleteFind, DeleteRow, CancelSubscription, Fail

\* While nobody renames it, the organization loses the plan of a subscription that
\* has ended, as subscription.service.ts promises, unless the news of the end is
\* handled while that very subscription is being activated: only this overlap is
\* behind the violation that the run shows, in whatever order events arrive.
THEOREM EndedPlansAreLost ==
  ASSUME ~Renames
  PROVE  Spec /\ [][NewsWaits]_vars => []EndedLosesPlan
<1>1. Init => EndedInv
  BY DEF Init, EndedInv, NoStale, ActivatedForetold, Activates, EndedLosesPlan, Idle
<1>2. Inv /\ EndedInv /\ [Next]_vars /\ [NewsWaits]_vars => EndedInv'
  <2> SUFFICES ASSUME Inv, EndedInv, [Next]_vars, [NewsWaits]_vars PROVE EndedInv'
    OBVIOUS
  <2>1. NoStale'
    BY NoStaleNext DEF EndedInv
  <2>2. CASE UNCHANGED vars
    BY <2>1, <2>2 DEF EndedInv, ActivatedForetold, Activates, Foretold, Idle,
       EndedLosesPlan, vars, stripeVars
  <2>3. CASE Next /\ NewsWaits
    BY <2>1, <2>3, EndedNext DEF EndedInv
  <2> QED
    BY <2>2, <2>3
<1>3. EndedInv => EndedLosesPlan
  BY DEF EndedInv
<1> QED
  BY <1>1, <1>2, <1>3, InvInvariant, PTL DEF Spec

=============================================================================
