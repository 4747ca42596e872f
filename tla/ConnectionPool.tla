-------------------------- MODULE ConnectionPool --------------------------
(***************************************************************************)
(* The connections to Postgres that all requests share.                    *)
(*                                                                         *)
(* RlsInterceptor runs every handler in a transaction and so holds one     *)
(* connection until the handler ends.  Guards run before it and take a     *)
(* connection for each of their queries.  A handler that asks              *)
(* GuardDBService takes a second connection while it holds the first,      *)
(* unless it passes the manager of its transaction on.                     *)
(*                                                                         *)
(* The pool (pg, with its default options) gives a connection to whoever   *)
(* has waited longest, and nobody stops waiting.                           *)
(***************************************************************************)
EXTENDS Integers, Sequences, FiniteSets

CONSTANTS
  Clients,    \* requests that may be in flight
  PoolSize,   \* connections of the pool
  MaxGuards,  \* bound on the queries of the guards of a request
  MaxCalls,   \* bound on the queries through GuardDBService of a handler
  NoJob

ASSUME PoolAssumption ==
  /\ IsFiniteSet(Clients)
  /\ PoolSize \in Nat \ {0} /\ MaxGuards \in Nat /\ MaxCalls \in Nat

VARIABLES
  job,    \* what a request still has to do
  busy,   \* connections in use: who holds it, and what for
  queue   \* requests that wait for a connection, the first one first

cpVars == <<job, busy, queue>>

Uses == {"guard", "transaction", "call"}

\* for: the use of the connection it holds or waits for last; manager: does the
\* handler pass its transaction on?
Job == [for: Uses, guards: 0..MaxGuards, calls: 0..MaxCalls, manager: BOOLEAN]

ASSUME NoJobAssumption == NoJob \notin Job

(***************************************************************************)
(* The pool                                                                *)
(***************************************************************************)
\* Mutant: one connection too many.
BugFree == Cardinality(busy) <= PoolSize

Free == Cardinality(busy) < PoolSize

Holds(r, use) == <<r, use>> \in busy

Waiting == {r \in Clients : job[r] # NoJob /\ ~Holds(r, job[r].for)}

Ask(r, j) ==
  /\ job' = [job EXCEPT ![r] = j]
  /\ queue' = Append(queue, r)

Grant ==
  /\ queue # <<>> /\ Free
  /\ LET r == Head(queue) IN busy' = busy \cup {<<r, job[r].for>>}
  /\ queue' = Tail(queue)
  /\ UNCHANGED job

CPInit ==
  /\ job = [r \in Clients |-> NoJob]
  /\ busy = {}
  /\ queue = <<>>

(***************************************************************************)
(* A request                                                               *)
(***************************************************************************)
Running(r, use) == job[r] # NoJob /\ job[r].for = use /\ Holds(r, use)

Arrive(r, guards, calls, manager) ==
  /\ job[r] = NoJob
  /\ Ask(r, [for |-> IF guards > 0 THEN "guard" ELSE "transaction",
             guards |-> guards, calls |-> calls, manager |-> manager])
  /\ UNCHANGED busy

\* A query of a guard is answered and its connection released; then comes the
\* next one or, when all guards are content, the transaction.
GuardAnswered(r) ==
  /\ Running(r, "guard")
  /\ busy' = busy \ {<<r, "guard">>}
  /\ LET left == job[r].guards - 1 IN
     Ask(r, [job[r] EXCEPT !.guards = left,
                           !.for = IF left > 0 THEN "guard" ELSE "transaction"])

\* Mutant: createRefreshToken ignores the manager it is given.
BugOnOwnTransaction(r) == FALSE

\* manager ?? this.dataSource
OnOwnTransaction(r) == job[r].manager

CallGuardDB(r) ==
  /\ Running(r, "transaction") /\ job[r].calls > 0
  /\ IF OnOwnTransaction(r)
     THEN /\ job' = [job EXCEPT ![r].calls = @ - 1]
          /\ UNCHANGED queue
     ELSE Ask(r, [job[r] EXCEPT !.for = "call"])
  /\ UNCHANGED busy

CallAnswered(r) ==
  /\ Running(r, "call")
  /\ busy' = busy \ {<<r, "call">>}
  /\ job' = [job EXCEPT ![r].for = "transaction", ![r].calls = @ - 1]
  /\ UNCHANGED queue

Released(r) == {c \in busy : c[1] = r}

EndRequest(r) ==
  /\ job' = [job EXCEPT ![r] = NoJob]
  /\ busy' = busy \ Released(r)
  /\ UNCHANGED queue

\* The handler returns and the transaction commits.
Return(r) == Running(r, "transaction") /\ job[r].calls = 0 /\ EndRequest(r)

\* A guard refuses, or the handler or one of its queries throws: the
\* transaction is rolled back.
Throw(r) == (\E use \in Uses : Running(r, use)) /\ EndRequest(r)

Work(r) ==
  GuardAnswered(r) \/ CallGuardDB(r) \/ CallAnswered(r) \/ Return(r)

CPNext ==
  \/ Grant
  \/ \E r \in Clients :
       \/ \E g \in 0..MaxGuards, c \in 0..MaxCalls, m \in BOOLEAN : Arrive(r, g, c, m)
       \/ GuardAnswered(r) \/ CallGuardDB(r) \/ CallAnswered(r)
       \/ Return(r) \/ Throw(r)

CPSpec == CPInit /\ [][CPNext]_cpVars

(***************************************************************************)
(* Properties                                                              *)
(***************************************************************************)
\* The variables have their types and the pool never exceeds its size.
CPTypeOK ==
  /\ job \in [Clients -> Job \cup {NoJob}]
  /\ busy \subseteq Clients \X Uses
  /\ Cardinality(busy) <= PoolSize
  /\ queue \in Seq(Clients)

\* Requests whose handler needs, now or later, a second connection.
Nesting ==
  {r \in Clients : job[r] # NoJob /\ job[r].calls > 0 /\ ~job[r].manager}

\* All connections are taken by requests that wait for another one.
Starved == ~Free /\ \A c \in busy : c[1] \in Waiting

\* The pool starves only when as many requests as it has connections are in
\* handlers that take a second one (RlsInterceptor and GuardDBService): no number
\* of other requests, guards or failures can do it.
StarvedOnlyByNesting == Starved => Cardinality(Nesting) >= PoolSize

\* As long as fewer handlers than connections take a second one, every request
\* is answered, in whatever order requests come, fail and end.
RequestsEnd ==
  [](Cardinality(Nesting) < PoolSize) =>
    \A r \in Clients : job[r] # NoJob ~> job[r] = NoJob

=============================================================================
