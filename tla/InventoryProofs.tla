-------------------------- MODULE InventoryProofs --------------------------
(***************************************************************************)
(* What holds of the items of a warehouse and of the tables that show      *)
(* them, for every number of tables, queries, items and writes in flight.  *)
(***************************************************************************)
EXTENDS Inventory, TLAPS

-----------------------------------------------------------------------------
(* Type correctness *)

Carries ==
  \A r \in Requests :
    /\ pc[r] # "idle" => req[r] \in Request
    /\ pc[r] \notin {"idle", "insert", "ok", "failed"} => req[r].item \in Ids

Typed == TypeOK /\ Carries

\* The statements of a write, which leave the tables alone and, but for its
\* commit, the committed items too.
Statement(r) ==
  \/ \E t \in Tables : \/ createItem(r, t)
                       \/ \E i \in Ids : updateItem(r, t, i) \/ deleteItem(r, t, i)
  \/ Find(r) \/ Reload(r) \/ Insert(r) \/ Update(r) \/ Delete(r) \/ Rollback(r) \/ NotTold(r)

\* What a table does on its own.
Browser(t) ==
  \/ \E query \in Queries : Ask(t, query)
  \/ \E l \in table[t].loads : ReadRows(t, l) \/ Show(t, l) \/ FailLoad(t, l)

LEMMA NextSteps ==
  Next <=> \/ \E r \in Requests : Statement(r) \/ Commit(r) \/ Told(r)
           \/ DeleteWarehouse
           \/ \E t \in Tables : Browser(t)
BY DEF Next, Statement, Browser

LEMMA TypedInit == Init => Typed
<1> SUFFICES ASSUME Init PROVE Typed
  OBVIOUS
<1>1. /\ warehouse \in BOOLEAN /\ items \in SUBSET Ids /\ given \in 0..MaxItems
      /\ version \in Nat
  BY InventoryAssumption DEF Init, Ids
<1>2. /\ lock \in [Ids -> Requests \cup {None}] /\ pc \in [Requests -> Steps]
      /\ req \in [Requests -> Request \cup {None}]
  BY DEF Init, Steps
<1>3. table \in [Tables -> Table]
  BY DEF Init, Table, Load
<1> QED
  BY <1>1, <1>2, <1>3 DEF Init, Typed, TypeOK, Carries

LEMMA UnlockedType ==
  ASSUME TypeOK, NEW r \in Requests
  PROVE  Unlocked(r) \in [Ids -> Requests \cup {None}]
BY DEF TypeOK, Unlocked

LEMMA ReloadingType ==
  ASSUME TypeOK, NEW t \in Tables, NEW query \in Queries, NEW told \in Nat
  PROVE  Reloading(t, query, told) \in Table
<1>1. table[t] \in Table /\ [query |-> query, version |-> None] \in Load
  BY DEF TypeOK, Load
<1>2. Reloading(t, query, told) =
        [table[t] EXCEPT !.query = query, !.told = told,
                         !.loads = {[query |-> query, version |-> None]}]
  BY <1>1 DEF Reloading, Kept
<1> QED
  BY <1>1, <1>2 DEF Table

LEMMA StatementTyped ==
  ASSUME Typed, NEW r \in Requests, Statement(r)
  PROVE  Typed'
<1> USE DEF Typed, TypeOK, Carries, Goto, database
<1>1. ASSUME NEW t \in Tables, NEW i \in Ids \cup {None},
             NEW step \in {"insert", "findToUpdate", "findToDelete"},
             step # "insert" => i \in Ids, Begin(r, step, t, i)
      PROVE  Typed'
  <2>1. [table |-> t, item |-> i, committed |-> 0] \in Request
    BY DEF Request
  <2> QED
    BY <1>1, <2>1 DEF Begin, Steps
<1>2. CASE \E t \in Tables : \/ createItem(r, t)
                             \/ \E i \in Ids : updateItem(r, t, i) \/ deleteItem(r, t, i)
  BY <1>1, <1>2 DEF createItem, updateItem, deleteItem
<1>3. CASE Find(r) \/ Reload(r)
  BY <1>3 DEF Find, Reload, Read, Steps
<1>4. CASE Insert(r)
  <2> DEFINE i == IF req[r].item = None THEN given + 1 ELSE req[r].item
  <2>1. i \in Ids /\ pc[r] = "insert" /\ UNCHANGED <<warehouse, items, version, table>>
    BY <1>4 DEF Insert
  <2>2. CASE Goto(r, "failed") /\ UNCHANGED <<lock, req, given>>
    BY <2>1, <2>2 DEF Steps
  <2>3. CASE /\ Lock(i, r) /\ Goto(r, "inserted") /\ req' = [req EXCEPT ![r].item = i]
             /\ given' = IF i > given THEN i ELSE given
    <3>1. [req[r] EXCEPT !.item = i] \in Request
      BY <2>1 DEF Request
    <3>2. given' \in 0..MaxItems
      BY <2>1, <2>3, InventoryAssumption DEF Ids
    <3>3. req' = [req EXCEPT ![r] = [req[r] EXCEPT !.item = i]]
      BY <2>3
    <3>4. Carries'
      BY <2>1, <2>3, <3>1, <3>3 DEF Request
    <3> QED
      BY <2>1, <2>3, <3>1, <3>2, <3>3, <3>4 DEF Lock, Steps
  <2> QED
    BY <1>4, <2>2, <2>3 DEF Insert
<1>5. CASE Update(r) \/ Delete(r)
  BY <1>5 DEF Update, Delete, Lock, Steps
<1>6. CASE Rollback(r)
  BY <1>6, UnlockedType DEF Rollback, Steps
<1>7. CASE NotTold(r)
  BY <1>7 DEF NotTold, Steps
<1> QED
  BY <1>2, <1>3, <1>4, <1>5, <1>6, <1>7 DEF Statement

LEMMA CommitTyped ==
  ASSUME Typed, NEW r \in Requests, Commit(r)
  PROVE  Typed'
<1> USE DEF Typed, TypeOK, Carries
<1>1. req[r] \in Request /\ req[r].item \in Ids
  BY DEF Commit, Committing
<1>2. items' \in SUBSET Ids
  BY <1>1 DEF Commit, Committing
<1>3. version' \in Nat
  BY DEF Commit
<1>4. [req[r] EXCEPT !.committed = version'] \in Request
  BY <1>1, <1>3 DEF Request
<1>5. req' = [req EXCEPT ![r] = [req[r] EXCEPT !.committed = version']]
  BY DEF Commit
<1> QED
  BY <1>2, <1>3, <1>4, <1>5, UnlockedType DEF Commit, Goto, Steps

LEMMA ToldTyped ==
  ASSUME Typed, NEW r \in Requests, Told(r)
  PROVE  Typed'
<1> DEFINE t == req[r].table
           told == IF req[r].committed > table[t].told THEN req[r].committed
                   ELSE table[t].told
<1> USE DEF Typed, TypeOK, Carries
<1>1. t \in Tables /\ table[t].query \in Queries /\ told \in Nat
  BY DEF Told, Request, Table
<1>2. Reloading(t, table[t].query, told) \in Table
  BY <1>1, ReloadingType
<1>3. table' = [table EXCEPT ![t] = Reloading(t, table[t].query, told)]
  BY DEF Told
<1> QED
  BY <1>1, <1>2, <1>3 DEF Told, Goto, Steps, database

LEMMA BrowserTyped ==
  ASSUME Typed, NEW t \in Tables, Browser(t)
  PROVE  Typed'
<1> USE DEF Typed, TypeOK, Carries, database
<1>1. ASSUME NEW query \in Queries, Ask(t, query)
      PROVE  Typed'
  <2>1. Reloading(t, query, table[t].told) \in Table
    BY ReloadingType DEF Table
  <2> QED
    BY <1>1, <2>1 DEF Ask
<1>2. ASSUME NEW l \in table[t].loads, ReadRows(t, l) \/ Show(t, l) \/ FailLoad(t, l)
      PROVE  Typed'
  <2>1. table[t] \in Table /\ l \in Load /\ [l EXCEPT !.version = version] \in Load
    BY DEF Table, Load
  <2>2. table' \in [Tables -> Table]
    BY <1>2, <2>1 DEF ReadRows, Show, FailLoad, AfterError, Table
  <2> QED
    BY <1>2, <2>2 DEF ReadRows, Show, FailLoad
<1> QED
  BY <1>1, <1>2 DEF Browser

LEMMA TypedStep == Typed /\ [Next]_vars => Typed'
<1>1. Typed /\ UNCHANGED vars => Typed'
  BY DEF vars, Typed, TypeOK, Carries
<1>2. ASSUME Typed, DeleteWarehouse
      PROVE  Typed'
  <2>1. warehouse' \in BOOLEAN
    BY <1>2 DEF DeleteWarehouse
  <2>2. items' \in SUBSET Ids /\ version' \in Nat
    BY <1>2 DEF DeleteWarehouse, Typed, TypeOK
  <2>3. UNCHANGED <<given, lock, pc, req, table>>
    BY <1>2 DEF DeleteWarehouse
  <2> QED
    BY <1>2, <2>1, <2>2, <2>3 DEF Typed, TypeOK, Carries
<1> QED
  BY <1>1, <1>2, StatementTyped, CommitTyped, ToldTyped, BrowserTyped, NextSteps

\* The variables have their types in every reachable state.
THEOREM TypeCorrect == Spec => []TypeOK
<1>1. Typed => TypeOK
  BY DEF Typed
<1> QED
  BY TypedInit, TypedStep, <1>1, PTL DEF Spec

-----------------------------------------------------------------------------
(* What tables show *)

\* A load asks for what the controls say, and its rows are no older than the last
\* write the table was told of.
Loading(t) ==
  /\ \A l \in table[t].loads :
       /\ l.query = table[t].query
       /\ l.version # None => l.version >= table[t].told
  /\ table[t].told <= version

\* A write that answers that it succeeded has committed.
Answered == \A r \in Requests : pc[r] = "ok" => req[r].committed <= version

Fresh == Answered /\ TableIsCurrent /\ \A t \in Tables : Loading(t)

\* A load that begins has read nothing yet.
LEMMA ReloadingKeeps ==
  ASSUME Typed, NEW t \in Tables, NEW query \in Queries, NEW told \in Nat,
         told <= version, Fresh, UNCHANGED version,
         table' = [table EXCEPT ![t] = Reloading(t, query, told)]
  PROVE  TableIsCurrent' /\ \A s \in Tables : Loading(s)'
<1> DEFINE new == [query |-> query, version |-> None]
<1>1. table \in [Tables -> Table]
  BY DEF Typed, TypeOK
<1>2. Reloading(t, query, told) =
        [table[t] EXCEPT !.query = query, !.told = told, !.loads = {new}]
  BY <1>1 DEF Reloading, Kept, Table
<1>3. /\ table'[t].query = query /\ table'[t].told = told /\ table'[t].loads = {new}
      /\ \A s \in Tables : s # t => table'[s] = table[s]
  BY <1>1, <1>2 DEF Table
<1>4. TableIsCurrent'
  BY <1>3 DEF TableIsCurrent, Fresh
<1>5. \A s \in Tables : Loading(s)'
  BY <1>3 DEF Loading, Fresh
<1> QED
  BY <1>4, <1>5

\* The commits after a read take nothing from what it read.
LEMMA OthersFresh ==
  ASSUME Typed, Fresh, UNCHANGED table, version' \in Nat, version' >= version
  PROVE  TableIsCurrent' /\ \A t \in Tables : Loading(t)'
<1>1. \A t \in Tables : table[t].told \in Nat
  BY DEF Typed, TypeOK, Table
<1>2. version \in Nat
  BY DEF Typed, TypeOK
<1>3. TableIsCurrent'
  BY DEF TableIsCurrent, Fresh
<1>4. \A t \in Tables : Loading(t)'
  BY <1>1, <1>2 DEF Loading, Fresh
<1> QED
  BY <1>3, <1>4

LEMMA BrowserFresh ==
  ASSUME Typed, Fresh, NEW t \in Tables, Browser(t)
  PROVE  Fresh'
<1> USE DEF database
<1>1. /\ table \in [Tables -> Table] /\ table[t] \in Table
      /\ version \in Nat /\ table[t].told \in Nat /\ None \notin Nat
      /\ Loading(t)
  BY InventoryAssumption DEF Typed, TypeOK, Table, Fresh
<1>2. UNCHANGED <<version, pc, req>>
  BY DEF Browser, Ask, ReadRows, Show, FailLoad
<1>3. Answered'
  BY <1>2 DEF Fresh, Answered
<1>4. CASE \E query \in Queries : Ask(t, query)
  <2>1. PICK query \in Queries : Ask(t, query)
    BY <1>4
  <2>2. table[t].told <= version
    BY <1>1 DEF Loading
  <2>3. table' = [table EXCEPT ![t] = Reloading(t, query, table[t].told)]
    BY <1>1, <2>1 DEF Ask
  <2> QED
    BY <1>1, <1>2, <1>3, <2>2, <2>3, ReloadingKeeps DEF Fresh
<1>5. ASSUME NEW l \in table[t].loads, ReadRows(t, l) \/ Show(t, l) \/ FailLoad(t, l)
      PROVE  TableIsCurrent' /\ \A s \in Tables : Loading(s)'
  <2>1. /\ l \in Load /\ l.query = table[t].query
        /\ l.version # None => l.version >= table[t].told
    BY <1>1 DEF Loading, Table
  <2>2. \A s \in Tables : s # t => table'[s] = table[s]
    BY <1>1, <1>5 DEF ReadRows, Show, FailLoad
  <2>3. CASE ReadRows(t, l)
    <3> DEFINE read == [l EXCEPT !.version = version]
    <3>1. table'[t] = [table[t] EXCEPT !.loads = (@ \ {l}) \cup {read}]
      BY <1>1, <2>3 DEF ReadRows
    <3>2. /\ table'[t].loads = (table[t].loads \ {l}) \cup {read}
          /\ table'[t].query = table[t].query /\ table'[t].told = table[t].told
      BY <1>1, <3>1 DEF Table
    <3>3. read.query = table[t].query /\ read.version = version
      BY <2>1 DEF Load
    <3>4. Loading(t)'
      BY <1>1, <1>2, <3>2, <3>3 DEF Loading
    <3>5. table'[t].loads # {}
      BY <3>2
    <3> QED
      BY <1>2, <2>2, <3>4, <3>5 DEF Fresh, TableIsCurrent, Loading
  <2>4. CASE Show(t, l)
    <3>1. /\ table'[t] = [table[t] EXCEPT !.loads = @ \ {l}, !.shown = l, !.failed = FALSE]
          /\ l.version # None
      BY <1>1, <2>4 DEF Show
    <3>2. /\ table'[t].loads = table[t].loads \ {l} /\ table'[t].shown = l
          /\ table'[t].query = table[t].query /\ table'[t].told = table[t].told
      BY <1>1, <3>1 DEF Table
    <3>3. Loading(t)'
      BY <1>1, <1>2, <3>2 DEF Loading
    <3>4. table'[t].shown \in Load' /\ table'[t].shown.query = table'[t].query
          /\ table'[t].shown.version >= table'[t].told
      BY <2>1, <3>1, <3>2 DEF Load
    <3>5. TableIsCurrent'
      BY <2>2, <3>4 DEF Fresh, TableIsCurrent, Load
    <3> QED
      BY <1>2, <2>2, <3>3, <3>5 DEF Fresh, Loading
  <2>5. CASE FailLoad(t, l)
    <3>1. table'[t] = [table[t] EXCEPT !.loads = @ \ {l}, !.shown = AfterError(t),
                                       !.failed = TRUE]
      BY <1>1, <2>5 DEF FailLoad
    <3>2. /\ table'[t].loads = table[t].loads \ {l} /\ table'[t].failed = TRUE
          /\ table'[t].query = table[t].query /\ table'[t].told = table[t].told
      BY <1>1, <3>1 DEF Table
    <3>3. Loading(t)'
      BY <1>1, <1>2, <3>2 DEF Loading
    <3> QED
      BY <1>2, <2>2, <3>2, <3>3 DEF Fresh, TableIsCurrent, Loading
  <2> QED
    BY <1>5, <2>3, <2>4, <2>5
<1> QED
  BY <1>3, <1>4, <1>5 DEF Browser, Fresh

\* The statements of a write change neither what is committed nor a table.
LEMMA StatementFresh ==
  ASSUME Typed, Fresh, NEW r \in Requests, Statement(r)
  PROVE  Fresh'
<1> USE DEF database, Goto
<1>1. UNCHANGED <<version, table>>
  BY DEF Statement, createItem, updateItem, deleteItem, Begin, Find, Reload, Read, Insert,
         Update, Delete, Rollback, NotTold
<1>2. /\ pc'[r] # "ok"
      /\ \A s \in Requests : s # r => pc'[s] = pc[s] /\ req'[s] = req[s]
  BY DEF Typed, TypeOK, Statement, createItem, updateItem, deleteItem, Begin, Find, Reload,
         Read, Insert, Update, Delete, Rollback, NotTold
<1>3. Answered'
  BY <1>1, <1>2 DEF Fresh, Answered
<1>4. TableIsCurrent' /\ \A t \in Tables : Loading(t)'
  BY <1>1 DEF Fresh, TableIsCurrent, Loading
<1> QED
  BY <1>3, <1>4 DEF Fresh

LEMMA CommitFresh ==
  ASSUME Typed, Fresh, NEW r \in Requests, Commit(r)
  PROVE  Fresh'
<1>1. version \in Nat /\ version' \in Nat /\ version' >= version /\ UNCHANGED table
  BY DEF Commit, Typed, TypeOK
<1>2. req[r] \in Request
  BY DEF Typed, Carries, Commit, Committing
<1>3. /\ req'[r].committed = version'
      /\ \A s \in Requests : s # r => pc'[s] = pc[s] /\ req'[s] = req[s]
  BY <1>2 DEF Typed, TypeOK, Commit, Goto, Request
<1>4. ASSUME NEW s \in Requests, pc'[s] = "ok"
      PROVE  req'[s].committed <= version'
  <2>1. CASE s = r
    BY <1>1, <1>3, <2>1
  <2>2. CASE s # r
    <3>1. pc[s] = "ok" /\ req'[s] = req[s] /\ req[s].committed <= version
      BY <1>3, <1>4, <2>2 DEF Fresh, Answered
    <3>2. req[s].committed \in Nat
      BY <3>1 DEF Typed, Carries, Request
    <3> QED
      BY <1>1, <3>1, <3>2
  <2> QED
    BY <2>1, <2>2
<1> QED
  BY <1>1, <1>4, OthersFresh DEF Fresh, Answered

LEMMA ToldFresh ==
  ASSUME Typed, Fresh, NEW r \in Requests, Told(r)
  PROVE  Fresh'
<1> DEFINE t == req[r].table
           told == IF req[r].committed > table[t].told THEN req[r].committed
                   ELSE table[t].told
<1>1. /\ t \in Tables /\ table[t].query \in Queries /\ told \in Nat /\ UNCHANGED version
      /\ table \in [Tables -> Table] /\ table[t] \in Table
  BY DEF Told, Typed, TypeOK, Carries, Request, Table, database
<1>2. told <= version
  BY <1>1 DEF Told, Fresh, Answered, Loading
<1>3. table' = [table EXCEPT ![t] = Reloading(t, table[t].query, told)]
  BY DEF Told
<1>4. Answered'
  BY <1>1 DEF Told, Goto, Typed, TypeOK, Fresh, Answered
<1> QED
  BY <1>1, <1>2, <1>3, <1>4, ReloadingKeeps DEF Fresh

LEMMA DeleteFresh ==
  ASSUME Typed, Fresh, DeleteWarehouse
  PROVE  Fresh'
<1>1. /\ version \in Nat /\ version' = version + 1 /\ UNCHANGED <<pc, req, table>>
  BY DEF DeleteWarehouse, Typed, TypeOK
<1>2. \A r \in Requests : pc[r] = "ok" => req[r].committed \in Nat
  BY DEF Typed, Carries, Request
<1>3. Answered'
  BY <1>1, <1>2 DEF Fresh, Answered
<1> QED
  BY <1>1, <1>3, OthersFresh DEF Fresh

LEMMA FreshInit == Init => Fresh
<1> SUFFICES ASSUME Init PROVE Fresh
  OBVIOUS
<1>1. Answered
  BY DEF Init, Answered
<1>2. PICK query \in [Tables -> Queries] : \A t \in Tables :
        table[t] = [query |-> query[t], loads |-> {[query |-> query[t], version |-> None]},
                    shown |-> None, failed |-> FALSE, told |-> 0]
  BY DEF Init
<1>3. ASSUME NEW t \in Tables
      PROVE  Loading(t) /\ table[t].loads # {}
  <2>1. /\ table[t].loads = {[query |-> query[t], version |-> None]}
        /\ table[t].query = query[t] /\ table[t].told = 0
    <3> DEFINE q == query[t]
    <3>1. table[t] = [query |-> q, loads |-> {[query |-> q, version |-> None]},
                      shown |-> None, failed |-> FALSE, told |-> 0]
      BY <1>2
    <3> HIDE DEF q
    <3>2. table[t].loads = {[query |-> q, version |-> None]} /\ table[t].query = q
          /\ table[t].told = 0
      BY <3>1
    <3> QED
      BY <3>2 DEF q
  <2>2. version = 0
    BY DEF Init
  <2>3. \A l \in table[t].loads : l.query = query[t] /\ l.version = None
    BY <2>1
  <2> QED
    BY <2>1, <2>2, <2>3 DEF Loading
<1> QED
  BY <1>1, <1>3 DEF Fresh, TableIsCurrent

LEMMA FreshStep == Typed /\ Fresh /\ [Next]_vars => Fresh'
<1>1. Fresh /\ UNCHANGED vars => Fresh'
  BY DEF vars, Fresh, Answered, TableIsCurrent, Loading
<1> QED
  BY <1>1, StatementFresh, CommitFresh, ToldFresh, DeleteFresh, BrowserFresh, NextSteps

\* A table that has stopped loading shows what its controls ask for, and the last
\* write it was told of.
THEOREM TablesCatchUp == Spec => []TableIsCurrent
<1>1. Typed /\ Fresh /\ [Next]_vars => Typed' /\ Fresh'
  BY TypedStep, FreshStep
<1>2. Fresh => TableIsCurrent
  BY DEF Fresh
<1> QED
  BY TypedInit, FreshInit, <1>1, <1>2, PTL DEF Spec

-----------------------------------------------------------------------------
(* What writes hold *)

\* An inserted item holds the warehouse, and a deleted one, which is still there
\* until the commit, itself.
Sound(r) ==
  /\ pc[r] = "inserted" => warehouse
  /\ pc[r] \in {"inserted", "deleted"} => lock[req[r].item] = r
  /\ pc[r] = "deleted" => req[r].item \in items

Held == NothingOutlivesWarehouse /\ \A r \in Requests : Sound(r)

LEMMA StatementHeld ==
  ASSUME Typed, Held, NEW r \in Requests, Statement(r)
  PROVE  Held'
<1> USE DEF database, Goto
<1>1. UNCHANGED <<warehouse, items>>
  BY DEF Statement, createItem, updateItem, deleteItem, Begin, Find, Reload, Read, Insert,
         Update, Delete, Rollback, NotTold
<1>2. \A s \in Requests : s # r => pc'[s] = pc[s] /\ req'[s] = req[s]
  BY DEF Typed, TypeOK, Statement, createItem, updateItem, deleteItem, Begin, Find, Reload,
         Read, Insert, Update, Delete, Rollback, NotTold
<1>3. ASSUME NEW s \in Requests, s # r, pc[s] \in {"inserted", "deleted"}
      PROVE  lock'[req[s].item] = s
  <2>1. /\ lock[req[s].item] = s /\ s # None /\ req[s].item \in Ids
        /\ lock \in [Ids -> Requests \cup {None}]
    BY <1>3, InventoryAssumption DEF Held, Sound, Typed, TypeOK, Carries
  <2>2. \/ UNCHANGED lock \/ lock' = Unlocked(r)
        \/ \E i \in Ids : lock[i] = None /\ Lock(i, r)
    BY DEF Typed, TypeOK, Carries, Statement, createItem, updateItem, deleteItem, Begin,
           Find, Reload, Read, Insert, Update, Delete, Rollback, NotTold
  <2> QED
    BY <1>3, <2>1, <2>2 DEF Unlocked, Lock
<1>4. Sound(r)'
  <2>1. CASE pc'[r] \in {"inserted", "deleted"}
    <3>1. Insert(r) \/ Delete(r)
      BY <2>1 DEF Typed, TypeOK, Statement, createItem, updateItem, deleteItem, Begin, Find,
                  Reload, Read, Update, Rollback, NotTold
    <3>2. /\ pc[r] # "idle" /\ req[r] \in Request /\ req \in [Requests -> Request \cup {None}]
          /\ lock \in [Ids -> Requests \cup {None}] /\ pc \in [Requests -> Steps]
      BY <3>1 DEF Insert, Delete, Typed, TypeOK, Carries
    <3>3. CASE Insert(r)
      <4>1. PICK i \in Ids : /\ warehouse /\ pc'[r] = "inserted" /\ Lock(i, r)
                             /\ req' = [req EXCEPT ![r].item = i]
        BY <2>1, <3>2, <3>3 DEF Insert
      <4>2. req'[r].item = i
        BY <3>2, <4>1 DEF Request
      <4> QED
        BY <1>1, <3>2, <4>1, <4>2 DEF Lock, Sound
    <3>4. CASE Delete(r)
      <4>1. /\ Found(r) /\ Lock(req[r].item, r) /\ pc'[r] = "deleted" /\ req' = req
        BY <2>1, <3>2, <3>4 DEF Delete, Affected
      <4>2. req[r].item \in Ids
        BY <3>4 DEF Delete, Typed, Carries
      <4> QED
        BY <1>1, <3>2, <4>1, <4>2 DEF Lock, Sound, Found
    <3> QED
      BY <3>1, <3>3, <3>4
  <2> QED
    BY <2>1 DEF Sound
<1> QED
  BY <1>1, <1>2, <1>3, <1>4 DEF Held, Sound, NothingOutlivesWarehouse

\* A commit adds an item only to a warehouse that is there, and removes only the
\* item it holds.
LEMMA CommitHeld ==
  ASSUME Typed, Held, NEW r \in Requests, Commit(r)
  PROVE  Held'
<1>1. /\ UNCHANGED warehouse /\ pc'[r] = "ok" /\ lock' = Unlocked(r)
      /\ \A s \in Requests : s # r => pc'[s] = pc[s] /\ req'[s] = req[s]
  BY DEF Commit, Goto, Typed, TypeOK
<1>2. NothingOutlivesWarehouse'
  BY DEF Commit, Committing, Held, Sound, NothingOutlivesWarehouse
<1>3. ASSUME NEW s \in Requests, s # r
      PROVE  Sound(s)'
  <2>1. CASE pc[s] \in {"inserted", "deleted"}
    <3>1. /\ lock[req[s].item] = s /\ req[s].item \in Ids
      BY <2>1 DEF Held, Sound, Typed, Carries
    <3>2. lock'[req[s].item] = s
      BY <1>1, <1>3, <3>1 DEF Unlocked
    <3>3. pc[r] = "deleted" => req[r].item # req[s].item
      BY <1>3, <3>1 DEF Held, Sound
    <3>4. req[s].item \in items => req[s].item \in items'
      BY <3>3 DEF Commit, Committing
    <3> QED
      BY <1>1, <1>3, <3>2, <3>4 DEF Held, Sound
  <2> QED
    BY <1>1, <1>3, <2>1 DEF Sound
<1>4. Sound(r)'
  BY <1>1 DEF Sound
<1> QED
  BY <1>2, <1>3, <1>4 DEF Held

\* The deletion of the warehouse waits for all who hold an item.
LEMMA DeleteHeld ==
  ASSUME Typed, Held, DeleteWarehouse
  PROVE  Held'
<1>1. NothingOutlivesWarehouse'
  BY DEF DeleteWarehouse, NothingOutlivesWarehouse
<1>2. \A r \in Requests : pc[r] \notin {"inserted", "deleted"}
  BY InventoryAssumption DEF DeleteWarehouse, Holds, Held, Sound, Typed, Carries
<1>3. \A r \in Requests : Sound(r)'
  BY <1>2 DEF DeleteWarehouse, Sound
<1> QED
  BY <1>1, <1>3 DEF Held

LEMMA HeldInit == Init => Held
BY DEF Init, Held, Sound, NothingOutlivesWarehouse

LEMMA HeldStep == Typed /\ Held /\ [Next]_vars => Held'
<1>1. Held /\ UNCHANGED vars => Held'
  BY DEF vars, Held, Sound, NothingOutlivesWarehouse
<1>2. ASSUME Typed, Held, NEW r \in Requests, Told(r)
      PROVE  Held'
  BY <1>2 DEF Told, Goto, database, Typed, TypeOK, Held, Sound, NothingOutlivesWarehouse
<1>3. ASSUME Held, NEW t \in Tables, Browser(t)
      PROVE  Held'
  <2>1. UNCHANGED <<database, lock, pc, req>>
    BY <1>3 DEF Browser, Ask, ReadRows, Show, FailLoad
  <2> QED
    BY <1>3, <2>1 DEF database, Held, Sound, NothingOutlivesWarehouse
<1> QED
  BY <1>1, <1>2, <1>3, StatementHeld, CommitHeld, DeleteHeld, NextSteps

\* Nothing is added to a warehouse that has been deleted, however the insertion
\* and the deletion interleave.
THEOREM NothingIsOrphaned == Spec => []NothingOutlivesWarehouse
<1>1. Typed /\ Held /\ [Next]_vars => Typed' /\ Held'
  BY TypedStep, HeldStep
<1>2. Held => NothingOutlivesWarehouse
  BY DEF Held
<1> QED
  BY TypedInit, HeldInit, <1>1, <1>2, PTL DEF Spec

\* Every deletion that succeeds removes its item.
LEMMA DeleteStep ==
  ASSUME Typed, Held, [Next]_vars, NEW r \in Requests, pc[r] = "deleted", pc'[r] = "ok"
  PROVE  req[r].item \in items /\ req[r].item \notin items'
<1>1. req[r].item \in items
  BY DEF Held, Sound
<1>2. Commit(r)
  <2>1. pc' # pc /\ pc \in [Requests -> Steps]
    BY DEF Typed, TypeOK
  <2>2. \A s \in Requests : Statement(s) \/ Told(s) => pc'[r] # "ok" \/ pc'[r] = pc[r]
    BY <2>1 DEF Statement, createItem, updateItem, deleteItem, Begin, Find, Reload, Read,
           Insert, Update, Delete, Rollback, NotTold, Told, Goto
  <2>3. \A s \in Requests : s # r /\ Commit(s) => pc'[r] = pc[r]
    BY <2>1 DEF Commit, Goto
  <2>4. DeleteWarehouse \/ (\E t \in Tables : Browser(t)) => pc' = pc
    BY DEF DeleteWarehouse, Browser, Ask, ReadRows, Show, FailLoad
  <2> QED
    BY <2>1, <2>2, <2>3, <2>4, NextSteps DEF vars
<1>3. items' = items \ {req[r].item}
  BY <1>2 DEF Commit
<1> QED
  BY <1>1, <1>3

\* Of two deletions of an item at once, one is told that it was not found.
THEOREM DeletionsDelete == Spec => DeletesOnce
<1>1. Typed /\ Held /\ [Next]_vars => Typed' /\ Held'
  BY TypedStep, HeldStep
<1>2. Typed /\ Held /\ [Next]_vars =>
        [\A r \in Requests : pc[r] = "deleted" /\ pc'[r] = "ok"
                             => req[r].item \in items /\ req[r].item \notin items']_vars
  BY DeleteStep
<1> QED
  BY TypedInit, HeldInit, <1>1, <1>2, PTL DEF Spec, DeletesOnce

=============================================================================
