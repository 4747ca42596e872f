----------------------------- MODULE Inventory -----------------------------
(***************************************************************************)
(* The items of one warehouse and the tables of them that browsers show.   *)
(*                                                                         *)
(* An item is its identifier; its name and amount matter to nothing here   *)
(* but whether a save finds a difference.  Identifiers are given in the    *)
(* order of the insertions, as uuidv7 does.  Requests have passed their    *)
(* guards and run in READ COMMITTED transactions, one statement per step,  *)
(* as in Warehouse.                                                        *)
(*                                                                         *)
(* What a table asks for, its page, order and search term, is a query.     *)
(* How current the rows are that it shows is the number of commits they    *)
(* were read after.                                                        *)
(***************************************************************************)
EXTENDS Integers, FiniteSets

CONSTANTS
  Tables,      \* tables that are open, each in a tab of its own
  Queries,     \* what a table may ask for
  Requests,    \* writes that may be in flight
  MaxItems,    \* bound on the items ever inserted
  MaxCommits,  \* bound on the commits after which no write begins
  None

ASSUME InventoryAssumption ==
  /\ MaxItems \in Nat /\ MaxCommits \in Nat
  /\ None \notin Nat \cup Requests \cup Queries

Ids == 1..MaxItems

VARIABLES
  warehouse,  \* does the warehouse exist?
  items,      \* the items of it, as committed
  given,      \* the number of identifiers given
  lock,       \* the request whose uncommitted write holds an item
  pc,         \* the next statement of a write
  req,        \* what a write carries
  version,    \* the number of commits
  table       \* the state of a table component

vars == <<warehouse, items, given, lock, pc, req, version, table>>

Request == [table: Tables, item: Ids \cup {None}, committed: Nat]

Steps == {"idle", "findToUpdate", "findToDelete", "reload", "insert", "update", "delete",
          "inserted", "updated", "deleted", "unchanged", "ok", "failed"}

\* A call to list: its query, and what the answer will be once it has been read.
Load == [query: Queries, version: Nat \cup {None}]

Table == [query: Queries, loads: SUBSET Load, shown: Load \cup {None}, failed: BOOLEAN,
          told: Nat]

Init ==
  /\ warehouse = TRUE
  /\ given \in 0..MaxItems
  /\ items \in SUBSET (1..given)
  /\ lock = [i \in Ids |-> None]
  /\ pc = [r \in Requests |-> "idle"]
  /\ req = [r \in Requests |-> None]
  /\ version = 0
  /\ \E query \in [Tables -> Queries] :
       table = [t \in Tables |->
                  [query |-> query[t], loads |-> {[query |-> query[t], version |-> None]},
                   shown |-> None, failed |-> FALSE, told |-> 0]]

(***************************************************************************)
(* Writes                                                                  *)
(***************************************************************************)
database == <<warehouse, items, given, version>>

Goto(r, step) == pc' = [pc EXCEPT ![r] = step]

Begin(r, step, t, i) ==
  /\ pc[r] = "idle"
  /\ version < MaxCommits
  /\ req' = [req EXCEPT ![r] = [table |-> t, item |-> i, committed |-> 0]]
  /\ Goto(r, step)
  /\ UNCHANGED <<database, lock, table>>

createItem(r, t) == Begin(r, "insert", t, None)

updateItem(r, t, i) == i <= given /\ Begin(r, "findToUpdate", t, i)

deleteItem(r, t, i) == i <= given /\ Begin(r, "findToDelete", t, i)

Read(r, from, step) ==
  /\ pc[r] = from
  /\ Goto(r, step)
  /\ UNCHANGED <<database, lock, req, table>>

Found(r) == req[r].item \in items

Find(r) ==
  \/ Read(r, "findToUpdate", IF Found(r) THEN "reload" ELSE "failed")
  \/ Read(r, "findToDelete", IF Found(r) THEN "delete" ELSE "failed")

\* save loads the item again: it inserts what it does not find, and updates what
\* differs.
Reload(r) ==
  \/ Read(r, "reload", "insert") /\ ~Found(r)
  \/ Read(r, "reload", "update") /\ Found(r)
  \/ Read(r, "reload", "unchanged") /\ Found(r)

Lock(i, r) == lock' = [lock EXCEPT ![i] = r]

\* A new item gets the next identifier.
Insert(r) ==
  /\ pc[r] = "insert"
  /\ LET i == IF req[r].item = None THEN given + 1 ELSE req[r].item IN
     /\ i \in Ids
     /\ lock[i] = None
     /\ IF warehouse /\ i \notin items
        THEN /\ Lock(i, r)
             /\ Goto(r, "inserted")
             /\ req' = [req EXCEPT ![r].item = i]
             /\ given' = IF i > given THEN i ELSE given
        ELSE Goto(r, "failed") /\ UNCHANGED <<lock, req, given>>
  /\ UNCHANGED <<warehouse, items, version, table>>

\* An UPDATE that finds no row changes none, and save does not notice.
Update(r) ==
  /\ pc[r] = "update"
  /\ lock[req[r].item] = None
  /\ IF Found(r) THEN Lock(req[r].item, r) /\ Goto(r, "updated")
     ELSE Goto(r, "unchanged") /\ UNCHANGED lock
  /\ UNCHANGED <<database, req, table>>

\* Mutant: the controller does not look at how many rows were deleted.
BugAffected(r) == TRUE

Affected(r) == Found(r)

Delete(r) ==
  /\ pc[r] = "delete"
  /\ lock[req[r].item] = None
  /\ IF Affected(r) THEN Lock(req[r].item, r) /\ Goto(r, "deleted")
     ELSE Goto(r, "failed") /\ UNCHANGED lock
  /\ UNCHANGED <<database, req, table>>

Unlocked(r) == [i \in Ids |-> IF lock[i] = r THEN None ELSE lock[i]]

Committing == {"inserted", "updated", "deleted", "unchanged"}

Commit(r) ==
  /\ pc[r] \in Committing
  /\ items' = CASE pc[r] = "inserted" -> items \cup {req[r].item}
                [] pc[r] = "deleted" -> items \ {req[r].item}
                [] OTHER -> items
  /\ version' = IF pc[r] = "unchanged" THEN version ELSE version + 1
  /\ req' = [req EXCEPT ![r].committed = version']
  /\ lock' = Unlocked(r)
  /\ Goto(r, "ok")
  /\ UNCHANGED <<warehouse, given, table>>

Rollback(r) ==
  /\ pc[r] \notin {"idle", "ok", "failed"}
  /\ lock' = Unlocked(r)
  /\ Goto(r, "failed")
  /\ UNCHANGED <<database, req, table>>

\* Mutant: an inserted item does not hold its warehouse.
BugHolds(r) == FALSE

Holds(r) == pc[r] = "inserted"

\* The organization is deleted, which waits for whoever holds a row of it.
DeleteWarehouse ==
  /\ warehouse
  /\ \A r \in Requests : ~Holds(r)
  /\ \A i \in Ids : i \in items => lock[i] = None
  /\ warehouse' = FALSE
  /\ items' = {}
  /\ version' = version + 1
  /\ UNCHANGED <<given, lock, pc, req, table>>

(***************************************************************************)
(* Tables                                                                  *)
(***************************************************************************)
\* Mutant: a load that is superseded is not aborted.
BugKept(loads) == loads

Kept(loads) == {}

\* The effect that loads: its cleanup has aborted the load before.
Reloading(t, query, told) ==
  [table[t] EXCEPT !.query = query, !.told = told,
                   !.loads = Kept(@) \cup {[query |-> query, version |-> None]}]

Ask(t, query) ==
  /\ query # table[t].query
  /\ table' = [table EXCEPT ![t] = Reloading(t, query, @.told)]
  /\ UNCHANGED <<database, lock, pc, req>>

ReadRows(t, l) ==
  /\ l \in table[t].loads /\ l.version = None
  /\ warehouse
  /\ table' = [table EXCEPT ![t].loads = (@ \ {l}) \cup {[l EXCEPT !.version = version]}]
  /\ UNCHANGED <<database, lock, pc, req>>

Show(t, l) ==
  /\ l \in table[t].loads /\ l.version # None
  /\ table' = [table EXCEPT ![t].loads = @ \ {l}, ![t].shown = l, ![t].failed = FALSE]
  /\ UNCHANGED <<database, lock, pc, req>>

\* Mutant: an error empties the table, so that it shows what no query asked for.
BugAfterError(t) == [query |-> None, version |-> version]

AfterError(t) == table[t].shown

FailLoad(t, l) ==
  /\ l \in table[t].loads
  /\ table' = [table EXCEPT ![t].loads = @ \ {l}, ![t].shown = AfterError(t),
                           ![t].failed = TRUE]
  /\ UNCHANGED <<database, lock, pc, req>>

\* mutate reloads when it is told that the write succeeded.
Told(r) ==
  LET t == req[r].table IN
  /\ pc[r] = "ok"
  /\ table' = [table EXCEPT ![t] =
       Reloading(t, @.query, IF req[r].committed > @.told THEN req[r].committed ELSE @.told)]
  /\ Goto(r, "idle")
  /\ req' = [req EXCEPT ![r] = None]
  /\ UNCHANGED <<database, lock>>

\* It is told of a failure, or the answer is lost, and shows a message.
NotTold(r) ==
  /\ pc[r] \in {"ok", "failed"}
  /\ Goto(r, "idle")
  /\ req' = [req EXCEPT ![r] = None]
  /\ UNCHANGED <<database, lock, table>>

Next ==
  \/ \E r \in Requests, t \in Tables :
       \/ createItem(r, t)
       \/ \E i \in Ids : updateItem(r, t, i) \/ deleteItem(r, t, i)
  \/ \E r \in Requests :
       \/ Find(r) \/ Reload(r) \/ Insert(r) \/ Update(r) \/ Delete(r)
       \/ Commit(r) \/ Rollback(r) \/ Told(r) \/ NotTold(r)
  \/ DeleteWarehouse
  \/ \E t \in Tables :
       \/ \E query \in Queries : Ask(t, query)
       \/ \E l \in table[t].loads : ReadRows(t, l) \/ Show(t, l) \/ FailLoad(t, l)

Spec == Init /\ [][Next]_vars

(***************************************************************************)
(* Properties                                                              *)
(***************************************************************************)
TypeOK ==
  /\ warehouse \in BOOLEAN
  /\ items \in SUBSET Ids
  /\ given \in 0..MaxItems
  /\ lock \in [Ids -> Requests \cup {None}]
  /\ pc \in [Requests -> Steps]
  /\ req \in [Requests -> Request \cup {None}]
  /\ version \in Nat
  /\ table \in [Tables -> Table]

\* A table that has stopped loading shows what its controls say, and at least as
\* late a state as the last write it was told of, unless it has shown an error,
\* whatever was aborted and in whichever order the answers came.
TableIsCurrent ==
  \A t \in Tables :
    table[t].loads = {} /\ ~table[t].failed =>
      /\ table[t].shown \in Load
      /\ table[t].shown.query = table[t].query
      /\ table[t].shown.version >= table[t].told

\* No write in flight adds an item to a warehouse that is being deleted.
NothingOutlivesWarehouse == ~warehouse => items = {}

\* Of the deletions of an item that succeed, each has deleted it: of two at once
\* one is told that the item was not found.
DeletesOnce ==
  [][\A r \in Requests :
       pc[r] = "deleted" /\ pc'[r] = "ok"
       => req[r].item \in items /\ req[r].item \notin items']_vars

=============================================================================
