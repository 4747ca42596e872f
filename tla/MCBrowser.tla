----------------------------- MODULE MCBrowser -----------------------------
(***************************************************************************)
(* What browsers hold and show, checked part by part: the table of items   *)
(* with the writes behind it, the cookies that two tabs share, the state   *)
(* of the subscription, and the page of the active warehouse.  The parts   *)
(* share no state: a behavior belongs to one of them, and the variables of *)
(* the others keep their initial values.                                   *)
(***************************************************************************)
EXTENDS Inventory, Browser, TLC

VARIABLE part

MCInit ==
  /\ part \in {"inventory", "tabs", "checkout", "page"}
  /\ Init /\ (part = "inventory" \/ given = 0)
  /\ WPInit /\ (part = "page" \/ \A w \in Warehouses : roles[w] = Unset)
  /\ CLInit /\ COInit

MCNext ==
  /\ UNCHANGED part
  /\ \/ part = "inventory" /\ Next /\ UNCHANGED <<clVars, coVars, wpVars>>
     \/ part = "tabs" /\ CLNext /\ UNCHANGED <<vars, coVars, wpVars>>
     \/ part = "checkout" /\ CONext /\ UNCHANGED <<vars, clVars, wpVars>>
     \/ part = "page" /\ WPNext /\ UNCHANGED <<vars, clVars, coVars>>

mcVars == <<part, vars, clVars, coVars, wpVars>>

MCSpec == MCInit /\ [][MCNext]_mcVars

Symmetry == Permutations(Queries) \cup Permutations(Requests)

=============================================================================
