----------------------------- MODULE TokenLife -----------------------------
(***************************************************************************)
(* What the server promises about refresh tokens, without users, clocks,   *)
(* transactions and rows.  A token is drawn once, lives until it is        *)
(* renewed, may be renewed again for a grace period, and then is good for  *)
(* nothing; it may be gone at any time, and what is gone stays gone.       *)
(*                                                                         *)
(* Session implements this module.  The server of Client takes these steps *)
(* and no others, with the names of forgotten tokens used again.           *)
(***************************************************************************)
CONSTANTS Tokens, None

VARIABLES
  life,  \* the stage of each token
  from   \* the token in whose place it was drawn, as long as it is there

tlVars == <<life, from>>

Stages == {"unissued", "live", "grace", "old", "gone"}

Init ==
  /\ life = [t \in Tokens |-> "unissued"]
  /\ from = [t \in Tokens |-> None]

\* A session begins.
Issue(n) ==
  /\ life[n] = "unissued"
  /\ life' = [life EXCEPT ![n] = "live"]
  /\ UNCHANGED from

\* t is presented, and n takes its place.
Renew(t, n) ==
  /\ life[t] \in {"live", "grace"} /\ life[n] = "unissued"
  /\ life' = [life EXCEPT ![t] = "grace", ![n] = "live"]
  /\ from' = [from EXCEPT ![n] = t]

Ages(old, new) ==
  \/ new = old
  \/ old = "grace" /\ new = "old"
  \/ old \in {"live", "grace", "old"} /\ new = "gone"

\* Time passes, or somebody ends sessions: any number of tokens at once.
Fade ==
  /\ life' = [t \in Tokens |-> life'[t]]
  /\ \A t \in Tokens : Ages(life[t], life'[t])
  /\ from' = [t \in Tokens |-> IF life'[t] = "gone" THEN None ELSE from[t]]

Next ==
  \/ \E n \in Tokens : Issue(n)
  \/ \E t, n \in Tokens : Renew(t, n)
  \/ Fade

Spec == Init /\ [][Next]_tlVars

=============================================================================
