--------------------------- MODULE MCOrganization ---------------------------
(***************************************************************************)
(* The members of an organization: the requests that change them, and the  *)
(* pages from which they are sent, with one write of the tab under way     *)
(* while others are at work, or with two and nobody else.  The parts share *)
(* no state: a behavior belongs to one of them, and the variables of the   *)
(* others keep their initial values.                                       *)
(***************************************************************************)
EXTENDS Membership, OrganizationPage, TLC

VARIABLE part

Alone == INSTANCE OrganizationPage WITH MaxWrites <- 2, MaxChanges <- 0

MCInit ==
  /\ part \in {"requests", "pages", "alone"}
  /\ Init /\ (part = "requests" \/ \A u \in Users : role[u] = "owner")
  /\ OPInit /\ (\/ part = "pages"
                \/ (\A m \in Members : roles[m] = "owner")
                     /\ \A i \in Invites : pending[i] = Null)

MCNext ==
  /\ UNCHANGED part
  /\ \/ part = "requests" /\ Next /\ UNCHANGED opVars
     \/ part = "pages" /\ OPNext /\ UNCHANGED vars
     \/ part = "alone" /\ Alone!OPNext /\ UNCHANGED vars

mcVars == <<part, vars, opVars>>

MCSpec == MCInit /\ [][MCNext]_mcVars

Symmetry == Permutations(Users) \cup Permutations(Requests) \cup Permutations(Members)

=============================================================================
