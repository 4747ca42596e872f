--------------------------- MODULE MCMembership ---------------------------
(* Instances of Membership for TLC: users and requests are model values. *)
EXTENDS Membership, TLC

Symmetry == Permutations(Users) \cup Permutations(Requests)

=============================================================================
