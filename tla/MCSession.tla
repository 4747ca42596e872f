----------------------------- MODULE MCSession -----------------------------
(* Instances of Session for TLC: users, tokens and requests are model values. *)
EXTENDS Session, TLC

TokenSymmetry == Permutations(Tokens)

Symmetry == Permutations(Tokens) \cup Permutations(Requests)

=============================================================================
