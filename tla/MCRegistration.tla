-------------------------- MODULE MCRegistration --------------------------
(* Instances of Registration for TLC. *)
EXTENDS Registration, TLC

Symmetry == Permutations(Tokens) \cup Permutations(Accounts) \cup Permutations(Requests)
              \cup Permutations(Emails) \cup Permutations(Usernames)

=============================================================================
