-------------------------- MODULE MCSubscription --------------------------
(* Instances of Subscription for TLC. *)
EXTENDS Subscription, TLC

Symmetry == Permutations(Sessions) \cup Permutations(Handlers)
              \cup Permutations(Plans)

=============================================================================
