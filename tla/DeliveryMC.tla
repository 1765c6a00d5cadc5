----------------------------- MODULE DeliveryMC -----------------------------
(* Two stamps and two posts: room for a conflict and for a duplicate. *)
EXTENDS Delivery, TLC

Symmetric ==
  Permutations(Procs) \cup Permutations(Stamps) \cup Permutations(Posts)

=============================================================================
