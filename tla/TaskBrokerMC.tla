---------------------------- MODULE TaskBrokerMC ----------------------------
(* Small instances of TaskBroker for TLC. *)
EXTENDS TaskBroker, TLC

Symmetry ==
  Permutations(Tasks) \cup Permutations(Tokens)
    \cup Permutations(Grants) \cup Permutations(Hashes)

=============================================================================
