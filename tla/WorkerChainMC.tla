--------------------------- MODULE WorkerChainMC ---------------------------
(* Two servers share the chain, so every thread may have a rival. *)
EXTENDS WorkerChain

Symmetric == Permutations(Servers)

=============================================================================
