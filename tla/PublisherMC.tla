---------------------------- MODULE PublisherMC -----------------------------
(* Two processes, each a server's worker or a command line. *)
EXTENDS Publisher, TLC

Symmetric == Permutations(Procs) \cup Permutations(Posts)

=============================================================================
