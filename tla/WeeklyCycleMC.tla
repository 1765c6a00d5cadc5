---------------------------- MODULE WeeklyCycleMC ----------------------------
(* Two threads of the desk, three of its requests and one week. *)
EXTENDS WeeklyCycle, TLC

Sym == Permutations(Server) \cup Permutations(Ids) \cup Permutations(Topics)
=============================================================================
