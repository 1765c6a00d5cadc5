---------------------------- MODULE RootWriterMC ----------------------------
(* Requests for TLC: two multi-file requests that agree on one path and     *)
(* differ on another, a reuse of the first one's key, and a request that    *)
(* needs what the first one writes.                                         *)
EXTENDS RootWriter, TLC

CONSTANTS k1, k2, k3, f1, f2, f3, a, b

W(x, c) == [path |-> x, content |-> c]

First == [key |-> k1, writes |-> <<W(f1, a), W(f2, a)>>, pre |-> {}]
Rival == [key |-> k2, writes |-> <<W(f1, a), W(f2, b)>>, pre |-> {}]
Reuse == [key |-> k1, writes |-> <<W(f1, a)>>, pre |-> {}]
After == [key |-> k3, writes |-> <<W(f3, a)>>,
          pre |-> {[path |-> f2, expected |-> a], [path |-> f3, expected |-> Missing]}]

SomeRequests == {First, Rival, Reuse, After}

=============================================================================
