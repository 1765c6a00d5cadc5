----------------------------- MODULE AtomicStore -----------------------------
(***************************************************************************)
(* A store to which requests commit one at a time, whole and for good: the *)
(* abstraction that the root writer's receipts are for.  No two committed  *)
(* requests share a key or disagree on a path.                             *)
(***************************************************************************)
EXTENDS Sequences, Naturals

CONSTANTS Requests

VARIABLE committed

\* The files a request puts in place.
Files(r) == {r.writes[i] : i \in 1..Len(r.writes)}

Compatible(r, q) ==
  /\ r.key # q.key
  /\ \A f \in Files(r), g \in Files(q) : f.path = g.path => f.content = g.content

Commit(r) ==
  /\ r \notin committed
  /\ \A q \in committed : Compatible(r, q)
  /\ committed' = committed \cup {r}

Spec == committed = {} /\ [][\E r \in Requests : Commit(r)]_committed
=============================================================================
