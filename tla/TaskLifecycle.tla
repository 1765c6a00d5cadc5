---------------------------- MODULE TaskLifecycle ----------------------------
(***************************************************************************)
(* The life of a task as contracts/task-broker-v1.md promises it, without  *)
(* leases, versions, permissions or clocks.  Tasks move by themselves and  *)
(* several may move in one transaction.  What a task's work came to is     *)
(* published once, in the transaction that ends the work, and is final.    *)
(* The diagram's queued -> cancelled and running -> queued are absent: no  *)
(* code performs them.                                                     *)
(***************************************************************************)
CONSTANTS Tasks, NoProduct

VARIABLES phase, product

lifeVars == <<phase, product>>

LifeInit ==
  /\ phase = [t \in Tasks |-> "absent"]
  /\ product = [t \in Tasks |-> NoProduct]

Moves(t, from, to) == phase[t] = from /\ phase'[t] \in to

Unpublished(t) == product'[t] = product[t]

Appear(t) == Moves(t, "absent", {"queued"}) /\ Unpublished(t)
Start(t) == Moves(t, "queued", {"running"}) /\ Unpublished(t)
GiveUp(t) == Moves(t, "running", {"failed"}) /\ Unpublished(t)
Publish(t) ==
  /\ Moves(t, "running", {"awaiting_review", "completed"})
  /\ product[t] = NoProduct
  /\ product'[t] # NoProduct
Decide(t) ==
  Moves(t, "awaiting_review", {"completed", "cancelled"}) /\ Unpublished(t)
Rest(t) == phase'[t] = phase[t] /\ Unpublished(t)

LifeNext ==
  \A t \in Tasks :
    Appear(t) \/ Start(t) \/ GiveUp(t) \/ Publish(t) \/ Decide(t) \/ Rest(t)

Spec == LifeInit /\ [][LifeNext]_lifeVars
=============================================================================
