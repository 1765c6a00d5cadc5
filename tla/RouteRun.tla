------------------------------ MODULE RouteRun ------------------------------
(***************************************************************************)
(* One run of a route as its reader sees it: nodes are queued when what    *)
(* they depend on is completed and a slot is free, end one at a time, and  *)
(* the run closes at the first node that does not complete or at the       *)
(* governance node, which ends last.                                       *)
(***************************************************************************)
EXTENDS Naturals, FiniteSets

CONSTANTS Nodes, Deps, Governance, Cap

VARIABLES
  state, \* of each node: "absent", "queued" or how it ended
  run    \* "absent", "open", "closed" or "awaiting_review"

runVars == <<state, run>>

Ended == {"completed", "blocked", "needs_attention", "failed"}

Open(s) == {n \in Nodes : s[n] = "queued"}
Done(s) == {n \in Nodes : s[n] = "completed"}

\* Nodes that were not queued before and are now had what they depend on.
Queues(old, new) ==
  /\ \A n \in Nodes : old[n] = "absent" =>
       \/ new[n] = "absent"
       \/ new[n] = "queued" /\ Deps[n] \subseteq Done(new)
  /\ Cardinality(Open(new)) <= Cap

RunInit ==
  /\ state = [n \in Nodes |-> "absent"]
  /\ run = "absent"

Begin ==
  /\ run = "absent"
  /\ run' = "open"
  /\ state' \in [Nodes -> {"absent", "queued"}]
  /\ Open(state') # {}
  /\ Queues(state, state')

Ends(n) ==
  /\ state[n] = "queued"
  /\ state'[n] \in Ended
  /\ \A m \in Nodes \ {n} : state[m] # "absent" => state'[m] = state[m]
  /\ Queues(state, state')

\* The run goes on, and somebody has something to do.
Advance(n) ==
  /\ run = "open" /\ run' = "open"
  /\ Ends(n)
  /\ state'[n] = "completed"
  /\ Open(state') # {}

Stop(n) ==
  /\ run = "open" /\ run' = "closed"
  /\ Ends(n)
  /\ state'[n] # "completed"
  /\ \A m \in Nodes : state[m] = "absent" => state'[m] = "absent"

Close ==
  /\ run = "open" /\ run' = "awaiting_review"
  /\ Ends(Governance)
  /\ Done(state') = Nodes

RunNext ==
  Begin \/ Close \/ \E n \in Open(state) \ Open(state') : Advance(n) \/ Stop(n)

Spec == RunInit /\ [][RunNext]_runVars
=============================================================================
