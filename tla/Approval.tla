------------------------------ MODULE Approval ------------------------------
(***************************************************************************)
(* What a human decision is worth (pipeline/release_core.py: an approved-  *)
(* only boundary): an item is decided once and for good, and only after an *)
(* approval its task completes, its package is released, and a publisher   *)
(* is set to work with the package.                                        *)
(***************************************************************************)
CONSTANTS Items, Kinds, Undecided

VARIABLES
  decision,  \* of each item
  closed,    \* items whose broker task was completed
  released,  \* items with a release package
  queued     \* items whose publisher task was admitted

approvalVars == <<decision, closed, released, queued>>

Start ==
  /\ decision = [i \in Items |-> Undecided]
  /\ closed = {} /\ released = {} /\ queued = {}

Decide(i) ==
  /\ decision[i] = Undecided
  /\ \E kind \in Kinds :
       decision' = [decision EXCEPT ![i] = kind]
  /\ UNCHANGED <<closed, released, queued>>

Close(i) ==
  /\ decision[i] = "approve"
  /\ closed' = closed \cup {i}
  /\ UNCHANGED <<decision, released, queued>>

Release(i) ==
  /\ decision[i] = "approve"
  /\ released' = released \cup {i}
  /\ UNCHANGED <<decision, closed, queued>>

Queue(i) ==
  /\ i \in closed \cap released
  /\ queued' = queued \cup {i}
  /\ UNCHANGED <<decision, closed, released>>

Move == \E i \in Items : Decide(i) \/ Close(i) \/ Release(i) \/ Queue(i)

Life == Start /\ [][Move]_approvalVars
=============================================================================
