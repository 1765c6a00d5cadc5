------------------------------ MODULE RunEngine ------------------------------
(***************************************************************************)
(* One run of a route: pipeline/coordinator.py (prepare_run) starts it and *)
(* pipeline/run_engine.py (accept_result) advances it, one submission at a *)
(* time under the run's lock.  All state is files that the root writer     *)
(* publishes one after the other, a receipt last; both writers of a run    *)
(* may be killed between two of them.                                      *)
(*                                                                         *)
(* A file's content is the value it is made from and stands for its hash.  *)
(* A task's bytes vary with its created_at alone (the rest is fixed by the *)
(* run); a result and the artifacts submitted with it are one file.        *)
(* Validation of schemas, roles, authority, evidence and limits only       *)
(* rejects before anything is written, and a rejected call is no step.     *)
(***************************************************************************)
EXTENDS Naturals, FiniteSets

CONSTANTS
  Nodes,       \* active nodes of the route
  Place,       \* the place of each in the route's list
  Deps,        \* depends_on of each node
  Governance,  \* the route's governance node
  Producer,    \* the route's final product node
  Cap,         \* max_concurrent_workhorses
  Coordinator, \* the writer key of prepare_run
  Outcomes,    \* result statuses that workers submit
  Stamps,      \* created_at of results, and requested_at of the plan
  PlanStamp,   \* requested_at of the plan
  Missing,     \* no such file, pointer or stamp
  MaxKills     \* bound on the kills, for TLC

\* The registry checks that the first node depends on nothing and that
\* governance follows the final product, which is another node.
ASSUME RouteAssumption ==
  /\ IsFiniteSet(Nodes)
  /\ Place \in [Nodes -> 1..Cardinality(Nodes)]
  /\ \A n, k \in Nodes : Place[n] = Place[k] => n = k
  /\ Deps \in [Nodes -> SUBSET Nodes]
  /\ \E n \in Nodes : Place[n] = 1 /\ Deps[n] = {}
  /\ Governance \in Nodes /\ Producer \in Deps[Governance] \ {Governance}
  /\ Cap \in 1..8
  /\ Outcomes \subseteq {"completed", "blocked", "needs_attention", "failed"}
  /\ PlanStamp \in Stamps
  /\ Coordinator \notin Nodes
  /\ MaxKills \in Nat

\* _check_acyclic: among any nodes is one that depends on none of the others.
Acyclic ==
  \A S \in SUBSET Nodes : S # {} => \E n \in S : Deps[n] \cap S = {}

\* The registry checks the first.  The second, that every node leads to
\* governance, holds of all routes under agents/routes: who starts there and
\* goes back along depends_on meets every node.
ASSUME GovernanceIsLast ==
  /\ Acyclic
  /\ \A S \in SUBSET Nodes :
       Governance \in S /\ (\A n \in S : Deps[n] \subseteq S) => S = Nodes

VARIABLES
  file,    \* content of each file
  receipt, \* what the receipt under each writer key lists; nothing: no receipt
  job,     \* the writer request being published under the run's lock
  kills,   \* kills so far
  told     \* submissions some caller was told are accepted

vars == <<file, receipt, job, kills, told>>

-----------------------------------------------------------------------------
(* Files *)

Revisions == 1..(Cardinality(Nodes) + 1)

\* A file: its kind, and the node or the revision it belongs to.
Refs ==
  ({"task", "result"} \X Nodes) \cup {<<"review", Producer>>}
  \cup ({"manifest"} \X Revisions)

Submission == [outcome : Outcomes, at : Stamps]

Reviews == [product : Submission \cup {Missing}, verdict : Submission]

\* The revisions of run-manifest@2.
Manifests ==
  [revision : Revisions,
   status : {"queued", "running", "blocked", "failed", "awaiting_review"},
   task : [Nodes -> {"absent", "queued"} \cup Outcomes],
   stamp : [Nodes -> Stamps \cup {Missing}],
   result : [Nodes -> Submission \cup {Missing}],
   review : Reviews \cup {Missing}]

ASSUME MissingAssumption ==
  /\ Missing \notin Nodes \cup {Coordinator}
  /\ Missing \notin Stamps /\ Missing \notin Submission
  /\ Missing \notin Reviews /\ Missing \notin Manifests

NoJob == [by |-> Missing, sub |-> Missing, items |-> << >>]

\* _receipt_covering: some completed receipt lists these exact bytes.
Covered(ref) ==
  \E k \in DOMAIN receipt : ref \in DOMAIN receipt[k] /\ receipt[k][ref] = file[ref]

Manifest(r) == file[<<"manifest", r>>]
Published == {r \in Revisions : Manifest(r) # Missing}

\* _latest_manifest: every revision there is must be receipted.
Readable ==
  /\ Published # {}
  /\ \A r \in Published :
       (r > 1 => r - 1 \in Published) /\ Covered(<<"manifest", r>>)

\* The manifest that calls work from.
Latest == Manifest(CHOOSE r \in Published : \A q \in Published : q <= r)

Queued(m) == {n \in Nodes : m.task[n] = "queued"}
Completed(m) == {n \in Nodes : m.task[n] = "completed"}

\* _load_task and _load_result: pinned bytes under a receipt.
TaskLoads(m, n) ==
  file[<<"task", n>>] = m.stamp[n] /\ Covered(<<"task", n>>)
ResultLoads(m, n) ==
  file[<<"result", n>>] = m.result[n] /\ Covered(<<"result", n>>)

-----------------------------------------------------------------------------
(* The next manifest *)

\* The nodes that can be queued, and those of them with an earlier place.
Ready(m) == {n \in Nodes : m.task[n] = "absent" /\ Deps[n] \subseteq Completed(m)}
Ahead(m, n) == {k \in Ready(m) : Place[k] < Place[n]}

\* Slip: tasks that have ended still count against the cap.
SlotsNotFreed(m) ==
  {n \in Ready(m) :
     Cardinality(Ahead(m, n)) + Cardinality({k \in Nodes : m.task[k] # "absent"}) < Cap}

\* _materialize_unblocked and _materialize_initial_tasks: the nodes that are
\* ready, in route order, as many as there are free slots.
Unblocked(m) ==
  {n \in Ready(m) : Cardinality(Ahead(m, n)) + Cardinality(Queued(m)) < Cap}

WithTasks(m, new, stamp) ==
  [m EXCEPT
     !.task = [n \in Nodes |-> IF n \in new THEN "queued" ELSE m.task[n]],
     !.stamp = [n \in Nodes |-> IF n \in new THEN stamp ELSE m.stamp[n]]]

NoTasks == [n \in Nodes |-> "absent"]
Nothing == [n \in Nodes |-> Missing]

Blank == [revision |-> 1, status |-> "queued", task |-> NoTasks,
          stamp |-> Nothing, result |-> Nothing, review |-> Missing]

\* The nodes that depend on nothing, up to the cap.
Roots == Unblocked(Blank)

FirstManifest == WithTasks(Blank, Roots, PlanStamp)

\* The manifest with the result of node n entered.
Entered(m, n, sub) ==
  [m EXCEPT !.revision = @ + 1, !.task[n] = sub.outcome, !.result[n] = sub]

NewTasks(m, n, sub) ==
  IF sub.outcome = "completed" THEN Unblocked(Entered(m, n, sub)) ELSE {}

Closes(n, sub) == n = Governance /\ sub.outcome = "completed"

Status(n, sub) ==
  CASE sub.outcome = "failed" -> "failed"
    [] sub.outcome \notin {"failed", "completed"} -> "blocked"
    [] Closes(n, sub) -> "awaiting_review"
    [] OTHER -> "running"

\* Slip: the verdict is looked up in the manifest that does not have it yet.
StaleReview(m, sub) ==
  [product |-> m.result[Producer], verdict |-> m.result[Governance]]

Review(m, sub) == [product |-> m.result[Producer], verdict |-> sub]

Advanced(m, n, sub) ==
  [WithTasks(Entered(m, n, sub), NewTasks(m, n, sub), sub.at) EXCEPT
     !.status = Status(n, sub),
     !.review = IF Closes(n, sub) THEN Review(m, sub) ELSE @]

\* What accept_result writes: the result, the new tasks, the review of a run
\* that closes, and the manifest.
Written(m, n, sub) ==
  {<<"result", n>>, <<"manifest", m.revision + 1>>}
  \cup ({"task"} \X NewTasks(m, n, sub))
  \cup (IF Closes(n, sub) THEN {<<"review", Producer>>} ELSE {})

Writes(m, n, sub) ==
  [ref \in Written(m, n, sub) |->
     CASE ref[1] = "result" -> sub
       [] ref[1] = "task" -> sub.at
       [] ref[1] = "review" -> Review(m, sub)
       [] OTHER -> Advanced(m, n, sub)]

\* What prepare_run writes.
Started ==
  [ref \in ({"task"} \X Roots) \cup {<<"manifest", 1>>} |->
     IF ref[1] = "task" THEN PlanStamp ELSE FirstManifest]

\* Slip: the run's status is written before what it promises.
ManifestFirst(ref) ==
  CASE ref[1] = "manifest" -> 0
    [] ref[1] = "result" -> 1
    [] ref[1] = "task" -> 1 + Place[ref[2]]
    [] OTHER -> Cardinality(Nodes) + 2

\* The order in which both list their writes.
Turn(ref) ==
  CASE ref[1] = "result" -> 0
    [] ref[1] = "task" -> Place[ref[2]]
    [] ref[1] = "review" -> Cardinality(Nodes) + 1
    [] OTHER -> Cardinality(Nodes) + 2

-----------------------------------------------------------------------------
(* Calls *)

\* apply_request begins: no receipt under the key yet.
Apply(key, sub, items) ==
  /\ DOMAIN receipt[key] = {}
  /\ job' = [by |-> key, sub |-> sub, items |-> items]

\* prepare_run, whose request is the same each time it is called.
Prepare ==
  /\ job = NoJob
  /\ Apply(Coordinator, Missing, Started)
  /\ UNCHANGED <<file, receipt, kills, told>>

\* "final governance cannot close before every planned route node completes"
MayClose(m, n, sub) ==
  Closes(n, sub) =>
    Completed(Advanced(m, n, sub)) = Nodes /\ ResultLoads(m, Producer)

\* "completed route cannot advance to final governance"
GoesOn(m, n, sub) ==
  sub.outcome = "completed" /\ n # Governance => Queued(Advanced(m, n, sub)) # {}

\* Slip: a run that has ended still takes results.
EverOpen(m) == TRUE

TakesResults(m) == m.status \in {"queued", "running"}

\* Slip: the result that is being handed in is read back before it is written.
AllInputs(w, n) == Deps[w]

\* The results that a new task w reads; that of n itself is at hand.
Inputs(w, n) == Deps[w] \ {n}

\* Where the plan has step_activation, the call also refuses a manifest with
\* more queued tasks than the cap: there is none (ImplementsRouteRun).
Accepts(m, n, sub) ==
  /\ m.task[n] = "queued" /\ TaskLoads(m, n)
  /\ TakesResults(m)
  /\ \A w \in NewTasks(m, n, sub) : \A d \in Inputs(w, n) : ResultLoads(m, d)
  /\ MayClose(m, n, sub)
  /\ GoesOn(m, n, sub)

Accept(n, sub) ==
  /\ job = NoJob
  /\ Readable
  /\ Accepts(Latest, n, sub)
  /\ Apply(n, sub, Writes(Latest, n, sub))
  /\ UNCHANGED <<file, receipt, kills, told>>

\* Slip: the answer to a repeated call does not look at its bytes.
ReplaysAny(m, n, sub) == TRUE

Replays(m, n, sub) == m.result[n] = sub

\* A result for a node that already has one: only the same bytes are answered.
Replay(n, sub) ==
  /\ job = NoJob
  /\ Readable
  /\ LET m == Latest IN
       /\ m.task[n] \in Outcomes /\ TaskLoads(m, n)
       /\ Replays(m, n, sub)
       /\ ResultLoads(m, n)
  /\ told' = told \cup {[node |-> n, sub |-> sub]}
  /\ UNCHANGED <<file, receipt, job, kills>>

-----------------------------------------------------------------------------
(* The root writer at work, and its death *)

\* The next file to write; one that has the bytes already is passed over.
Pending == {ref \in DOMAIN job.items : file[ref] # job.items[ref]}
Due(ref) == ref \in Pending /\ \A other \in Pending : Turn(ref) <= Turn(other)

Publish(ref) ==
  /\ Due(ref)
  /\ file[ref] = Missing
  /\ file' = [file EXCEPT ![ref] = job.items[ref]]
  /\ UNCHANGED <<receipt, job, kills, told>>

\* "Existing immutable target differs from the requested bytes"
Conflict(ref) ==
  /\ Due(ref)
  /\ file[ref] # Missing
  /\ job' = NoJob
  /\ UNCHANGED <<file, receipt, kills, told>>

Finish ==
  /\ job # NoJob /\ Pending = {}
  /\ receipt' = [receipt EXCEPT ![job.by] = job.items]
  /\ told' = IF job.by \in Nodes THEN told \cup {[node |-> job.by, sub |-> job.sub]}
             ELSE told
  /\ job' = NoJob
  /\ UNCHANGED <<file, kills>>

Killed ==
  /\ job # NoJob
  /\ kills < MaxKills
  /\ kills' = kills + 1
  /\ job' = NoJob
  /\ UNCHANGED <<file, receipt, told>>

-----------------------------------------------------------------------------

Init ==
  /\ file = [ref \in Refs |-> Missing]
  /\ receipt = [k \in Nodes \cup {Coordinator} |-> << >>]
  /\ job = NoJob
  /\ kills = 0
  /\ told = {}

Writer == Finish \/ \E ref \in DOMAIN job.items : Publish(ref) \/ Conflict(ref)

Submit(n) == \E sub \in Submission : Accept(n, sub)

Next ==
  \/ Prepare \/ Writer \/ Killed
  \/ \E n \in Nodes : Submit(n) \/ \E sub \in Submission : Replay(n, sub)

Spec == Init /\ [][Next]_vars

\* Worker n submits that its node is completed.
Completes(n) == \E at \in Stamps : Accept(n, [outcome |-> "completed", at |-> at])

\* A call that was begun runs on, the run is started, and a worker whose
\* completed result is accepted hands one in, unless it ends the run otherwise.
FairSpec ==
  /\ Spec
  /\ WF_vars(Writer) /\ WF_vars(Prepare)
  /\ \A n \in Nodes : SF_vars(Completes(n))

-----------------------------------------------------------------------------
(* What a run promises *)

\* A manifest is never ahead of what it points to: every task, result and
\* review it pins is in place with those bytes, at every instant, also
\* between two writes and after a kill.
PinsHold ==
  \A r \in Published :
    LET m == Manifest(r) IN
      /\ \A n \in Nodes : m.task[n] # "absent" => file[<<"task", n>>] = m.stamp[n]
      /\ \A n \in Nodes : m.result[n] # Missing => file[<<"result", n>>] = m.result[n]
      /\ m.review # Missing => file[<<"review", Producer>>] = m.review

\* "Never promoted as successful state": what a caller was told is accepted
\* stays in every later manifest, so no second answer contradicts it.
AnswersStand ==
  \A a \in told :
    /\ \A b \in told : b.node = a.node => b = a
    /\ \E r \in Published :
         /\ Covered(<<"manifest", r>>)
         /\ \A q \in Published : q >= r =>
              Manifest(q).result[a.node] = a.sub

\* What is offered to the human reviewer was produced and passed by the run's
\* own nodes, all of which are completed.
ReviewIsEarned ==
  \A r \in Published :
    LET m == Manifest(r) IN
      m.status = "awaiting_review" =>
        /\ \A n \in Nodes : m.task[n] = "completed"
        /\ m.review = [product |-> m.result[Producer],
                       verdict |-> m.result[Governance]]

\* The run comes to its review, or to a node that did not complete: a ready
\* node is never left without a slot, nor governance without its predecessors.
\* A killed call may end it for good (LeftoversInert).
RunEnds ==
  <>(\/ kills > 0
     \/ Published # {} /\ Latest.status \in {"blocked", "failed", "awaiting_review"})

-----------------------------------------------------------------------------
(* The run seen by a reader that trusts receipts only *)

Receipted == {r \in Published : Covered(<<"manifest", r>>)}

Shown ==
  LET seen == Receipted IN
    IF seen = {} THEN [status |-> "absent", task |-> NoTasks]
    ELSE Manifest(CHOOSE r \in seen : \A q \in seen : q <= r)

Phase(status) ==
  CASE status = "absent" -> "absent"
    [] status \in {"queued", "running"} -> "open"
    [] status \in {"blocked", "failed"} -> "closed"
    [] OTHER -> "awaiting_review"

Seen == INSTANCE RouteRun WITH state <- Shown.task, run <- Phase(Shown.status)

\* Seen so, each accepted submission takes effect at once, slots and
\* dependencies are respected, and an open run always has a queued task.
ImplementsRouteRun == Seen!Spec

-----------------------------------------------------------------------------
(* What the documentation promises *)

\* pipeline/README.md: "Incomplete multi-file writes remain inert without a
\* completed receipt".  Between two calls the run that was started is
\* readable, whatever an earlier call left behind.
LeftoversInert ==
  job = NoJob /\ DOMAIN receipt[Coordinator] # {} => Readable

-----------------------------------------------------------------------------

\* A run that is open always has a queued node, and a valid result of its
\* worker passes every check that accept_result makes after it has read it
\* ("cannot advance to final governance", "cannot close before every planned
\* route node completes").  Unless a kill came between, nothing of an earlier
\* call is then in the way of what it writes.
NeverStalls ==
  /\ job = NoJob /\ Readable /\ TakesResults(Latest) =>
       /\ Queued(Latest) # {}
       /\ \A n \in Queued(Latest), sub \in Submission :
            Accepts(Latest, n, sub) /\ DOMAIN receipt[n] = {}
  /\ kills = 0 => LeftoversInert /\ \A ref \in Pending : file[ref] = Missing

=============================================================================
