----------------------------- MODULE Publisher ------------------------------
(***************************************************************************)
(* pipeline/publisher_worker.py over Delivery and the task broker: an      *)
(* approval queues one delivery task; any server's worker claims it, calls *)
(* deliver and reports.  Of TaskBroker this keeps the one task's status    *)
(* and who holds its live lease; a lease may lapse at any time.  The       *)
(* connector's command line calls deliver beside the task.                 *)
(***************************************************************************)
EXTENDS Delivery

CONSTANTS
  ApprovedAt,  \* the stamp of the approval, and so of the queued request
  CliStamps    \* stamps that operators call the connector with

ASSUME PublisherAssumption ==
  ApprovedAt \in Stamps /\ CliStamps \subseteq Stamps

VARIABLES
  request,  \* the receipted publisher request is there
  task,     \* status of the publisher task
  lessee,   \* the worker whose lease is live
  work,     \* what each process does for the task
  asset,    \* the receipt that the task was completed with
  manual    \* operators use the command line beside the task; never changes

taskVars == <<request, task, lessee, work, asset>>

allVars == <<vars, taskVars, manual>>

Works(p, what) == work' = [work EXCEPT ![p] = what]

\* Slip: whoever claimed the task once may report.
Claimant(p) == work[p] \in {"claimed", "delivering", "failing"}

\* The lease has not run out, nor has the task been fenced.
Holds(p) == lessee = p

-----------------------------------------------------------------------------
(* The approval: the request is published first, the task admitted next.   *)
(* Each approval request repeats both, and both are idempotent.            *)

Persist ==
  /\ request' = TRUE
  /\ UNCHANGED vars /\ UNCHANGED <<task, lessee, work, asset>>

Queue ==
  /\ request
  /\ task' = IF task = "absent" THEN "queued" ELSE task
  /\ UNCHANGED vars /\ UNCHANGED <<request, lessee, work, asset>>

-----------------------------------------------------------------------------
(* The worker *)

\* Slip: a task whose worker is gone is taken over.
Abandoned == task = "queued" \/ (task = "running" /\ lessee = NoProc)

Claimable == task = "queued"

\* With next = "failing", _execute claims after a failed preflight.
Claim(p, next) ==
  /\ work[p] = "free" /\ pc[p] = "idle"
  /\ Claimable
  /\ task' = "running"
  /\ lessee' = p
  /\ Works(p, next)
  /\ UNCHANGED vars /\ UNCHANGED <<request, asset>>

Begin(p) ==
  /\ work[p] = "claimed"
  /\ Call(p, ApprovedAt)
  /\ Works(p, "delivering")
  /\ UNCHANGED <<request, task, lessee, asset>>

\* Slip: completed once deliver has come back.
Ended(p) == pc[p] \in {"delivered", "raised"}

\* deliver returned a receipt, and the file is it, covered.
Verified(p) == pc[p] = "delivered" /\ "receipt" \in covered

Complete(p) ==
  /\ work[p] = "delivering"
  /\ Verified(p)
  /\ Holds(p)
  /\ task' = "completed"
  /\ asset' = file["receipt"]
  /\ lessee' = NoProc
  /\ Works(p, "free")
  /\ Return(p)
  /\ UNCHANGED request

\* Any exception, also a completion refused for a permission edited since,
\* or for the lease: broker.fail, which needs the live lease too.
GiveUp(p) ==
  /\ \/ work[p] = "failing" /\ UNCHANGED vars
     \/ work[p] = "delivering" /\ Return(p)
  /\ IF Holds(p)
     THEN task' = "failed" /\ lessee' = NoProc
     ELSE UNCHANGED <<task, lessee>>
  /\ Works(p, "free")
  /\ UNCHANGED <<request, asset>>

-----------------------------------------------------------------------------
(* Beside the worker *)

CommandLine(p, s) ==
  /\ work[p] = "free"
  /\ Call(p, s)
  /\ UNCHANGED taskVars

CommandEnds(p) ==
  /\ work[p] = "free"
  /\ Return(p)
  /\ UNCHANGED taskVars

DeliverStep(p) == Deliver(p) /\ UNCHANGED taskVars

PostizCreates(r) == Create(r) /\ UNCHANGED taskVars

\* The lease runs out; its worker may still be at work.
Lapse ==
  /\ lessee # NoProc
  /\ lessee' = NoProc
  /\ UNCHANGED vars /\ UNCHANGED <<request, task, work, asset>>

\* expire_leases
Fence ==
  /\ task = "running" /\ lessee = NoProc
  /\ task' = "failed"
  /\ UNCHANGED vars /\ UNCHANGED <<request, lessee, work, asset>>

Dies(p) ==
  /\ \/ Killed(p)
     \/ pc[p] = "idle" /\ work[p] # "free" /\ UNCHANGED vars
  /\ Works(p, "free")
  /\ UNCHANGED <<request, task, lessee, asset>>

-----------------------------------------------------------------------------

PublisherInit ==
  /\ Init
  /\ request = FALSE
  /\ task = "absent"
  /\ lessee = NoProc
  /\ work = [p \in Procs |-> "free"]
  /\ asset = Missing
  /\ manual \in BOOLEAN

PublisherStep ==
  \/ Persist \/ Queue \/ Lapse \/ Fence
  \/ \E p \in Procs :
       \/ Claim(p, "claimed") \/ Claim(p, "failing") \/ Begin(p)
       \/ DeliverStep(p) \/ Complete(p) \/ GiveUp(p) \/ Dies(p)
       \/ CommandEnds(p) \/ \E s \in CliStamps : manual /\ CommandLine(p, s)
  \/ \E r \in sent : PostizCreates(r)

PublisherNext == PublisherStep /\ UNCHANGED manual

PublisherSpec == PublisherInit /\ [][PublisherNext]_allVars

-----------------------------------------------------------------------------
(* What the publisher promises *)

PublisherTypeOK ==
  /\ TypeOK
  /\ request \in BOOLEAN
  /\ task \in {"absent", "queued", "running", "completed", "failed"}
  /\ lessee \in Procs \cup {NoProc}
  /\ work \in [Procs -> {"free", "claimed", "delivering", "failing"}]
  /\ asset \in Bytes \cup {Missing}
  /\ manual \in BOOLEAN

\* A completed task stands for a post that exists: its asset is the covered
\* receipt of a post that Postiz created.
CompletedMeansPosted ==
  task = "completed" =>
    /\ "receipt" \in covered
    /\ asset = file["receipt"]
    /\ asset.post \in posts

\* Without the command line the connector posts once, however many servers run,
\* die, outlive their leases or queue the approval again: that the broker
\* starts a task once keeps overlapping calls from the connector.
TaskPostsOnce == ~manual => Cardinality(sent) <= 1

Life == INSTANCE TaskLifecycle WITH
  Tasks <- {"publisher"},
  NoProduct <- Missing,
  phase <- [t \in {"publisher"} |-> task],
  product <- [t \in {"publisher"} |-> asset]

\* The task lives the life that the broker promises for every task.
TaskLives == Life!Spec

=============================================================================
