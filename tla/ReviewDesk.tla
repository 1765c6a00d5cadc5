----------------------------- MODULE ReviewDesk -----------------------------
(***************************************************************************)
(* Human review and what follows an approval: review_action and            *)
(* finalize_review_action of pipeline/review_api.py, reconcile_review of   *)
(* broker_writer.py, create_release_package of release_core.py,            *)
(* queue_publisher_task of publisher_worker.py, and the two command lines  *)
(* release_core.py and release_adapter.py.  Several processes do this at   *)
(* once over one project: the request threads of servers and operators'    *)
(* command lines.                                                          *)
(*                                                                         *)
(* Of RootWriter this keeps that a one-file request links its file and     *)
(* then covers it with a receipt under the workspace lock, and that an     *)
(* exact repeat succeeds while other bytes or another use of the key are   *)
(* refused.  Of TaskBroker it keeps the task's status and the input of the *)
(* publisher task.  An item's other files (artifact, lineage, evidence)    *)
(* are written before its manifest by the same request.                    *)
(***************************************************************************)
EXTENDS FiniteSets, Naturals

CONSTANTS
  Items,      \* exact revisions under review
  Desks,      \* processes that review, package or adapt
  Kinds,      \* of decisions; a decline or a note with its text
  Stamps,     \* recorded_at, in seconds
  Targets,    \* platform, operation and schedule of a publication
  None,
  MaxFaults   \* bound: kills and errors of the broker or the file system

\* What a file of an item may hold.
Names == {"review", "action", "package", "request", "execution"}
Action == [kind : Kinds, at : Stamps]
Request == [at : Stamps, to : Targets]
Package == [release : Action]
Contents == [review |-> {"review"}, action |-> Action, package |-> Package,
             request |-> Request, execution |-> Package]

ASSUME DeskAssumption ==
  /\ Desks \cap Items = {}
  /\ "approve" \in Kinds /\ "hand" \notin Kinds
  /\ None \notin Items \cup Desks \cup Targets \cup Kinds \cup Stamps
  /\ \A n \in Names : None \notin Contents[n]
  /\ MaxFaults \in Nat

VARIABLES
  file,      \* the one content of each file, or None
  covered,   \* files with a receipt
  lock,      \* who holds the workspace lock: a desk, or an item's producer
  task,      \* broker status of the item's task; "none" for a run engine's item
  admitted,  \* the request that an item's publisher task was admitted with
  job,       \* what each desk is doing
  told,      \* history: the decisions that were answered as recorded
  faults

store == <<file, covered, lock>>
broker == <<task, admitted>>
vars == <<store, broker, job, told, faults>>

NoJob == [pc |-> "idle"]
Places == {"action", "recheck", "reconcile", "bundle", "package", "verify",
           "execution", "request", "queue", "answer"}
Job == [pc : Places, item : Items, kind : Kinds \cup {"hand"},
        at : Stamps \cup {None}, to : Targets \cup {None}]

\* Items that Mavery QA makes for a broker task, from a proposal.
Tasked(i) == task[i] # "none"

Visible(i) == file[<<i, "review">>] # None
Decided(i) == <<i, "action">> \in covered
Decision(i) == file[<<i, "action">>]
Approved(i) == Decided(i) /\ Decision(i).kind = "approve"

\* An action file that no receipt covers makes the project's reviews unreadable.
Leftover == \E i \in Items : Visible(i) /\ Decision(i) # None /\ ~Decided(i)
Readable == lock = None /\ ~Leftover

\* Slip: files are taken for what they are named, receipted or not.
ReleasableUnreceipted(i) ==
  Visible(i) /\ Decision(i) # None /\ Decision(i).kind = "approve"

\* _approved_bundle: the producer's receipt and the approval's.
Releasable(i) == <<i, "review">> \in covered /\ Approved(i)

Link(who, f, bytes) ==
  /\ lock = None /\ f \notin covered /\ file[f] \in {None, bytes}
  /\ file' = [file EXCEPT ![f] = bytes]
  /\ lock' = who
  /\ UNCHANGED covered

Cover(who, f) ==
  /\ lock = who
  /\ covered' = covered \cup {f}
  /\ lock' = None
  /\ UNCHANGED file

Repeated(f, bytes) == lock = None /\ f \in covered /\ file[f] = bytes
Refused(f, bytes) == lock = None /\ file[f] \notin {None, bytes}

Goes(p, to) == job' = [job EXCEPT ![p].pc = to]
Ends(p) == job' = [job EXCEPT ![p] = NoJob]

\* Slip: every decision is reconciled as an approval.
FinalizesAll(kind) == "reconcile"

\* Where a recorded decision leads, and where a job ends that fails.
Finalizes(kind) == IF kind = "approve" THEN "reconcile" ELSE "answer"
Attention(p) == IF job[p].kind = "hand" THEN Ends(p) ELSE Goes(p, "answer")

-----------------------------------------------------------------------------
(* The producer *)

\* The QA worker, or the run engine, publishes an item; a run engine that was
\* killed may be repeated, a task is not.
Present(i) ==
  /\ Tasked(i) => ~Visible(i)
  /\ Link(i, <<i, "review">>, "review")
  /\ UNCHANGED <<broker, job, told, faults>>

Receive(i) ==
  /\ Cover(i, <<i, "review">>)
  /\ UNCHANGED <<broker, job, told, faults>>

Submit(i) ==
  /\ task[i] = "running" /\ <<i, "review">> \in covered
  /\ task' = [task EXCEPT ![i] = "awaiting_review"]
  /\ UNCHANGED <<store, admitted, job, told, faults>>

TaskFails(i) ==
  /\ task[i] = "running"
  /\ task' = [task EXCEPT ![i] = "failed"]
  /\ UNCHANGED <<store, admitted, job, told, faults>>

-----------------------------------------------------------------------------
(* The decision *)

NewJob(p, pc, i, kind, at) ==
  job' = [job EXCEPT ![p] = [pc |-> pc, item |-> i, kind |-> kind, at |-> at, to |-> None]]

\* POST /api/review-actions up to the check for an existing action.
Decide(p, i, kind, at) ==
  /\ job[p] = NoJob /\ Visible(i) /\ Readable /\ ~Decided(i)
  /\ NewJob(p, "action", i, kind, at)
  /\ UNCHANGED <<store, broker, told, faults>>

\* Slip: a repeated decision is answered at once.
RepeatAnswered(p, i) ==
  /\ job[p] = NoJob /\ Visible(i) /\ Readable /\ Decided(i)
  /\ NewJob(p, "answer", i, Decision(i).kind, Decision(i).at)
  /\ UNCHANGED <<store, broker, told, faults>>

\* The same decision again: finalized again, with the stored record.
Repeat(p, i) ==
  /\ job[p] = NoJob /\ Visible(i) /\ Readable /\ Decided(i)
  /\ NewJob(p, Finalizes(Decision(i).kind), i, Decision(i).kind, Decision(i).at)
  /\ UNCHANGED <<store, broker, told, faults>>

RecordOf(p) == [kind |-> job[p].kind, at |-> job[p].at]

LinkAction(p) ==
  /\ job[p].pc = "action"
  /\ Link(p, <<job[p].item, "action">>, RecordOf(p))
  /\ UNCHANGED <<broker, job, told, faults>>

CoverAction(p) ==
  /\ job[p].pc = "action"
  /\ \/ Cover(p, <<job[p].item, "action">>)
     \/ Repeated(<<job[p].item, "action">>, RecordOf(p)) /\ UNCHANGED store
  /\ Goes(p, Finalizes(job[p].kind))
  /\ UNCHANGED <<broker, told, faults>>

ActionRefused(p) ==
  /\ job[p].pc = "action"
  /\ Refused(<<job[p].item, "action">>, RecordOf(p))
  /\ Goes(p, "recheck")
  /\ UNCHANGED <<store, broker, told, faults>>

\* Slip: whatever was decided meanwhile is this decision.
SomeDecision(p) == Decided(job[p].item)

\* _same_action_semantics: everything but recorded_at.
SameDecision(p) == Decided(job[p].item) /\ Decision(job[p].item).kind = job[p].kind

Recheck(p) ==
  /\ job[p].pc = "recheck" /\ lock = None
  /\ IF SameDecision(p)
     THEN job' = [job EXCEPT ![p].pc = Finalizes(job[p].kind),
                             ![p].at = Decision(job[p].item).at]
     ELSE Ends(p)
  /\ UNCHANGED <<store, broker, told, faults>>

\* reconcile_review and accept_verified_decision; an item of no task is skipped.
Mirrors(i) == task[i] \in {"awaiting_review", "completed"}

Reconcile(p) ==
  LET i == job[p].item IN
  /\ job[p].pc = "reconcile"
  /\ Tasked(i) => lock = None
  /\ IF Tasked(i) => (~Leftover /\ Mirrors(i))
     THEN /\ task' = IF Tasked(i) THEN [task EXCEPT ![i] = "completed"] ELSE task
          /\ Goes(p, "bundle")
     ELSE Goes(p, "answer") /\ UNCHANGED task
  /\ UNCHANGED <<store, admitted, told, faults>>

-----------------------------------------------------------------------------
(* The release package and the publisher's request *)

\* create_release_package by hand.
PackageByHand(p, i) ==
  /\ job[p] = NoJob
  /\ NewJob(p, "bundle", i, "hand", None)
  /\ UNCHANGED <<store, broker, told, faults>>

Bundle(p) ==
  /\ job[p].pc = "bundle"
  /\ IF Releasable(job[p].item) THEN Goes(p, "package") ELSE Attention(p)
  /\ UNCHANGED <<store, broker, told, faults>>

\* create_package_value: the same bytes for every caller.
PackageOf(i) == [release |-> Decision(i)]

LinkPackage(p) ==
  /\ job[p].pc = "package"
  /\ Link(p, <<job[p].item, "package">>, PackageOf(job[p].item))
  /\ UNCHANGED <<broker, job, told, faults>>

\* Publishing is enabled or not, and the target read, after the package.
AfterPackage(p) ==
  \/ Attention(p)
  \/ /\ job[p].kind # "hand" /\ Tasked(job[p].item)
     /\ \E to \in Targets : job' = [job EXCEPT ![p].pc = "request", ![p].to = to]

CoverPackage(p) ==
  /\ job[p].pc = "package"
  /\ \/ Cover(p, <<job[p].item, "package">>)
     \/ Repeated(<<job[p].item, "package">>, PackageOf(job[p].item)) /\ UNCHANGED store
  /\ AfterPackage(p)
  /\ UNCHANGED <<broker, told, faults>>

RequestOf(p) == [at |-> job[p].at, to |-> job[p].to]

LinkRequest(p) ==
  /\ job[p].pc = "request"
  /\ Link(p, <<job[p].item, "request">>, RequestOf(p))
  /\ UNCHANGED <<broker, job, told, faults>>

CoverRequest(p) ==
  /\ job[p].pc = "request"
  /\ \/ Cover(p, <<job[p].item, "request">>)
     \/ Repeated(<<job[p].item, "request">>, RequestOf(p)) /\ UNCHANGED store
  /\ Goes(p, "queue")
  /\ UNCHANGED <<broker, told, faults>>

\* Another target than the first request's: one key, other bytes.
RequestRefused(p) ==
  /\ job[p].pc = "request"
  /\ Refused(<<job[p].item, "request">>, RequestOf(p))
  /\ Goes(p, "answer")
  /\ UNCHANGED <<store, broker, told, faults>>

\* TaskBroker.admit of the publisher task, or the replay of its admission.
Queue(p) ==
  /\ job[p].pc = "queue"
  /\ admitted[job[p].item] \in {None, RequestOf(p)}
  /\ admitted' = [admitted EXCEPT ![job[p].item] = RequestOf(p)]
  /\ Goes(p, "answer")
  /\ UNCHANGED <<store, task, told, faults>>

Answer(p) ==
  /\ job[p].pc = "answer"
  /\ told' = told \cup {[item |-> job[p].item, record |-> RecordOf(p)]}
  /\ Ends(p)
  /\ UNCHANGED <<store, broker, faults>>

-----------------------------------------------------------------------------
(* The local release adapter *)

\* execute_release_adapter by hand, with load_verified_release_package.
Adapt(p, i) ==
  /\ job[p] = NoJob
  /\ NewJob(p, "verify", i, "hand", None)
  /\ UNCHANGED <<store, broker, told, faults>>

Verify(p) ==
  LET i == job[p].item IN
  /\ job[p].pc = "verify"
  /\ IF /\ <<i, "package">> \in covered /\ Releasable(i)
        /\ file[<<i, "package">>] = PackageOf(i)
     THEN Goes(p, "execution") ELSE Ends(p)
  /\ UNCHANGED <<store, broker, told, faults>>

\* The adapter's request, output, receipt, proof and outcome, for the package.
ExecutionOf(i) == file[<<i, "package">>]

LinkExecution(p) ==
  /\ job[p].pc = "execution"
  /\ Link(p, <<job[p].item, "execution">>, ExecutionOf(job[p].item))
  /\ UNCHANGED <<broker, job, told, faults>>

CoverExecution(p) ==
  /\ job[p].pc = "execution"
  /\ \/ Cover(p, <<job[p].item, "execution">>)
     \/ Repeated(<<job[p].item, "execution">>, ExecutionOf(job[p].item)) /\ UNCHANGED store
  /\ Ends(p)
  /\ UNCHANGED <<broker, told, faults>>

-----------------------------------------------------------------------------
(* Faults *)

\* SIGKILL of a desk or of a producer that holds the lock.
Killed(who) ==
  /\ faults < MaxFaults
  /\ \/ who \in Desks /\ job[who] # NoJob
     \/ who \in Items /\ lock = who
  /\ job' = IF who \in Desks THEN [job EXCEPT ![who] = NoJob] ELSE job
  /\ lock' = IF lock = who THEN None ELSE lock
  /\ faults' = faults + 1
  /\ UNCHANGED <<file, covered, broker, told>>

\* OSError or sqlite3.Error while an approval is finalized.
Trouble(p) ==
  /\ faults < MaxFaults /\ lock # p
  /\ job[p].pc \in {"reconcile", "package", "request", "queue"}
  /\ Attention(p)
  /\ faults' = faults + 1
  /\ UNCHANGED <<store, broker, told>>

Init ==
  /\ file = [f \in Items \X Names |-> None]
  /\ covered = {}
  /\ lock = None
  /\ task \in [Items -> {"none", "running"}]
  /\ admitted = [i \in Items |-> None]
  /\ job = [p \in Desks |-> NoJob]
  /\ told = {}
  /\ faults = 0

Reviewing(p) == LinkAction(p) \/ CoverAction(p) \/ ActionRefused(p) \/ Recheck(p)
Finalizing(p) ==
  \/ Reconcile(p) \/ Bundle(p) \/ LinkPackage(p) \/ CoverPackage(p) \/ LinkRequest(p)
  \/ CoverRequest(p) \/ RequestRefused(p) \/ Queue(p) \/ Answer(p)
Adapting(p) == Verify(p) \/ LinkExecution(p) \/ CoverExecution(p)
Producing(i) == Present(i) \/ Receive(i) \/ Submit(i) \/ TaskFails(i)

Calls(p, i) ==
  \/ \E kind \in Kinds, at \in Stamps : Decide(p, i, kind, at)
  \/ Repeat(p, i) \/ PackageByHand(p, i) \/ Adapt(p, i)

Next ==
  \/ \E i \in Items : Producing(i)
  \/ \E p \in Desks : Reviewing(p) \/ Finalizing(p) \/ Adapting(p) \/ Trouble(p)
  \/ \E p \in Desks, i \in Items : Calls(p, i)
  \/ \E who \in Desks \cup Items : Killed(who)

Spec == Init /\ [][Next]_vars

\* Processes that are not killed go on, the lock is fair, and the operator
\* repeats an approval.
FairSpec ==
  /\ Spec
  /\ \A i \in Items : WF_vars(Receive(i))
  /\ \A p \in Desks : SF_vars(Reviewing(p) \/ Finalizing(p) \/ Adapting(p))
  /\ \A i \in Items : SF_vars(\E p \in Desks : Approved(i) /\ Repeat(p, i))

-----------------------------------------------------------------------------
(* What the desk promises *)

\* Each file holds what its name says, a receipt covers a file that is there,
\* and each desk is at a place of its code.
DeskTypeOK ==
  /\ DOMAIN file = Items \X Names
  /\ \A f \in Items \X Names : file[f] \in Contents[f[2]] \cup {None}
  /\ covered \subseteq {f \in Items \X Names : file[f] # None}
  /\ lock \in Desks \cup Items \cup {None}
  /\ task \in [Items -> {"none", "running", "awaiting_review", "completed", "failed"}]
  /\ admitted \in [Items -> Request \cup {None}]
  /\ job \in [Desks -> Job \cup {NoJob}]
  /\ told \subseteq [item : Items, record : Action]
  /\ faults \in 0..MaxFaults

\* A decision that an operator was told of is the one the project keeps, for
\* good and with its receipt, whoever else decided at the same time.
DecisionStands ==
  \A t \in told : Decided(t.item) /\ Decision(t.item) = t.record

\* Nothing of an item's release exists, not even a leftover of a killed
\* process, without everything it follows from: the execution and the request
\* a receipted package, the package a receipted approval of a receipted item.
ChainOfProof ==
  \A i \in Items :
    /\ file[<<i, "package">>] # None => /\ <<i, "review">> \in covered /\ Approved(i)
                                     /\ file[<<i, "package">>] = PackageOf(i)
    /\ file[<<i, "request">>] # None => <<i, "package">> \in covered
                                     /\ file[<<i, "request">>].at = Decision(i).at
    /\ file[<<i, "execution">>] # None => <<i, "package">> \in covered
    /\ admitted[i] # None => <<i, "request">> \in covered /\ file[<<i, "request">>] = admitted[i]

\* The refinement: what receipts and the broker show is the abstract approval.
Abstract == INSTANCE Approval WITH
  Undecided <- None,
  decision <- [i \in Items |-> IF Decided(i) THEN Decision(i).kind ELSE None],
  closed <- {i \in Items : task[i] = "completed"},
  released <- {i \in Items : <<i, "package">> \in covered},
  queued <- {i \in Items : admitted[i] # None}

\* Concurrent desks, command lines and kills implement Approval.
ImplementsApproval == Abstract!Life

\* An approval that the operator repeats ends in a package, through kills and
\* errors, unless some action file of the project lost its receipt.
Awaited(i) == Releasable(i) /\ (Tasked(i) => Mirrors(i))
ApprovalsRelease ==
  \A i \in Items : Awaited(i) ~> (<<i, "package">> \in covered \/ Leftover)

\* contracts/task-broker-v1.md: decline closes the reviewed task as cancelled.
DeclineCloses ==
  \A i \in Items :
    (Decided(i) /\ Decision(i).kind = "decline" /\ task[i] = "awaiting_review")
      ~> task[i] # "awaiting_review"
=============================================================================
