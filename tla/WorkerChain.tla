---------------------------- MODULE WorkerChain -----------------------------
(***************************************************************************)
(* One Studio proposal on its way from the inbox through research and      *)
(* marketing to Mavery QA: pipeline/inbox_worker.py, research_worker.py,   *)
(* marketing_worker.py, mavery_qa_worker.py under broker_automation.py, in *)
(* several servers over one database and one file store.  Each server has  *)
(* a desk (the request handler that routes the proposal) and a lane (its   *)
(* one worker thread).                                                     *)
(*                                                                         *)
(* Task i is the task of agent i of the chain.  Of TaskBroker this keeps   *)
(* each task's status, the input it was admitted with and whose lease is   *)
(* live; a lease may lapse at any time.  Of RootWriter it keeps that the   *)
(* files of a request are linked before the receipt that covers them.      *)
(***************************************************************************)
EXTENDS Naturals, FiniteSets, SequencesExt

CONSTANTS
  Servers,    \* the desk's server, a weekly cycle, ...
  NoThread,
  Bytes,      \* what an agent's output may be
  NoBytes,
  Proposal,   \* the bytes of the proposal, and of the inbox's handoff of it
  Revocable,  \* agents whose permission is edited meanwhile
  MaxKills    \* bound: kills of servers

Agents == <<"inbox", "research", "marketing", "mavery-qa">>
Inbox == 1
Research == 2
MaveryQA == 4
Tasks == 1..Len(Agents)

ASSUME ChainAssumption ==
  /\ Proposal \in Bytes /\ NoBytes \notin Bytes
  /\ NoThread \notin Servers \X {"desk", "lane"}
  /\ Revocable \subseteq Tasks
  /\ MaxKills \in Nat

VARIABLES
  status,   \* of each task
  lessee,   \* the thread whose lease on the task is live
  input,    \* what each task was admitted with; at Len(Agents) + 1 what QA published
  file,     \* the output files of each task
  covered,  \* tasks whose output has its writer receipt
  granted,  \* agents that the permission file allows
  up,       \* servers that run and are not being closed
  queue,    \* each server's futures that are not done; the first one executes
  pc,       \* where each thread is
  made,     \* the output in the memory of each server's lane
  runs,     \* history: how often each task's model was called
  kills

broker == <<status, lessee, input>>
files == <<file, covered>>
memory == <<queue, pc, made>>
vars == <<broker, files, granted, up, memory, runs, kills>>

Desk(s) == <<s, "desk">>
Lane(s) == <<s, "lane">>
Threads == Servers \X {"desk", "lane"}

Goes(t, place) == pc' = [pc EXCEPT ![t] = place]

\* The task of the lane's executing future.
Current(s) == Head(queue[s])

-----------------------------------------------------------------------------
(* What threads ask of the broker and of the writer *)

\* Slip: a running task whose lease lapsed is taken over.
TakenOver(i) ==
  /\ status[i] = "queued" \/ (status[i] = "running" /\ lessee[i] = NoThread)
  /\ i \in granted

Claimable(i) == status[i] = "queued" /\ i \in granted

Claim(t, i) ==
  /\ Claimable(i)
  /\ status' = [status EXCEPT ![i] = "running"]
  /\ lessee' = [lessee EXCEPT ![i] = t]
  /\ UNCHANGED input

Holds(t, i) == status[i] = "running" /\ lessee[i] = t

\* Slip: the parent is left to complete itself.
OnlyChild(i) == [status EXCEPT ![i + 1] = "queued"]

\* Parent and child change in one transaction.
HandedOn(i) == [status EXCEPT ![i] = "completed", ![i + 1] = "queued"]

Delegate(t, i, b) ==
  /\ Holds(t, i)
  /\ {i, i + 1} \subseteq granted
  /\ status' = HandedOn(i)
  /\ input' = [input EXCEPT ![i + 1] = b]
  /\ lessee' = [lessee EXCEPT ![i] = NoThread]

\* accept_writer_result: the receipt is checked again, then the task ends.
AcceptResult(t, i, b) ==
  /\ i \in covered /\ file[i] = b
  /\ Holds(t, i) /\ i \in granted
  /\ status' = [status EXCEPT ![i] = "awaiting_review"]
  /\ input' = [input EXCEPT ![i + 1] = b]
  /\ lessee' = [lessee EXCEPT ![i] = NoThread]

\* Slip: an exception is not reported to the broker.
FailSilently(t, i) == UNCHANGED broker

\* broker.fail, which needs the live lease; without it nothing changes.
Fail(t, i) ==
  /\ IF Holds(t, i)
     THEN /\ status' = [status EXCEPT ![i] = "failed"]
          /\ lessee' = [lessee EXCEPT ![i] = NoThread]
     ELSE UNCHANGED <<status, lessee>>
  /\ UNCHANGED input

\* Exclusive create; the same bytes may be there from a killed attempt.
Link(i, b) ==
  /\ file[i] \in {NoBytes, b}
  /\ file' = [file EXCEPT ![i] = b]
  /\ UNCHANGED covered

Cover(i) ==
  /\ covered' = covered \cup {i}
  /\ UNCHANGED file

\* Slip: a busy lane takes nothing more.
StartedIfFree(s, i, q) ==
  IF up[s] /\ q = << >> /\ Claimable(i) THEN Append(q, i) ELSE q

\* BrokerAutomation.start: one future per task and server; a pool that was
\* shut down takes none.
Started(s, i, q) ==
  IF up[s] /\ i \notin ToSet(q) /\ Claimable(i) THEN Append(q, i) ELSE q

-----------------------------------------------------------------------------
(* The desk: admit_studio_proposal and route_task *)

\* admit_event for a proposal that the operator saves, or saves again.
Submit(s) ==
  /\ up[s] /\ pc[Desk(s)] = "idle"
  /\ \/ /\ status[Inbox] = "absent" /\ Inbox \in granted
        /\ status' = [status EXCEPT ![Inbox] = "queued"]
        /\ input' = [input EXCEPT ![Inbox] = Proposal]
        /\ Goes(Desk(s), "admitted")
     \/ /\ status[Inbox] \in {"queued", "completed"}
        /\ Goes(Desk(s), IF status[Inbox] = "queued" THEN "admitted" ELSE "rejoining")
        /\ UNCHANGED <<status, input>>
  /\ UNCHANGED <<lessee, files, granted, up, queue, made, runs, kills>>

\* route_task up to its writer call.
Route(s) ==
  /\ pc[Desk(s)] = "admitted"
  /\ status[Inbox] = "queued" /\ Research \in granted
  /\ Goes(Desk(s), "routing")
  /\ UNCHANGED <<broker, files, granted, up, queue, made, runs, kills>>

\* The task that the chain of a completed inbox task has come to.
Frontier(i) ==
  /\ \A j \in 1..(i - 1) : status[j] = "completed"
  /\ i = MaveryQA \/ status[i] # "completed"

\* A repeated request starts the task at which its chain was left.
Rejoin(s) ==
  /\ pc[Desk(s)] = "rejoining"
  /\ \E i \in Research..MaveryQA :
       /\ Frontier(i)
       /\ queue' = [queue EXCEPT ![s] = Started(s, i, @)]
  /\ Goes(Desk(s), "idle")
  /\ UNCHANGED <<broker, files, granted, up, made, runs, kills>>

LinkHandoff(s) ==
  /\ pc[Desk(s)] = "routing"
  /\ Link(Inbox, Proposal)
  /\ Goes(Desk(s), "linked")
  /\ UNCHANGED <<broker, granted, up, queue, made, runs, kills>>

CoverHandoff(s) ==
  /\ pc[Desk(s)] = "linked"
  /\ Cover(Inbox)
  /\ Goes(Desk(s), "written")
  /\ UNCHANGED <<broker, granted, up, queue, made, runs, kills>>

ClaimInbox(s) ==
  /\ pc[Desk(s)] = "written"
  /\ Claim(Desk(s), Inbox)
  /\ Goes(Desk(s), "claimed")
  /\ UNCHANGED <<files, granted, up, queue, made, runs, kills>>

DelegateInbox(s) ==
  /\ pc[Desk(s)] = "claimed"
  /\ Delegate(Desk(s), Inbox, Proposal)
  /\ Goes(Desk(s), "handed")
  /\ UNCHANGED <<files, granted, up, queue, made, runs, kills>>

StartResearch(s) ==
  /\ pc[Desk(s)] = "handed"
  /\ queue' = [queue EXCEPT ![s] = Started(s, Research, @)]
  /\ Goes(Desk(s), "idle")
  /\ UNCHANGED <<broker, files, granted, up, made, runs, kills>>

\* "Retry safely": an exception; a claimed inbox task is failed first.
TurnAway(s) ==
  /\ pc[Desk(s)] \in {"admitted", "rejoining", "routing", "linked", "written", "claimed"}
  /\ IF pc[Desk(s)] = "claimed"
     THEN Fail(Desk(s), Inbox)
     ELSE UNCHANGED broker
  /\ Goes(Desk(s), "idle")
  /\ UNCHANGED <<files, granted, up, queue, made, runs, kills>>

-----------------------------------------------------------------------------
(* The lane: _execute and the three workers *)

At(s, place) == pc[Lane(s)] = place

\* Grants that a worker asks for before it claims.
Needs(i) == IF i = Research THEN {Research} ELSE {MaveryQA}

\* The next future begins: the input must be the bytes that were admitted.
Preflight(s) ==
  /\ At(s, "idle") /\ queue[s] # << >>
  /\ LET i == Current(s) IN
       /\ status[i] = "queued"
       /\ Needs(i) \subseteq granted
       /\ file[i - 1] = input[i]
  /\ Goes(Lane(s), "ready")
  /\ UNCHANGED <<broker, files, granted, up, queue, made, runs, kills>>

\* Material is missing, the prompt is too long, the task is not queued.
PreflightFails(s) ==
  /\ At(s, "idle") /\ queue[s] # << >>
  /\ Goes(Lane(s), "raised")
  /\ UNCHANGED <<broker, files, granted, up, queue, made, runs, kills>>

ClaimTask(s) ==
  /\ At(s, "ready")
  /\ Claim(Lane(s), Current(s))
  /\ Goes(Lane(s), "generating")
  /\ runs' = [runs EXCEPT ![Current(s)] = @ + 1]
  /\ UNCHANGED <<files, granted, up, queue, made, kills>>

ClaimRefused(s) ==
  /\ At(s, "ready") /\ ~Claimable(Current(s))
  /\ Goes(Lane(s), "raised")
  /\ UNCHANGED <<broker, files, granted, up, queue, made, runs, kills>>

\* codex_worker.generate returns; its bytes are known to this lane only.
Generate(s, b) ==
  /\ At(s, "generating")
  /\ made' = [made EXCEPT ![s] = b]
  /\ Goes(Lane(s), "writing")
  /\ UNCHANGED <<broker, files, granted, up, queue, runs, kills>>

LinkOutput(s) ==
  /\ At(s, "writing")
  /\ Link(Current(s), made[s])
  /\ Goes(Lane(s), "linked")
  /\ UNCHANGED <<broker, granted, up, queue, made, runs, kills>>

CoverOutput(s) ==
  /\ At(s, "linked")
  /\ Cover(Current(s))
  /\ Goes(Lane(s), "written")
  /\ UNCHANGED <<broker, granted, up, queue, made, runs, kills>>

\* Slip: the output is handed on before the writer has returned.
WrittenOrLinked(s) == At(s, "written") \/ At(s, "linked")

Written(s) == At(s, "written")

HandOn(s) ==
  /\ Written(s) /\ Current(s) # MaveryQA
  /\ Delegate(Lane(s), Current(s), made[s])
  /\ Goes(Lane(s), "handed")
  /\ UNCHANGED <<files, granted, up, queue, made, runs, kills>>

\* The future is done: q are those left.
Done(s, q) ==
  /\ queue' = [queue EXCEPT ![s] = q]
  /\ made' = [made EXCEPT ![s] = NoBytes]
  /\ Goes(Lane(s), "idle")

\* The lane starts the child while its own future still counts as pending.
StartNext(s) ==
  /\ At(s, "handed")
  /\ Done(s, Tail(Started(s, Current(s) + 1, queue[s])))
  /\ UNCHANGED <<broker, files, granted, up, runs, kills>>

SubmitForReview(s) ==
  /\ Written(s) /\ Current(s) = MaveryQA
  /\ AcceptResult(Lane(s), MaveryQA, made[s])
  /\ Done(s, Tail(queue[s]))
  /\ UNCHANGED <<files, granted, up, runs, kills>>

\* Any exception after the claim, the broker's refusals included.
WorkFails(s) ==
  /\ pc[Lane(s)] \in {"generating", "writing", "linked", "written"}
  /\ Goes(Lane(s), "failing")
  /\ UNCHANGED <<broker, files, granted, up, queue, made, runs, kills>>

ReportFailure(s) ==
  /\ At(s, "failing")
  /\ Fail(Lane(s), Current(s))
  /\ Goes(Lane(s), "raised")
  /\ UNCHANGED <<files, granted, up, queue, made, runs, kills>>

\* _execute makes a failure before the claim visible: it claims the task in
\* order to fail it.
ClaimToFail(s) ==
  /\ At(s, "raised")
  /\ Claim(Lane(s), Current(s))
  /\ Goes(Lane(s), "failing")
  /\ UNCHANGED <<files, granted, up, queue, made, runs, kills>>

Abandon(s) ==
  /\ At(s, "raised") /\ ~Claimable(Current(s))
  /\ Done(s, Tail(queue[s]))
  /\ UNCHANGED <<broker, files, granted, up, runs, kills>>

-----------------------------------------------------------------------------
(* Servers, leases and permissions *)

\* ReviewService.close: the pool drains what it has and takes no more.
Close(s) ==
  /\ up[s]
  /\ up' = [up EXCEPT ![s] = FALSE]
  /\ UNCHANGED <<broker, files, granted, memory, runs, kills>>

\* The process dies; desk threads are daemons, so an exit kills them too.
Kill(s) ==
  /\ kills < MaxKills
  /\ kills' = kills + 1
  /\ up' = [up EXCEPT ![s] = FALSE]
  /\ queue' = [queue EXCEPT ![s] = << >>]
  /\ made' = [made EXCEPT ![s] = NoBytes]
  /\ pc' = [pc EXCEPT ![Desk(s)] = "idle", ![Lane(s)] = "idle"]
  /\ UNCHANGED <<broker, files, granted, runs>>

\* Slip: a later agent's task is left to its parent's worker.
OnlyResearch == {i \in {Research} : status[i] = "queued"}

\* The tasks that _resume_pipeline_tasks selects.
Queued == {i \in Research..MaveryQA : status[i] = "queued"}

\* A server comes up again only if none of them is refused.  Their order is
\* left open; a chain has one of them at most.
Restart(s) ==
  /\ ~up[s] /\ queue[s] = << >> /\ pc[Desk(s)] = "idle"
  /\ Queued \subseteq granted
  /\ up' = [up EXCEPT ![s] = TRUE]
  /\ \E q \in BoundedSeq(Research..MaveryQA, Cardinality(Queued)) :
       /\ IsInjective(q) /\ ToSet(q) = Queued
       /\ queue' = [queue EXCEPT ![s] = q]
  /\ UNCHANGED <<broker, files, granted, pc, made, runs, kills>>

\* lease_expires_at passes.
Lapse(i) ==
  /\ lessee[i] # NoThread
  /\ lessee' = [lessee EXCEPT ![i] = NoThread]
  /\ UNCHANGED <<status, input, files, granted, up, memory, runs, kills>>

PermissionEdited(i) ==
  /\ granted' = IF i \in granted THEN granted \ {i} ELSE granted \cup {i}
  /\ UNCHANGED <<broker, files, up, memory, runs, kills>>

-----------------------------------------------------------------------------

Init ==
  /\ status = [i \in Tasks |-> "absent"]
  /\ lessee = [i \in Tasks |-> NoThread]
  /\ input = [i \in 1..(Len(Agents) + 1) |-> NoBytes]
  /\ file = [i \in Tasks |-> NoBytes]
  /\ covered = {}
  /\ granted = Tasks
  /\ up = [s \in Servers |-> TRUE]
  /\ queue = [s \in Servers |-> << >>]
  /\ pc = [t \in Threads |-> "idle"]
  /\ made = [s \in Servers |-> NoBytes]
  /\ runs = [i \in Tasks |-> 0]
  /\ kills = 0

DeskStep(s) ==
  \/ Route(s) \/ Rejoin(s) \/ LinkHandoff(s) \/ CoverHandoff(s)
  \/ ClaimInbox(s) \/ DelegateInbox(s) \/ StartResearch(s) \/ TurnAway(s)

LaneStep(s) ==
  \/ Preflight(s) \/ PreflightFails(s) \/ ClaimTask(s) \/ ClaimRefused(s)
  \/ \E b \in Bytes : Generate(s, b)
  \/ LinkOutput(s) \/ CoverOutput(s) \/ HandOn(s) \/ StartNext(s)
  \/ SubmitForReview(s) \/ WorkFails(s) \/ ReportFailure(s)
  \/ ClaimToFail(s) \/ Abandon(s)

Next ==
  \/ \E s \in Servers :
       Submit(s) \/ DeskStep(s) \/ LaneStep(s) \/ Close(s) \/ Kill(s) \/ Restart(s)
  \/ \E i \in Tasks : Lapse(i)
  \/ \E i \in Revocable : PermissionEdited(i)

Spec == Init /\ [][Next]_vars

\* Threads that are not killed run on, a model call has its time limit, and
\* launchd keeps the server alive.
FairSpec ==
  /\ Spec
  /\ \A s \in Servers :
       WF_vars(DeskStep(s)) /\ WF_vars(LaneStep(s)) /\ WF_vars(Restart(s))

-----------------------------------------------------------------------------
(* What the chain promises *)

DeskPlaces == {"idle", "admitted", "rejoining", "routing", "linked", "written",
               "claimed", "handed"}
LanePlaces == {"idle", "ready", "generating", "writing", "linked", "written",
               "handed", "failing", "raised"}

\* Each thread is at a place of its code and each future is for a task that
\* the automation runs, in the lane of a server where it occurs once.
ChainTypeOK ==
  /\ status \in [Tasks -> {"absent", "queued", "running", "awaiting_review",
                           "completed", "failed"}]
  /\ lessee \in [Tasks -> Threads \cup {NoThread}]
  /\ input \in [1..(Len(Agents) + 1) -> Bytes \cup {NoBytes}]
  /\ file \in [Tasks -> Bytes \cup {NoBytes}]
  /\ covered \subseteq Tasks /\ granted \subseteq Tasks
  /\ up \in [Servers -> BOOLEAN]
  /\ pc \in [Threads -> DeskPlaces \cup LanePlaces]
  /\ queue \in [Servers -> Seq(Research..MaveryQA)]
  /\ \A s \in Servers :
       /\ pc[Desk(s)] \in DeskPlaces /\ pc[Lane(s)] \in LanePlaces
       /\ IsInjective(queue[s])
       /\ queue[s] = << >> => At(s, "idle")
  /\ made \in [Servers -> Bytes \cup {NoBytes}]
  /\ runs \in [Tasks -> Nat] /\ kills \in 0..MaxKills

\* No task's model is called twice, whatever is killed, closed, restarted,
\* requested again or runs out of its lease, and on however many servers.
RanOnce == \A i \in Tasks : runs[i] <= 1

\* What a task was handed is what its parent's receipted output holds, and
\* stays so: no worker reads an input that was never finished, and no killed
\* or late worker changes one; the last handoff is what the review shows.
HandoffsHold ==
  \A i \in Tasks : input[i + 1] # NoBytes =>
    i \in covered /\ file[i] = input[i + 1]

\* A task is completed exactly when its child exists, so the request's walk
\* down the chain never meets a missing handoff and no two tasks of a chain
\* are ever to be worked on.
ChainUnbroken ==
  /\ \A i \in Tasks \ {MaveryQA} :
       status[i] = "completed" <=> status[i + 1] # "absent"
  /\ status[MaveryQA] # "completed"

\* Threads that work under the lease of a task.
AtWork(t, i) ==
  IF t[2] = "desk"
  THEN i = Inbox /\ pc[t] = "claimed"
  ELSE /\ queue[t[1]] # << >> /\ Current(t[1]) = i
       /\ pc[t] \in {"generating", "writing", "linked", "written", "failing"}

\* A task that still runs under a live lease has its thread at work, unless
\* that thread was killed: no exception path leaves a task running.
StuckOnlyByDeath ==
  kills = 0 => \A i \in Tasks : lessee[i] # NoThread =>
    status[i] = "running" /\ AtWork(lessee[i], i)

\* While permissions stay, a queued task is never forgotten: some server has
\* it, is about to take it, or will find it when it comes up again.
NothingForgotten ==
  Revocable = {} => \A i \in Research..MaveryQA : status[i] = "queued" =>
    \E s \in Servers :
      \/ ~up[s]
      \/ i \in ToSet(queue[s])
      \/ pc[Desk(s)] = "handed" /\ i = Research
      \/ At(s, "handed") /\ i = Current(s) + 1

\* A task that was handed on is started, through kills and restarts.
QueuedStarts ==
  \A i \in Research..MaveryQA : status[i] = "queued" ~> status[i] # "queued"

\* Each task of the chain lives the life of a broker task; what its work came
\* to is what it handed on.
Life == INSTANCE TaskLifecycle WITH
  phase <- status,
  product <- [i \in Tasks |-> input[i + 1]],
  NoProduct <- NoBytes

TasksLive == Life!Spec
=============================================================================
