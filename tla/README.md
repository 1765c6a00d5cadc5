# Growth Clockwork: specifications and proofs

Growth Clockwork runs a marketing pipeline on one computer: an operator's
proposal becomes tasks for a chain of agents, their files are written by one
trusted writer, a route of nodes is advanced result by result, a human reviews
the outcome and an approved release may be published. This directory holds
TLA+ models of the parts that keep state, TLC runs on small instances, and
proofs checked by TLAPS. Every definition is translated from the Python and SQL
sources; `PROJECT.json` ("map") names the lines of each.

## 1. Inventory

| Part | Files | State | Operations | What is hard |
|---|---|---|---|---|
| Task broker | `pipeline/task_broker.py`, `contracts/task-broker-v1.sql` | SQLite: tasks, assets, decisions, audit events; the permission file | admit, claim, expire_leases, delegate, fail, accept_verified_result / completion / decision | late and repeated workers, leases, permission edits, clock jumps |
| Root writer | `pipeline/root_writer.py` | immutable files, receipts, `.writer-tx` stages, a flock | apply_request | kills between system calls, competing requests, reused keys |
| Coordinator and run engine | `pipeline/coordinator.py`, `pipeline/run_engine.py` | manifest revisions, task, result and review files of a run | prepare_run, accept_result | kills between files, retries, slots, failures of one node |
| Workers and automation | `broker_automation.py`, `inbox_`, `research_`, `marketing_`, `mavery_qa_`, `codex_worker.py`, `workhorse.py` | a thread pool; files and broker tasks | run one task, hand off, resume | kills between a write and a broker call, lease against time limit |
| Ingress and writer bridge | `broker_ingress.py`, `broker_writer.py` | none of their own | persist and admit, accept_writer_result, reconcile_review | two stores, one operation |
| Publisher and connector | `publisher_worker.py`, `postiz_connector.py` | request, intent and receipt files; an external account | queue, run, deliver | an external POST without idempotency |
| Release core and adapters | `release_core.py`, `release_adapter.py`, `adapters/` | packages and plans | prepare, execute | each rests on the file before it, from several processes |
| Review API | `review_api.py` | action files with receipts; broker projection | reviews, review_action, finalize, resume | two stores, concurrent requests, restarts |
| Rework and autopilot | `rework.py`, `autopilot.py` | runs and their manifests | prepare_rework, inspect, advance | decisions on an inspection that is old by the time it is used |
| Project start, runtime status | `project_start.py`, `runtime_status.py` | briefs with receipts | create_start_brief, inspect_runtime | a brief or manifest without its receipt |
| Studio, feeds | `studio.py`, `feed_intake.py` | records with receipts, material blobs | write, write_binary, read | one lock per process, duplicates, limits |
| Weekly cycle | `weekly_cycle.py` | none of its own: Studio records under derived identities | run, _promote_if_idle | a second process beside the server, restarts |
| Goal loop | `goal_loop.py` | cycle records | start, advance, close | ordering of records |
| Learning, memory | `learning_loop.py`, `project_memory.py` | append-only records | propose, promote, retire | supersession |
| Validation | `agent_registry.py`, `context_resolver.py`, `operating_contract.py`, `professional_contracts.py` | none | check contracts | pure |
| Readers, I/O, tools, dashboard | connectors, `macos_autostart.py`, package tools, `dashboard/` | none that others rely on | | out of scope |

The parts meet in two stores. Files go through the root writer only, and a file
counts when a receipt lists its exact bytes. Tasks live in the broker, whose
calls are one transaction each. Workers and the review API use both, with no
transaction over the two; that is where most hazards of `PROJECT.json` lie.

## 2. Modules

* `TaskBroker` - every public method is one action. A call that raises is rolled
  back and is no step. The callers are not modelled: any lease ever returned may
  be used at any time, any number of times, which covers slow, restarted and
  duplicated workers. `now` may jump both ways, and the permission file may be
  edited at any time. A digest is the value it is taken of. The broker's reading
  of the clock before `admit`'s transaction is treated as made in it.
* `TaskLifecycle` - the abstract life of a task (`contracts/task-broker-v1.md`):
  what its work came to is published once, in the step that ends the work.
* `RootWriter` - one action per system call that matters: lock, clean stages,
  stage, link, unstage, receipt. Processes are killed anywhere; files that the
  writer did not make appear anywhere.
* `AtomicStore` - what receipts are for: requests commit whole, once, for good.
* `RunEngine` - `prepare_run` and `accept_result` as requests to the root writer,
  published file by file under the run's lock, and killed between two of them.
  Artifacts and the result they belong to are one file. The pointer to the
  previous manifest is left out: revisions are immutable and written under the
  lock, so the chain is the numbering. Schema, role, authority, evidence and
  limit checks only reject, before anything is written. All files of a run are one
  function (`file`), a receipt is the partial function of what it lists, and `Turn`
  is the order in which a request's writes are listed. That no manifest has more
  queued tasks than the cap, which the code checks again where a plan has
  `step_activation`, is not a guard of the model: `ImplementsRouteRun` shows it.
* `Delivery` - `postiz_connector.deliver` for one intent id. Calls differ in
  `requested_at`, which the id leaves out. The intent and the receipt are read
  without a lock; each is written as `RootWriter` does it for one file: a link
  under the lock, then the receipt that covers it, with kills between. A request
  that left may create its post at any later time or never, whatever its caller
  knows by then.
* `Publisher` - extends `Delivery` by the publisher task: the approval persists
  the request and admits the task, a server's worker claims it, delivers and
  completes or fails it. Of `TaskBroker` only the task's status and the live lease
  are kept; the task is shown to live the life of `TaskLifecycle`. Operators may
  call the connector from the command line beside it (`CliStamps`).
* `WorkerChain` - a proposal from the inbox through research and marketing to QA,
  over the broker and the writer. In each server a desk thread runs
  `admit_studio_proposal` and `route_task`, and a lane, the pool's one thread,
  runs `_execute` and the three workers; task `i` is agent `i`'s. `Close` shuts the
  pool down, which drains it; `Kill` ends a process anywhere; `Restart` is
  `_resume_pipeline_tasks`, which refuses to start a server when a queued task's
  agent lost its permission. Its limit of 20 tasks does not matter to one chain,
  and the order of the resumed tasks is left open. Of the broker only status,
  input and live lease are kept, and a lease may lapse at any time; of the root
  writer only that a file is linked before it is receipted. There is one chain
  and one desk thread per server, so two servers cover rival requests.
* `ReviewDesk` - decision, finalization, release package, publisher request and
  adapter plan of a reviewed item: `review_action`, `finalize_review_action`,
  `create_release_package`, `queue_publisher_task` and `execute_release_adapter`.
  A desk is a thread of a server or a command line. Each of these files is linked
  under the workspace lock and receipted after it, with an error or a kill
  anywhere between, and each is verified by whoever builds on it. The producer of
  the item goes on beside the desks, and the broker's task is handed over late.
* `Approval` - the promise: an item is decided once, and it is closed, released
  and queued only after an approval of what was shown.
* `ContentCycle` - a project's content from brief to approval: `create_start_brief`,
  `prepare_run`, `inspect_runtime`, `inspect_autopilot`, `advance_autopilot` and
  `prepare_rework`. A driver reads the runtime, judges and acts, and other drivers
  and the command line act between these three. It judges as `inspect_autopilot`
  does: the brief that is named, or else the latest (`newest`), must have its
  receipt, and so must every operator's action (`_existing_action`), or the call
  raises before it looks at a note; then a note comes before a pending review, that
  before work in hand, and a new brief last. Briefs, manifests and actions are
  linked under the lock and receipted after it, with a kill between. The run engine
  is reduced to what a reader sees of a run: at work, in review, blocked, or blocked
  with a sibling still queued (`held`), which is listed as dispatchable for good. A
  killed result is not accepted again.
* `Studio` - `studio.write` and `write_binary`. A call reads the records and builds
  the new one under `_STUDIO_LOCK`, which threads of one process share and other
  processes do not; it stores the bytes, links the record, receipts it and reads
  everything back. A kill takes a process with all its threads.
* `WeeklyCycle` - extends `Studio` by `weekly_cycle.run`, a process of its own:
  suggestion, source material and proposal under identities of the week, each
  taken up again after a restart, and the look at what is in hand before them.
* `RouteRun` - a run as the reader of receipted manifests sees it.
* `*MC` - instances for TLC. `*Proofs` - theorems.

Definitions commented "Slip:" are wrong variants of the definition below them:
each is a plausible bug, and replacing the definition by it must break the
property that `PROJECT.json` ("mutants") names. No specification uses them.

## 3. What the runs check

| Run | Instance | Shows |
|---|---|---|
| `broker` (`TaskBrokerMC.cfg`) | 2 tasks of 2 agents, one origin key per origin, two grants or none, two hashes, clock 0..1 | status is explained by the audit trail, answers stay true, leases bound work to the second, a clock that was set back never makes a due lease abort the page that fences it, work goes on only under the grant it was admitted with, parents and children are paired; `TaskLifecycle` is implemented |
| `writer` (`RootWriterMC.cfg`) | 2 processes, 4 requests, 3 paths | receipts mean files, answers hold, nothing published changes; `AtomicStore` is implemented; every call ends |
| `run_engine` (`RunEngineMC.cfg`) | `launch-readiness` without optional steps, 1 kill | manifests never run ahead of what they pin, answers stand, the review is earned; an open run takes a result of every queued task; `RouteRun` is implemented; a run that nobody kills ends |
| `publisher` (`PublisherMC.cfg`) | 2 processes, each a worker or a command line, 2 stamps, 2 posts | every request has its own durable intent, the task alone posts once, a completed task has its post and lives a broker task's life |
| `chain` (`WorkerChainMC.cfg`) | 2 servers, two outputs a model may give, 1 kill, QA's permission edited | each model is called once, what is handed on is receipted and stays, only a death leaves a task running; each task lives a broker task's life |
| `chain_live` (`WorkerChainLive.cfg`) | 2 servers, one output, 1 kill, permissions stay | a queued task is never forgotten, and it is started |
| `review` (`ReviewDeskMC.cfg`) | 2 desks, 1 item, 2 stamps, 2 targets, 2 kills or errors | what an operator was told is the one decision; every package, request and plan rests on the receipted file before it; `Approval` is implemented; an approval leads to its release |
| `cycle` (`ContentCycleMC.cfg`) | 2 drivers, 2 briefs, 2 routes, 1 rework, 1 kill | no revision has two reworks; drivers that do not overlap have one run in hand; a note is answered, unless a file without its receipt stops the autopilot |
| `studio` (`WeeklyCycleMC.cfg`) | 2 server threads and the weekly process, 3 requests of the desk, 3 contents, room for 2, 1 kill | bytes are recorded once within the limit, nothing points nowhere, the week keeps its topic, a slot stays down, the cycle waits for what is in hand |
| `run_leftovers`, `delivery_overlap`, `review_mirror` | | violations, section 5 |

### Bounds

Two tasks let admissions collide on a key, a parent delegate and its child work,
and expiry pages leave one behind (`ExpiryLimit` 1). A transaction reads other
tasks' rows only for origin keys and parents, one of each at a time. Two attempts are allowed, so that a second start would be possible if the
code allowed it. With leases of one second, clock 0..1 has instants before and
at an expiry, and the clock may go back. Two grants and none are what a
comparison of grants can tell apart. Two writer processes suffice for a lock; the four requests
overlap in one path, disagree in another, share a key, and depend on each other.
The route has a wave of three nodes for two slots, a join and a governance node,
so that a node waits for a slot; every kill position is reached in each wave.
For a delivery, two callers are the fewest that overlap; two stamps agree or
conflict; a second post is already a duplicate. Two servers are the fewest that
compete for a task, one kill puts a restart beside a server that runs on, two
outputs tell a stale file from a new one, and QA's permission is asked for by all
of research's successors. Two desks race for one item's decision, with two stamps
that make equal decisions differ in bytes and two adapter targets; two faults let
a retry of a killed call be killed in its turn. Two drivers, two briefs and two
routes are the fewest with which a second run can start beside a first; one
rework is enough to compete for. Either route may be asked for the first brief and
one for the second (`Asked`), as two plans for one brief are what can disagree. In Studio two threads of a server, the weekly
process and three contents for a room of two bring every check of limit and
duplicate to its edge; three requests are a proposal with its slot and one more.

### Fairness

`flock` is released when its process ends and is granted in the end (strong
fairness of the begin of a call); a process that is not killed runs on (weak
fairness). For a run: it is started, a begun call runs on, and each queued
task's worker submits in the end (strong fairness, as other submissions hold the
lock in between). Runs killed for good are excluded from the liveness run, since
section 5 shows that they may stop.

For the chain: threads that are not killed run on, a model call has its time limit
(`codex_worker.py`), and a server comes up again because launchd keeps it alive
(`macos_autostart.py`). No lapse of a lease and no edit of a permission is fair. What
is concluded is only that a queued task is started: a task whose thread was killed may
stay `running` for good, as nothing calls `expire_leases`.

For the review desk: the workspace lock is fair, a process that is not killed goes
on, and the operator who was not told repeats his approval, as the desk's client
does. For the content cycle: the skill that drives a project keeps calling the
autopilot, also without naming a brief, some call goes on and a write that is not
killed ends. What is concluded is that a note is answered by a rework, unless a kill
stopped the autopilot for good (`Stopped`, section 5): a manifest or an action
without its receipt, or the latest brief without its own. Calls that name another
brief are not counted on.

`CHECK_DEADLOCK FALSE` is set for `RunEngine` and `ReviewDesk`, where all work may
be done, and for `ContentCycle` and `Studio`, which stop over files without their
receipt. No liveness is claimed of a publisher task: after its worker died nothing in the repository
calls `expire_leases`, so the task may stay `running`.

## 4. What is proved

`TaskBrokerProofs`: for every set of tasks, agents, grants and keys

* `TypeCorrect` - the type invariant, which is inductive;
* `StartsOnce` - from the invariant that a task that ever left `queued` has one
  attempt, that a queued or absent one has none, and that leases are the claims;
* `FailuresLeaveNothing` - from the invariant that a task without a published
  result (`queued`, `running`, `failed`, `absent`) has no assets, handoff,
  decision or reported success;
* `BrokerImplementsLifecycle` - the refinement, step by step;
* `TrailsExplain` - from the lemma `Turns`: every step leaves a task alone or
  records one event that fits where the task is;
* `HandoffsPair` and `ReviewsComeFirst` - from `Books`: events, assets, decisions
  and statuses agree, and no two tasks share an origin key;
* `AnswersStayTrue` - from `AllBacked`: each answer ever given has its event or row,
  and neither ever goes away;
* `RevokedGainsNothing` and `LeasesBoundWork` - from `Gates`: an event that gives the
  task something is recorded under the grant of its admission, one that ends its
  work within the lease, and the one that fences it after the lease; a running task
  has a lease (`Leased`), and a fenced one stays failed (`Fenced`);
* `FencesStayFree` and `ClockBackStops` - what a clock that is set back can do.
  The table demands `updated_at >= created_at`, so a transaction under an earlier
  clock than the admission's is rolled back, and `expire_leases` fences its page
  whole or not at all. `Leased` says that a claim was made at or after the
  admission, hence its lease ends after it, and nothing is due before; so no row
  of a page can fail it. All else on the task waits until the clock caught up.

That a task starts once is proved only: `ImplementsLifecycle` fails in `broker`
for the same slips.

`RootWriterProofs`: for every set of processes, paths and requests

* `WriterTypeCorrect`, `ReceiptsAreComplete`, `AnswersAreTrue`: one inductive
  invariant, that the files before a working process's position are in place,
  that only the lock holder is past `waiting`, and that what was told is receipted;
* `PublishedForGood` - the action property;
* `WriterImplementsAtomicStore` - the refinement: only linking a receipt is a
  step of `AtomicStore`; it may commit, as two receipts agree on shared paths;
* `LockStaysBusy` and `LockHoldsAreShort` - whatever was killed, the lock is free
  or held by a live process that can take a step, and each of its steps lowers
  the measure `Left`, so it lets go within three steps for each file and six more.

`RunEngineProofs`: for every route, cap, order of nodes and set of outcomes, any kills

* `FilesTyped`, `ManifestsPin`, `AnswersLast`, `ReviewsAreEarned`, from one inductive
  invariant, `RunInv`: manifests are numbered without a gap and all but the last are
  receipted (`Line`), each is what the route allows (`Good`), and what the job at
  work has written and will write is what it planned from the latest manifest
  (`Starting`, `Advancing`). The latter is why pins hold between two writes: the
  manifest is written when nothing else is pending. `SlotsHold` shows by an
  injection into the places that freed slots are never overfilled;
* `RunsAreRouteRuns` - the refinement: only the receipt (`Finish`) changes what is
  `Shown`, and it shows the next manifest of `Begin`, `Advance`, `Stop` or `Close`;
* `RunsLookOrderly` and `EndsAreFinal` - what a reader of receipts may conclude, in
  the middle of a write and after any kill too: tasks stand behind what they depend
  on and within the cap, a review means that all is completed, and an ended task or
  run stays as it ended. They are shown of `RouteRun` and carried over by the
  refinement, since no single file of the engine says as much;
* `RunsNeverStall` - an open run has a queued task, and a valid result of each passes
  every check: those that refuse to advance or to close never fire. While nothing was
  killed, no file is in the way either. `RunInv` does not suffice. `FlowInv` adds that
  each manifest's tasks stand in the order of the route (`Orders`), that no task is
  dropped by a later one (`Chained`), that what is pinned is receipted (`PinsListed`),
  that a receipt is of its own call (`ReceiptsOwn`), and that without kills no file is
  left without its receipt (`NoLeftovers`). It is
  the only theorem that rests on `GovernanceIsLast`: dependencies are acyclic, which
  the registry checks, and every node leads to governance, which holds of all routes
  under `agents/routes` but is not checked in full. With a node beside that path,
  governance could close over a task still at work.

`PublisherProofs`, of the connector alone: for every set of callers, stamps and posts

* `TypeCorrect`, `LateCallsStop`, `IntentsComeFirst`, `ReceiptsAreTrue`,
  `AnswersAreReceipts`: one inductive invariant, `IInv`. Type correctness is not
  inductive alone: that a receipt names a post rests on what a call knows at each
  place (`CallInv`), on what the lock guards (`LockInv`), and on the receipt coming
  after a covered intent (`FilesInv`);
* `PostsAreBounded` - at most as many requests leave as callers can overlap, through
  any number of repeats and kills. `BudgetInv` counts: what was sent and the calls
  that may still send (`MayAsk`) together never exceed the callers, as nobody joins
  these once the first has sent. That section 5's second post needs an overlap is its
  case of one caller, `LoneCallerPostsOnce`.

And of the publisher over it: every step of `Publisher` is a step of `Delivery` or none, so
`IInv` carries over;

* `CompletedTasksPosted` - a completed task names an existing post, also beside
  command lines;
* `OneTaskOnePost` - without command lines (`CliStamps = {}`), at most one request
  leaves, for any number of servers. `WorkInv` says why: at most one process ever
  works for the task, because it is claimed once, and until it sends nothing was;
* `PublisherTyped`, and `PublisherTaskLives` - the refinement of `TaskLifecycle`: a
  live lease is of a running task, and only a completed one has an asset.

`WorkerChainProofs`: for every set of servers and outputs, any kills and edits

* `TypeCorrect`, `ModelsRunOnce`, `HandoffsAreOutputs`, `ChainsAreUnbroken`, from one
  inductive invariant. `WorkInv` is what a thread at each place knows of its file
  (past its link it holds the thread's bytes, past the writer's return it is
  receipted); `ChainInv` relates tasks, files and runs. `MovesLemma` reduces every
  step to one of five moves of the tasks, and the parts of `ChainInv` are proved of
  those moves only;
* `ChainLivesTaskLives` - the refinement of `TaskLifecycle`, from the same moves;
* `OnlyDeathLeavesWork` - a task that is running has its thread at work on it or
  lost it to a kill (`Leased`): every step leaves the others at work and takes or
  ends at most one lease;
* `TasksAreRemembered` - of each queued task, some server has it in hand, is about
  to take it from a lane, or finds it when it comes up (`Remembered`).

`ReviewDeskProofs`: for every set of desks, items, stamps and targets, any faults

* `DeskTyped`, `ToldIsKept`, `ReleasedIsApproved`, from one inductive invariant:
  `DecisionStands` and `ChainOfProof` themselves, what each file rests on (`Rests`),
  and what a desk at each place may rely on (`Fit`, `Linked`). `Keeps` is why they
  last: receipted files stay;
* `DeskImplementsApproval` - the refinement: linking is hidden, receipts are the
  steps of `Approval`;
* `DesksNeverClash` - a desk that finalizes an approval finds of each file it is
  about to write nothing, or exactly what it would write, and the broker's key free
  or with its own request: no repeat is refused over what another desk or a
  killed one left.

`ContentCycleProofs`: for every set of briefs, drivers and routes, any kills

* `LineOfEachBrief` - a rework has the run it reworks before it in line
  (`CycleInv`), whatever drivers overlap: the file name is the lock;
* `OneContentInHand` - `TurnInv`: as long as no two drivers were ever at work
  together, at most one run is active, whatever is active was seen by the driver or
  came of the work it saw, and a first revision is made only when nothing is;
* `ReworksGoThrough` - who makes a rework's first manifest goes on to its receipt,
  finds that another driver receipted it, or is killed. The names agree because a
  rework's plan follows from what it reworks (`PlansAgree`).

`WeeklyCycleProofs`: for every set of threads, requests and contents, any kills

* `StudioTyped`, `TwinsNever`, `DanglesNever` - from `StudioInv`: what a record was
  made of (`Made`) and rests on (`Rests`), what a call relies on (`Fit`), and, while
  one process is at work, that what was read under the lock still holds (`Single`);
* `SlotsNeverReturn` - `Grows`: records, receipts and bytes never change or go;
* `TopicStays`, `WeeklyStandsBack` - from the weekly layer: the week's records were
  asked for in order about one topic (`WeekFiled`), by this process only (`OwnIds`),
  and whatever the cycle passed is recorded (`OnTheWay`).

The assumptions are `BrokerAssumption`, `WriterAssumption`, `DeliveryAssumption`,
`PublisherAssumption`, `ChainAssumption`, `DeskAssumption`, `CycleAssumption`,
`StudioAssumption`, `WeeklyAssumption`, `RouteAssumption`, `GovernanceIsLast` and
`MissingAssumption`, which state what the code validates of its arguments (of routes,
what those of the repository satisfy), or keep
model values apart.

Left to TLC are what section 5 refutes and the five liveness properties, since
fairness and ENABLED are out of the prover's reach. Of each, the part that is a matter
of safety is proved: what is waited for is never lost and never refused.

| Only model-checked | Proved of it |
|---|---|
| `CallsEnd`: a call of the writer ends | the lock is never held by the dead, and is let go within a bound (`LockStaysBusy`, `LockHoldsAreShort`) |
| `RunEnds`: a run that is not killed ends | every queued task's result is accepted (`RunsNeverStall`), and what ended stays so (`EndsAreFinal`) |
| `QueuedStarts`: a queued task is started | some server has it in mind (`TasksAreRemembered`) |
| `ApprovalsRelease`: an approval leads to its release | no repeat is refused (`DesksNeverClash`) |
| `NotesAnswered`: a note is answered by a rework | a rework, once begun, goes through (`ReworksGoThrough`) |

## 5. Disagreements between code and documents

* **A manifest without its receipt blocks the run** (`run_leftovers`). Killed
  after it linked `manifest-r0002.json` and before the receipt, `accept_result`
  leaves a manifest that `_latest_manifest` rejects for every task and also for
  the exact retry. `pipeline/README.md` says such leftovers "remain inert". A left
  task file is milder: its `created_at` differs from the one a sibling's call would
  write, which is refused until the killed submission is retried exactly.
* **Overlapping deliveries post twice** (`delivery_overlap`). `deliver` reads the
  receipt and the intent without a lock, and the root writer answers a repeated
  identical intent as completed. Two equal calls that overlap therefore both
  POST, although the contract says that a repeat "never creates a possible
  duplicate blindly". The publisher task is safe (`TaskPostsOnce`); two command
  lines, or one beside the task with its `requested_at`, are not.
* **A decline closes nothing** (`review_mirror`). `finalize_review_action` goes to
  the broker for an approval only; a declined or noted task stays
  `awaiting_review` for good, although `contracts/task-broker-v1.md` says that
  "decline closes the reviewed task as cancelled".

Others were met while modelling and have no run of their own:

* The first node of a run that does not complete ends the run
  (`run_engine.py:1704`), although every route says
  `"independent_nodes": "may-continue"`.
* "One local API process owns Studio" (`studio.py:37`), but the weekly cycle is a
  process of its own (`macos_autostart.py:147`) with a lock of its own. `NoTwins`
  therefore holds only while two processes did not save at once (`~crowded`).
* The cycle promotes "only when no project content is active"
  (`weekly_cycle.py:3`), but it looks once and admits four saves later. `WeeklyWaits`
  therefore excepts what the desk admitted after the look (`joined`).
* A brief that a kill left without its receipt is answered as saved by
  `create_start_brief`, while every call of the autopilot that chooses it raises,
  before it looks at any note. As the latest brief is chosen unless another is named,
  a second brief killed between link and receipt keeps a note on the first one from
  its rework until a later brief is saved or the first is named.
* An operator's action that a kill left without its receipt stops the autopilot for
  good: `_existing_action` refuses to read it, for every review of the project.
* A run that is blocked or failed beside a queued sibling (`run_engine.py:1732`) is listed as
  dispatchable for good, although no result of the sibling is accepted. The autopilot
  hands it out and never comes to the next brief.
* Two drivers of different briefs that overlap may start two runs: the inspection
  of each is old when it acts. `OneAtATime` holds while they do not (`~raced`).
* A start or a result killed between manifest and receipt stops `inspect_runtime` for the whole
  project, not only for the run; the skill forbids repairing it.
* `prepare_rework` queues all roots of a route, without the cap on concurrent
  tasks that `prepare_run` applies and `runtime_status.py` enforces. Every route of
  the repository has one root, so that this cannot happen today.

## 6. Not modelled

Schemas, hashing, JSON, HTTP, prompts, launchd, Tailscale, SBOMs and the
dashboard's views: conversions and pure I/O. Power loss (as opposed to kills). The
goal loop and learning: each writes one immutable file by one `RootWriter` request
and validates references, which `RootWriter` and `Studio` already show.
`persist_and_admit_event`, which no module calls. Readiness snapshots and the
desk's read models, which only project files. A clock that is set back while
Studio orders its slots. `wait_until_idle`, which only reads.

What would come next: activation of optional steps as a pure algorithm.
