---------------------------- MODULE ContentCycle ----------------------------
(***************************************************************************)
(* From a saved brief to a decided revision and its reworks: the autopilot *)
(* (autopilot.py), prepare_run of coordinator.py, prepare_rework of        *)
(* rework.py, inspect_runtime of runtime_status.py and create_start_brief  *)
(* of project_start.py.  Several processes call the autopilot, or prepare  *)
(* a rework by hand; inspection takes no lock.                             *)
(*                                                                         *)
(* Of RootWriter this keeps that a run's files are linked under the lock,  *)
(* the plan first and the manifest last, and then receipted, and that a    *)
(* repeat with the same bytes completes what a killed one left.  Of        *)
(* RunEngine it keeps that an accepted result links a manifest and then    *)
(* receipts it; of ReviewDesk, that an operator's action is linked and then *)
(* receipted.  What a kill leaves between the two stays without its receipt *)
(* for good, but for the files of a run: a killed accept is refused again   *)
(* (_latest_manifest), an equal brief is answered as saved                  *)
(* (create_start_brief), and the reviews refuse (_existing_action).         *)
(***************************************************************************)
EXTENDS FiniteSets, Naturals

CONSTANTS
  Briefs,     \* saved project briefs
  Drivers,    \* processes that advance or rework
  Routes,     \* the route, work item and options of a plan
  Asked,      \* those that its callers may ask for a brief
  None,
  MaxRework,  \* bound: revisions after the first
  MaxKills    \* bound: killed processes

\* A run is named by what it answers, a brief or the note on a revision of it;
\* "by" is for whatever else could be in its name.
Runs == [brief : Briefs, rev : 0..MaxRework, by : Drivers \cup {None}]

\* Approved and declined end a brief's line alike.
Kinds == {"final", "note"}

ASSUME CycleAssumption ==
  /\ None \notin Briefs \cup Drivers \cup Routes \cup Runs \cup Kinds
  /\ Briefs \cap Drivers = {} /\ Runs \cap (Briefs \cup Drivers) = {}
  /\ Asked \in [Briefs -> SUBSET Routes]
  /\ MaxRework \in Nat /\ MaxKills \in Nat

VARIABLES
  brief,    \* each brief's file: None, "file" or "receipt"
  newest,   \* the saved brief with the latest created_at, or None
  plan,     \* the plan of each run that was begun, or None
  manifest, \* runs with a manifest file
  covered,  \* runs whose files have their receipt
  phase,    \* of each receipted run: "work", "review", "blocked" or "held"
  torn,     \* runs whose latest manifest file has no receipt
  decision, \* on the revision that a run presents; "file": without receipt
  lock,     \* who holds the workspace lock
  job,      \* what each driver is doing
  raced,    \* history: two drivers were at work at once
  kills

vars == <<brief, newest, plan, manifest, covered, phase, torn, decision, lock, job, raced, kills>>
briefs == <<brief, newest>>
files == <<plan, manifest, covered>>
engine == <<phase, torn>>

NoJob == [pc |-> "idle"]

StartOf(p, b) == [brief |-> b, rev |-> 0, by |-> None]

\* Slip: a rework is named by its caller too.
FreshRework(p, r) == [brief |-> r.brief, rev |-> r.rev + 1, by |-> p]
ReworkOf(p, r) == [brief |-> r.brief, rev |-> r.rev + 1, by |-> None]

\* inspect_runtime raises over any manifest that has no receipt.
Unreadable == manifest # covered \/ torn # {}

\* The run has a receipted item under review; its operator may have noted it.
Presented(r) == r \in covered /\ phase[r] = "review"
Noted(r) == Presented(r) /\ decision[r] = "note"

\* A plan that names the note, or the brief, as what it answers.
Answers(s, r) == s.brief = r.brief /\ s.rev = r.rev + 1
Starts(s, b) == s.brief = b /\ s.rev = 0

-----------------------------------------------------------------------------
(* Briefs: create_start_brief *)

\* An equal brief that is already there, receipted or not, is answered as
\* saved and not written again.  Its created_at was taken before the lock, so
\* that it need not be the latest.
SaveBrief(b) ==
  /\ lock = None /\ brief[b] = None
  /\ brief' = [brief EXCEPT ![b] = "file"]
  /\ newest' \in {b} \cup ({newest} \ {None})
  /\ lock' = b
  /\ UNCHANGED <<files, engine, decision, job, raced, kills>>

BriefSaved(b) ==
  /\ lock = b
  /\ brief' = [brief EXCEPT ![b] = "receipt"]
  /\ lock' = None
  /\ UNCHANGED <<newest, files, engine, decision, job, raced, kills>>

-----------------------------------------------------------------------------
(* The autopilot *)

Goes(p, to) == job' = [job EXCEPT ![p].pc = to]
Ends(p) == job' = [job EXCEPT ![p] = NoJob]
Prepares(p, r, with) == job' = [job EXCEPT ![p] = [pc |-> "prepare", run |-> r, route |-> with]]

Meets(p) == raced' = (raced \/ \E q \in Drivers : job[q] # NoJob)

\* Runs with a queued task: those at work, and those that ended with a node of
\* the same wave still queued, although no result of it is accepted.
Dispatchable == {r \in covered : phase[r] \in {"work", "held"}}

\* Reviews whose note, if that is the decision, no receipted run answers.
Open == {r \in covered : Presented(r) /\ ~\E s \in covered : Answers(s, r)}

\* inspect_runtime: the runs and where each is, as far as it is judged by.
Inspect(p) ==
  /\ job[p] = NoJob /\ ~Unreadable
  /\ job' = [job EXCEPT ![p] =
       [pc |-> "judge", open |-> Open, busy |-> Dispatchable # {},
        begun |-> {b \in Briefs : \E s \in covered : Starts(s, b)}]]
  /\ Meets(p)
  /\ UNCHANGED <<briefs, files, engine, decision, lock, kills>>

\* Slip: a plan without its receipt counts as the answer.
Unplanned(v) == {r \in v.open : decision[r] = "note" /\ ~\E s \in Runs : plan[s] # None /\ Answers(s, r)}

\* Slip: work in hand does not keep the next brief waiting.
AtRest(v) == \A r \in v.open : decision[r] \in Kinds

Unanswered(v) == {r \in v.open : decision[r] = "note"}
Quiet(v) == ~v.busy /\ \A r \in v.open : decision[r] \in Kinds

\* The brief that the caller names, or else the latest, is verified before
\* anything else is read; no brief at all is none to verify.
Chosen(b) == b \in {None} \cup {x \in Briefs : brief[x] = "receipt"}

\* The actions are read under the lock; one without its receipt is refused.
Legible(v) == \A r \in v.open : decision[r] # "file"

\* The decisions are read after the runs: an unanswered note first, then
\* a pending review, then work in hand, and only then whether to start b.
Judge(p, b) ==
  LET v == job[p] IN
  /\ v.pc = "judge" /\ lock \notin v.open
  /\ \/ /\ Chosen(b) /\ Legible(v)
        /\ \/ \E r \in Unanswered(v) : Prepares(p, ReworkOf(p, r), plan[r])
           \/ /\ Unanswered(v) = {}
              /\ \/ /\ Quiet(v) /\ b \in Briefs \ v.begun
                    /\ \E with \in Asked[b] : Prepares(p, StartOf(p, b), with)
                 \/ Ends(p)
     \/ ~(Chosen(b) /\ Legible(v)) /\ Ends(p)
  /\ UNCHANGED <<briefs, files, engine, decision, lock, raced, kills>>

Reworkable(r) == Noted(r) /\ r.rev < MaxRework

\* prepare_rework from the command line.
ReworkByHand(p, r) ==
  /\ job[p] = NoJob /\ Reworkable(r)
  /\ Prepares(p, ReworkOf(p, r), plan[r])
  /\ Meets(p)
  /\ UNCHANGED <<briefs, files, engine, decision, lock, kills>>

-----------------------------------------------------------------------------
(* One writer request per run *)

Mine(p) == job[p].run

LinkPlan(p) ==
  LET r == Mine(p) IN
  /\ job[p].pc = "prepare"
  /\ lock = None /\ r \notin covered /\ plan[r] \in {None, job[p].route}
  /\ plan' = [plan EXCEPT ![r] = job[p].route]
  /\ lock' = p
  /\ Goes(p, "linked")
  /\ UNCHANGED <<briefs, manifest, covered, engine, decision, raced, kills>>

LinkManifest(p) ==
  /\ job[p].pc = "linked"
  /\ manifest' = manifest \cup {Mine(p)}
  /\ Goes(p, "written")
  /\ UNCHANGED <<briefs, plan, covered, engine, decision, lock, raced, kills>>

CoverRun(p) ==
  LET r == Mine(p) IN
  /\ job[p].pc = "written"
  /\ covered' = covered \cup {r}
  /\ phase' = [phase EXCEPT ![r] = "work"]
  /\ lock' = None
  /\ Ends(p)
  /\ UNCHANGED <<briefs, plan, manifest, torn, decision, raced, kills>>

\* The request was applied before, or other bytes were.
Replayed(p) ==
  /\ job[p].pc = "prepare" /\ lock = None
  /\ Mine(p) \in covered \/ plan[Mine(p)] \notin {None, job[p].route}
  /\ Ends(p)
  /\ UNCHANGED <<briefs, files, engine, decision, lock, raced, kills>>

-----------------------------------------------------------------------------
(* The run engine and the operator *)

\* A result is accepted, unless a kill left a manifest of the run.
Accept(r) ==
  /\ lock = None /\ r \in covered /\ phase[r] = "work" /\ r \notin torn
  /\ torn' = torn \cup {r}
  /\ lock' = r
  /\ UNCHANGED <<briefs, files, phase, decision, job, raced, kills>>

Accepted(r) ==
  /\ lock = r /\ phase[r] = "work"
  /\ phase' \in {[phase EXCEPT ![r] = to] : to \in {"work", "review", "blocked", "held"}}
  /\ torn' = torn \ {r}
  /\ lock' = None
  /\ UNCHANGED <<briefs, files, decision, job, raced, kills>>

\* The operator's action is linked, and then receipted.  What the server has
\* read of the other items may be old; calls that overlap on one item are
\* ReviewDesk's.
Decide(r) ==
  /\ lock = None /\ Presented(r) /\ decision[r] = None
  /\ decision' = [decision EXCEPT ![r] = "file"]
  /\ lock' = r
  /\ UNCHANGED <<briefs, files, engine, job, raced, kills>>

Decided(r, kind) ==
  /\ lock = r /\ Presented(r) /\ decision[r] = "file"
  /\ kind = "note" => r.rev < MaxRework
  /\ decision' = [decision EXCEPT ![r] = kind]
  /\ lock' = None
  /\ UNCHANGED <<briefs, files, engine, job, raced, kills>>

\* SIGKILL of a driver, a run engine, or the server that saves a brief or an
\* action.
Killed(who) ==
  /\ kills < MaxKills
  /\ \/ who \in Drivers /\ job[who] # NoJob
     \/ who \notin Drivers /\ lock = who
  /\ job' = IF who \in Drivers THEN [job EXCEPT ![who] = NoJob] ELSE job
  /\ lock' = IF lock = who THEN None ELSE lock
  /\ kills' = kills + 1
  /\ UNCHANGED <<briefs, files, engine, decision, raced>>

Init ==
  /\ brief = [b \in Briefs |-> None]
  /\ newest = None
  /\ plan = [r \in Runs |-> None]
  /\ manifest = {} /\ covered = {} /\ torn = {}
  /\ phase = [r \in Runs |-> None]
  /\ decision = [r \in Runs |-> None]
  /\ lock = None
  /\ job = [p \in Drivers |-> NoJob]
  /\ raced = FALSE
  /\ kills = 0

Writing(p) == LinkPlan(p) \/ LinkManifest(p) \/ CoverRun(p) \/ Replayed(p)

Driving(p) == Inspect(p) \/ (\E b \in Briefs \cup {newest} : Judge(p, b)) \/ Writing(p)

Reviewing(r) == Decide(r) \/ \E kind \in Kinds : Decided(r, kind)

Next ==
  \/ \E b \in Briefs : SaveBrief(b) \/ BriefSaved(b)
  \/ \E p \in Drivers : Driving(p) \/ \E r \in covered : ReworkByHand(p, r)
  \/ \E r \in covered : Accept(r) \/ Accepted(r) \/ Reviewing(r)
  \/ \E who \in Drivers \cup Briefs \cup covered : Killed(who)

Spec == Init /\ [][Next]_vars

\* The skill calls the autopilot again and again, also without a brief's name,
\* some call goes on, and a write that is not killed ends.
FairSpec ==
  /\ Spec
  /\ SF_vars(\E p \in Drivers : Inspect(p))
  /\ SF_vars(\E p \in Drivers : Judge(p, newest) \/ Writing(p))
  /\ WF_vars((\E b \in Briefs : BriefSaved(b))
             \/ (\E r \in covered : Accepted(r) \/ \E kind \in Kinds : Decided(r, kind)))

-----------------------------------------------------------------------------
(* What the cycle promises *)

Begun == {r \in Runs : plan[r] # None}

\* The runs of a brief are one line, whoever prepares them and however often:
\* one run per revision, and every run after the first answers a receipted
\* note on the one before and goes its route.  An approved or declined brief
\* has no further run.
OneLineage ==
  /\ \A r, s \in Begun : r.brief = s.brief /\ r.rev = s.rev => r = s
  /\ \A r \in Begun : r.rev > 0 =>
       \E s \in Begun : Noted(s) /\ Answers(r, s) /\ plan[r] = plan[s]

\* Somebody still has to do something about the run.
Active(r) ==
  \/ phase[r] = "work"
  \/ Presented(r) /\ decision[r] \notin Kinds
  \/ Noted(r) /\ ~\E s \in covered : Answers(s, r)

\* Drivers that take turns keep one piece of content in hand: no brief is
\* started while another run has work, a pending review or an unanswered note.
OneAtATime == ~raced => Cardinality({r \in covered : Active(r)}) <= 1

\* A manifest or an action without its receipt stops every call of the
\* autopilot, and the latest brief without its receipt every call that names
\* none, as the documented one does.
Stopped ==
  \/ Unreadable
  \/ \E r \in Runs : Presented(r) /\ decision[r] = "file"
  \/ newest \in {b \in Briefs : brief[b] = "file"}

\* A note is answered with a rework run, unless what a kill left stops the
\* autopilot from some time on for good.
NotesAnswered ==
  \A b \in Briefs, k \in 0..(MaxRework - 1) :
    (\E r \in covered : r.brief = b /\ r.rev = k /\ Noted(r))
      ~> ((\E s \in covered : s.brief = b /\ s.rev = k + 1) \/ []Stopped)
=============================================================================
