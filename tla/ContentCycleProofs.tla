-------------------------- MODULE ContentCycleProofs --------------------------
(***************************************************************************)
(* Proofs about ContentCycle, for every set of briefs, drivers and routes. *)
(* The line of a brief's runs rests on their names and on the receipted    *)
(* note that each rework answers, so it holds through races and kills.     *)
(* One content at a time rests on more: that nobody else is at work        *)
(* between the look at the project and the run that follows from it.       *)
(***************************************************************************)
EXTENDS ContentCycle, FiniteSetTheorems, TLAPS

-----------------------------------------------------------------------------
(* The inductive invariants *)

\* What the driver of an inspection holds, and what the maker of a run does.
Looking == [pc : {"judge"}, open : SUBSET Runs, busy : BOOLEAN, begun : SUBSET Briefs]
Making == [pc : {"prepare", "linked", "written"}, run : Runs, route : Routes]

Phases == {"work", "review", "blocked", "held", None}
Decisions == Kinds \cup {"file", None}

CycleTypes ==
  /\ plan \in [Runs -> Routes \cup {None}]
  /\ phase \in [Runs -> Phases]
  /\ decision \in [Runs -> Decisions]
  /\ covered \subseteq Runs
  /\ job \in [Drivers -> Looking \cup Making \cup {NoJob}]

Judges(p) == job[p] \in Looking
Makes(p) == job[p] \in Making

\* A run by that route would be, or is, the next of its line.
InLine(r, with) ==
  /\ r.by = None
  /\ r.rev > 0 => \E s \in Begun : Noted(s) /\ Answers(r, s) /\ with = plan[s]

Knows(p) ==
  /\ Judges(p) => \A r \in job[p].open : Presented(r)
  /\ Makes(p) => InLine(job[p].run, job[p].route)
  /\ Makes(p) /\ job[p].pc # "prepare" =>
       lock = p /\ job[p].run \notin covered /\ plan[job[p].run] = job[p].route

CycleInv ==
  /\ CycleTypes
  /\ \A r \in Begun : InLine(r, plan[r])
  /\ covered \subseteq Begun
  /\ \A r \in Runs : decision[r] = "note" => r.rev < MaxRework
  /\ \A p \in Drivers : Knows(p)

\* As long as drivers took turns: whatever is in hand is something that a look
\* has seen or has come of the work it saw, and a first revision is made when
\* nothing is.
Sure(p) ==
  /\ Judges(p) =>
       /\ \A r \in covered : phase[r] = "work" => job[p].busy
       /\ \A r \in covered : Presented(r) =>
            \/ r \in job[p].open \/ job[p].busy
            \/ \E s \in covered : Answers(s, r)
  /\ Makes(p) /\ job[p].run.rev = 0 => \A r \in covered : ~Active(r)

TurnInv ==
  ~raced =>
    /\ \A r, s \in covered : Active(r) /\ Active(s) => r = s
    /\ \A p, q \in Drivers : job[p] # NoJob /\ job[q] # NoJob => p = q
    /\ \A p \in Drivers : Sure(p)

\* No step takes back a plan, a receipt, a review or a note.
Keeps ==
  /\ \A r \in Runs : plan[r] # None => plan'[r] = plan[r]
  /\ \A r \in Runs : Presented(r) => Presented(r)'
  /\ \A r \in Runs : Noted(r) => Noted(r)'
  /\ covered \subseteq covered'

-----------------------------------------------------------------------------
(* One line per brief *)

LEMMA KeepsLine ==
  ASSUME Keeps, NEW r \in Runs, NEW with, InLine(r, with)
  PROVE  InLine(r, with)'
<1>1. CASE r.rev > 0
  <2>1. PICK s \in Begun : Noted(s) /\ Answers(r, s) /\ with = plan[s]
    BY <1>1 DEF InLine
  <2>2. s \in Begun' /\ Noted(s)' /\ plan'[s] = plan[s]
    BY <2>1 DEF Keeps, Begun
  <2> QED BY <2>1, <2>2 DEF InLine, Answers
<1>2. CASE ~(r.rev > 0)
  BY <1>2 DEF InLine
<1> QED BY <1>1, <1>2

\* The same job, before and after a step that leaves its run's plan.
LEMMA KnowsStays ==
  ASSUME CycleTypes, Keeps, NEW p \in Drivers, Knows(p), job'[p] = job[p],
         lock = p => lock' = p /\ covered' = covered
  PROVE  Knows(p)'
<1>1. (Judges(p)' <=> Judges(p)) /\ (Makes(p)' <=> Makes(p))
  BY DEF Judges, Makes
<1>2. CASE Judges(p)
  <2>1. job[p] \in Looking /\ job[p] \notin Making
    BY <1>2 DEF Judges, Looking, Making
  <2>2. \A r \in job[p].open : r \in Runs /\ Presented(r)
    BY <1>2, <2>1 DEF Knows, Looking
  <2>4. \A r \in job[p].open : Presented(r)'
    BY <2>2 DEF Keeps
  <2> QED BY <2>1, <2>4, <1>1 DEF Knows, Makes
<1>3. CASE Makes(p)
  <2>1. PICK r \in Runs, with \in Routes : r = job[p].run /\ with = job[p].route
    BY <1>3 DEF Makes, Making
  <2>2. InLine(r, with)'
    BY <1>3, <2>1, KeepsLine DEF Knows
  <2>3. job[p].pc # "prepare" => lock = p /\ r \notin covered /\ plan[r] = with
    BY <1>3, <2>1 DEF Knows
  <2>4. job[p].pc # "prepare" => lock' = p /\ r \notin covered' /\ plan'[r] = with
    <3>1. with # None
      BY CycleAssumption
    <3> QED BY <2>3, <3>1 DEF Keeps
  <2>5. ~Judges(p)'
    BY <1>1, <1>3 DEF Judges, Makes, Looking, Making
  <2> QED BY <2>1, <2>2, <2>4, <2>5 DEF Knows, InLine, Begun, Noted, Presented
<1>4. CASE ~Judges(p) /\ ~Makes(p)
  BY <1>4, <1>1 DEF Knows
<1> QED BY <1>2, <1>3, <1>4

LEMMA Unbusy == \A p \in Drivers : job[p] = NoJob => Knows(p)
BY DEF NoJob, Knows, Judges, Makes, Looking, Making

\* A step that leaves the runs alone.
LEMMA QuietStep ==
  ASSUME CycleInv, plan' = plan, covered' = covered, phase' = phase, decision' = decision,
         job' \in [Drivers -> Looking \cup Making \cup {NoJob}],
         \A p \in Drivers : Knows(p)'
  PROVE  CycleInv'
<1>1. Begun' = Begun /\ \A r \in Runs : (Noted(r)' <=> Noted(r))
  BY DEF Begun, Noted, Presented
<1>2. \A r \in Begun : InLine(r, plan[r])'
  BY <1>1 DEF CycleInv, InLine, Begun
<1> QED BY <1>1, <1>2 DEF CycleInv, CycleTypes

LEMMA NameIsNeither == \A r \in Runs : r \notin Drivers /\ r \notin Briefs /\ r # None
BY CycleAssumption

\* One driver moves and everybody else keeps its job.
LEMMA OthersKnow ==
  ASSUME CycleInv, Keeps, NEW p \in Drivers, \A q \in Drivers \ {p} : job'[q] = job[q],
         \A q \in Drivers \ {p} : lock = q => lock' = q /\ covered' = covered, Knows(p)'
  PROVE  \A q \in Drivers : Knows(q)'
<1> SUFFICES ASSUME NEW q \in Drivers
             PROVE  Knows(q)'
  OBVIOUS
<1>1. CASE q = p
  BY <1>1
<1>2. CASE q # p
  BY <1>2, KnowsStays DEF CycleInv
<1> QED BY <1>1, <1>2

LEMMA NothingTaken ==
  ASSUME plan' = plan, covered' = covered, phase' = phase, decision' = decision
  PROVE  Keeps
BY DEF Keeps, Presented, Noted

\* A driver takes up or drops a job, and writes nothing.
LEMMA TurnStep ==
  ASSUME CycleInv, NEW p \in Drivers, UNCHANGED <<files, engine, decision>>,
         job' \in [Drivers -> Looking \cup Making \cup {NoJob}],
         \A q \in Drivers \ {p} : job'[q] = job[q], Knows(p)',
         lock' = lock \/ (lock' = None /\ lock = p)
  PROVE  CycleInv'
<1>1. plan' = plan /\ covered' = covered /\ phase' = phase /\ decision' = decision
  BY DEF files, engine
<1>2. \A q \in Drivers : Knows(q)'
  BY <1>1, NothingTaken, OthersKnow
<1> QED BY <1>1, <1>2, QuietStep

\* Nobody's job changes while a brief is saved, or while a run engine or a
\* server dies.
LEMMA LockStep ==
  ASSUME CycleInv, UNCHANGED <<files, engine, decision, job>>,
         lock \notin Drivers
  PROVE  CycleInv'
<1>1. plan' = plan /\ covered' = covered /\ phase' = phase /\ decision' = decision /\ job' = job
  BY DEF files, engine
<1>2. \A q \in Drivers : Knows(q)'
  <2> SUFFICES ASSUME NEW q \in Drivers
               PROVE  Knows(q)'
    OBVIOUS
  <2> QED BY <1>1, NothingTaken, KnowsStays DEF CycleInv
<1>3. job' \in [Drivers -> Looking \cup Making \cup {NoJob}]
  BY <1>1 DEF CycleInv, CycleTypes
<1> QED BY <1>1, <1>2, <1>3, QuietStep

LEMMA BriefStep ==
  ASSUME CycleInv, NEW b \in Briefs, SaveBrief(b) \/ BriefSaved(b)
  PROVE  CycleInv'
<1>1. UNCHANGED <<files, engine, decision, job>>
  BY DEF SaveBrief, BriefSaved
<1>2. lock \notin Drivers
  BY CycleAssumption DEF SaveBrief, BriefSaved
<1> QED BY <1>1, <1>2, LockStep

LEMMA EndTyped ==
  ASSUME CycleInv, NEW p \in Drivers, Ends(p)
  PROVE  /\ job' \in [Drivers -> Looking \cup Making \cup {NoJob}] /\ job'[p] = NoJob
         /\ \A q \in Drivers \ {p} : job'[q] = job[q]
         /\ Knows(p)'
<1>1. /\ job' \in [Drivers -> Looking \cup Making \cup {NoJob}] /\ job'[p] = NoJob
      /\ \A q \in Drivers \ {p} : job'[q] = job[q]
  BY DEF CycleInv, CycleTypes, Ends
<1>2. Knows(p)'
  BY <1>1 DEF NoJob, Knows, Judges, Makes, Looking, Making
<1> QED BY <1>1, <1>2

LEMMA PrepareTyped ==
  ASSUME CycleInv, NEW p \in Drivers, NEW r \in Runs, NEW with \in Routes,
         Prepares(p, r, with), InLine(r, with)'
  PROVE  /\ job' \in [Drivers -> Looking \cup Making \cup {NoJob}]
         /\ job'[p] = [pc |-> "prepare", run |-> r, route |-> with]
         /\ \A q \in Drivers \ {p} : job'[q] = job[q]
         /\ Knows(p)'
<1>1. [pc |-> "prepare", run |-> r, route |-> with] \in Making
  BY DEF Making
<1>2. /\ job' \in [Drivers -> Looking \cup Making \cup {NoJob}]
      /\ job'[p] = [pc |-> "prepare", run |-> r, route |-> with]
      /\ \A q \in Drivers \ {p} : job'[q] = job[q]
  BY <1>1 DEF CycleInv, CycleTypes, Prepares
<1>3. Knows(p)'
  <2>1. ~Judges(p)'
    BY <1>2 DEF Judges, Looking
  <2>2. job'[p].run = r /\ job'[p].route = with /\ job'[p].pc = "prepare"
    BY <1>2
  <2> QED BY <2>1, <2>2 DEF Knows, InLine, Begun, Noted, Presented
<1> QED BY <1>2, <1>3

LEMMA InspectStep ==
  ASSUME CycleInv, NEW p \in Drivers, Inspect(p)
  PROVE  CycleInv'
<1> DEFINE v == [pc |-> "judge", open |-> Open, busy |-> Dispatchable # {},
                 begun |-> {b \in Briefs : \E s \in covered : Starts(s, b)}]
<1>1. v \in Looking
  BY DEF CycleInv, CycleTypes, Looking, Open
<1>2. /\ job' \in [Drivers -> Looking \cup Making \cup {NoJob}] /\ job'[p] = v
      /\ \A q \in Drivers \ {p} : job'[q] = job[q]
  BY <1>1 DEF Inspect, CycleInv, CycleTypes
<1>3. covered' = covered /\ phase' = phase
  BY DEF Inspect, files, engine
<1>4. Knows(p)'
  <2>1. v \notin Making
    BY DEF Making
  <2>2. \A r \in v.open : Presented(r)'
    BY <1>3 DEF Presented, Open
  <2> QED BY <1>2, <2>1, <2>2 DEF Knows, Makes, Presented
<1>5. UNCHANGED <<files, engine, decision, lock>>
  BY DEF Inspect
<1> QED BY <1>2, <1>4, <1>5, TurnStep

\* A rework answers a note on a run of its line.
LEMMA ReworkFits ==
  ASSUME CycleInv, NEW p \in Drivers, NEW r \in covered, Noted(r)
  PROVE  /\ r \in Runs /\ ReworkOf(p, r) \in Runs /\ ReworkOf(p, r).rev > 0
         /\ plan[r] \in Routes /\ Noted(r)
         /\ InLine(ReworkOf(p, r), plan[r])
<1>1. r \in Runs /\ r \in Begun /\ plan[r] \in Routes
  BY DEF CycleInv, CycleTypes, Begun
<1>2. r.rev < MaxRework
  BY <1>1 DEF CycleInv, Noted
<1>3. ReworkOf(p, r) \in Runs /\ ReworkOf(p, r).rev > 0
  BY <1>1, <1>2, CycleAssumption DEF ReworkOf, Runs
<1>4. Answers(ReworkOf(p, r), r) /\ ReworkOf(p, r).by = None
  BY DEF Answers, ReworkOf
<1> QED BY <1>1, <1>3, <1>4 DEF InLine

LEMMA PreparesRework ==
  ASSUME CycleInv, NEW p \in Drivers, NEW r \in covered, Noted(r),
         Prepares(p, ReworkOf(p, r), plan[r]), UNCHANGED <<files, engine, decision, lock>>
  PROVE  CycleInv'
<1>1. PICK s \in Runs, with \in Routes : s = ReworkOf(p, r) /\ with = plan[r]
  BY ReworkFits
<1>2. plan' = plan /\ covered' = covered /\ phase' = phase /\ decision' = decision
  BY DEF files, engine
<1>3. Keeps /\ InLine(s, with)
  BY <1>1, <1>2, NothingTaken, ReworkFits
<1>4. Prepares(p, s, with) /\ InLine(s, with)'
  BY <1>1, <1>3, KeepsLine
<1> QED BY <1>4, PrepareTyped, TurnStep

LEMMA JudgeStep ==
  ASSUME CycleInv, NEW p \in Drivers, NEW b, Judge(p, b)
  PROVE  CycleInv'
<1> DEFINE v == job[p]
<1>1. UNCHANGED <<files, engine, decision, lock>> /\ v.pc = "judge"
  BY DEF Judge
<1>2. v \in Looking /\ Knows(p)
  <2>1. v \in Looking \cup Making \cup {NoJob}
    BY DEF CycleInv, CycleTypes
  <2> QED BY <1>1, <2>1 DEF Making, NoJob, CycleInv
<1>3. CASE \E r \in Unanswered(v) : Prepares(p, ReworkOf(p, r), plan[r])
  <2>1. PICK r \in Unanswered(v) : Prepares(p, ReworkOf(p, r), plan[r])
    BY <1>3
  <2>2. Presented(r) /\ decision[r] = "note"
    BY <1>2 DEF Unanswered, Knows, Judges
  <2>3. r \in covered /\ Noted(r)
    BY <2>2 DEF Presented, Noted
  <2> QED BY <1>1, <2>1, <2>3, PreparesRework
<1>4. CASE b \in Briefs /\ \E with \in Asked[b] : Prepares(p, StartOf(p, b), with)
  <2>1. PICK with \in Routes : Prepares(p, StartOf(p, b), with)
    BY <1>4, CycleAssumption
  <2>2. PICK r \in Runs : r = StartOf(p, b)
    <3>1. 0 \in 0..MaxRework
      BY CycleAssumption
    <3> QED BY <1>4, <3>1 DEF StartOf, Runs
  <2>3. InLine(r, with)'
    BY <2>2 DEF InLine, StartOf
  <2> QED BY <1>1, <2>1, <2>2, <2>3, PrepareTyped, TurnStep
<1>5. CASE Ends(p)
  BY <1>1, <1>5, EndTyped, TurnStep
<1> QED BY <1>3, <1>4, <1>5 DEF Judge

LEMMA ByHandStep ==
  ASSUME CycleInv, NEW p \in Drivers, NEW r \in covered, ReworkByHand(p, r)
  PROVE  CycleInv'
BY PreparesRework DEF ReworkByHand, Reworkable

LEMMA ReplayedStep ==
  ASSUME CycleInv, NEW p \in Drivers, Replayed(p)
  PROVE  CycleInv'
BY EndTyped, TurnStep DEF Replayed

LEMMA KilledStep ==
  ASSUME CycleInv, NEW who \in Drivers \cup Briefs \cup covered, Killed(who)
  PROVE  CycleInv'
<1>1. UNCHANGED <<files, engine, decision>> /\ lock' = IF lock = who THEN None ELSE lock
  BY DEF Killed
<1>2. CASE who \in Drivers
  <2>1. Ends(who)
    BY <1>2 DEF Killed, Ends
  <2> QED BY <1>1, <1>2, <2>1, EndTyped, TurnStep
<1>3. CASE who \notin Drivers
  <2>1. lock = who /\ job' = job
    BY <1>3 DEF Killed
  <2> QED BY <1>1, <1>3, <2>1, NameIsNeither, LockStep
<1> QED BY <1>2, <1>3

-----------------------------------------------------------------------------
(* Steps of a run's request, of the run engine and of the operator *)

\* A driver at work on a run.
LEMMA Making_ ==
  ASSUME CycleInv, NEW p \in Drivers, job[p].pc \in {"prepare", "linked", "written"}
  PROVE  Makes(p) /\ job[p].run \in Runs /\ job[p].route \in Routes /\ job[p].route # None
<1>1. job[p] \in Looking \cup Making \cup {NoJob}
  BY DEF CycleInv, CycleTypes
<1>2. job[p] \in Making
  BY <1>1 DEF Looking, NoJob
<1> QED BY <1>2, CycleAssumption DEF Makes, Making

\* The job that goes on with the same run.
LEMMA GoesTyped ==
  ASSUME CycleInv, NEW p \in Drivers, job[p].pc \in {"prepare", "linked", "written"},
         NEW to \in {"linked", "written"}, Goes(p, to)
  PROVE  /\ job' \in [Drivers -> Looking \cup Making \cup {NoJob}]
         /\ job'[p] \in Making /\ job'[p].pc = to
         /\ job'[p].run = job[p].run /\ job'[p].route = job[p].route
         /\ \A q \in Drivers \ {p} : job'[q] = job[q]
<1>1. job[p] \in Making /\ job \in [Drivers -> Looking \cup Making \cup {NoJob}]
  BY Making_ DEF Makes, CycleInv, CycleTypes
<1>2. job'[p] = [job[p] EXCEPT !.pc = to]
  BY <1>1 DEF Goes
<1>3. /\ job'[p] \in Making /\ job'[p].pc = to
      /\ job'[p].run = job[p].run /\ job'[p].route = job[p].route
  BY <1>1, <1>2 DEF Making
<1> QED BY <1>1, <1>3 DEF Goes

LEMMA LinkPlanStep ==
  ASSUME CycleInv, NEW p \in Drivers, LinkPlan(p)
  PROVE  CycleInv'
<1>1. PICK r \in Runs, with \in Routes : r = job[p].run /\ with = job[p].route
  BY Making_ DEF LinkPlan
<1>2. /\ job[p].pc = "prepare" /\ lock = None /\ r \notin covered /\ plan[r] \in {None, with}
      /\ plan' = [plan EXCEPT ![r] = with] /\ lock' = p
      /\ covered' = covered /\ phase' = phase /\ decision' = decision
  BY <1>1 DEF LinkPlan, Mine, engine
<1>3. plan' \in [Runs -> Routes \cup {None}] /\ plan'[r] = with /\ with # None
      /\ \A s \in Runs \ {r} : plan'[s] = plan[s]
  BY <1>2, CycleAssumption DEF CycleInv, CycleTypes
<1>4. Keeps
  BY <1>2, <1>3 DEF Keeps, Presented, Noted
<1>5. /\ job' \in [Drivers -> Looking \cup Making \cup {NoJob}]
      /\ job'[p] \in Making /\ job'[p].pc = "linked" /\ job'[p].run = r /\ job'[p].route = with
      /\ \A q \in Drivers \ {p} : job'[q] = job[q]
  BY <1>1, <1>2, GoesTyped DEF LinkPlan
<1>6. InLine(r, with)'
  BY <1>1, <1>2, <1>4, Making_, KeepsLine DEF Knows, CycleInv
<1>7. Knows(p)'
  <2>1. ~Judges(p)'
    BY <1>5 DEF Judges, Looking
  <2> QED BY <1>2, <1>3, <1>5, <1>6, <2>1 DEF Knows, InLine, Begun, Noted, Presented
<1>8. \A q \in Drivers : Knows(q)'
  BY <1>2, <1>4, <1>5, <1>7, OthersKnow, CycleAssumption
<1>9. \A s \in Begun' : InLine(s, plan[s])'
  <2> SUFFICES ASSUME NEW s \in Runs, plan'[s] # None
               PROVE  InLine(s, plan[s])'
    BY DEF Begun
  <2>1. CASE s = r
    BY <2>1, <1>3, <1>6 DEF InLine, Begun, Noted, Presented
  <2>2. CASE s # r
    <3>1. PICK w \in Routes : w = plan[s] /\ plan'[s] = w
      BY <2>2, <1>3 DEF CycleInv, CycleTypes
    <3>2. InLine(s, w)
      BY <3>1, CycleAssumption DEF CycleInv, Begun
    <3>3. InLine(s, w)'
      BY <3>2, <1>4, KeepsLine
    <3> QED BY <3>1, <3>3 DEF InLine, Begun, Noted, Presented
  <2> QED BY <2>1, <2>2
<1>10. covered' \subseteq Begun'
  BY <1>2, <1>3 DEF CycleInv, Begun
<1> QED BY <1>2, <1>3, <1>5, <1>8, <1>9, <1>10 DEF CycleInv, CycleTypes

LEMMA LinkManifestStep ==
  ASSUME CycleInv, NEW p \in Drivers, LinkManifest(p)
  PROVE  CycleInv'
<1>1. PICK r \in Runs, with \in Routes : r = job[p].run /\ with = job[p].route
  BY Making_ DEF LinkManifest
<1>2. /\ job[p].pc = "linked" /\ plan' = plan /\ covered' = covered /\ phase' = phase
      /\ decision' = decision /\ lock' = lock
  BY DEF LinkManifest, engine
<1>3. Keeps
  BY <1>2, NothingTaken
<1>4. /\ job' \in [Drivers -> Looking \cup Making \cup {NoJob}]
      /\ job'[p] \in Making /\ job'[p].pc = "written" /\ job'[p].run = r /\ job'[p].route = with
      /\ \A q \in Drivers \ {p} : job'[q] = job[q]
  BY <1>1, <1>2, GoesTyped DEF LinkManifest
<1>5. InLine(r, with)' /\ lock = p /\ r \notin covered /\ plan[r] = with
  BY <1>1, <1>2, <1>3, Making_, KeepsLine DEF Knows, CycleInv
<1>6. Knows(p)'
  <2>1. ~Judges(p)'
    BY <1>4 DEF Judges, Looking
  <2> QED BY <1>2, <1>4, <1>5, <2>1 DEF Knows, InLine, Begun, Noted, Presented
<1>7. \A q \in Drivers : Knows(q)'
  BY <1>2, <1>3, <1>4, <1>6, OthersKnow
<1> QED BY <1>2, <1>4, <1>7, QuietStep

LEMMA CoverRunStep ==
  ASSUME CycleInv, NEW p \in Drivers, CoverRun(p)
  PROVE  CycleInv'
<1>1. PICK r \in Runs, with \in Routes : r = job[p].run /\ with = job[p].route
  BY Making_ DEF CoverRun
<1>2. /\ job[p].pc = "written" /\ plan' = plan /\ covered' = covered \cup {r}
      /\ phase' = [phase EXCEPT ![r] = "work"] /\ decision' = decision /\ lock' = None
  BY <1>1 DEF CoverRun, Mine
<1>3. lock = p /\ r \notin covered /\ plan[r] = with /\ with # None
  BY <1>1, <1>2, Making_ DEF Knows, CycleInv
<1>4. Keeps
  <2>1. \A s \in Runs : Presented(s) => Presented(s)'
    BY <1>2, <1>3 DEF Presented, CycleInv, CycleTypes
  <2>2. \A s \in Runs : Noted(s) => Noted(s)'
    BY <1>2, <2>1 DEF Noted
  <2> QED BY <1>2, <2>1, <2>2 DEF Keeps
<1>5. /\ job' \in [Drivers -> Looking \cup Making \cup {NoJob}]
      /\ \A q \in Drivers \ {p} : job'[q] = job[q]
      /\ Knows(p)'
  BY EndTyped DEF CoverRun
<1>6. \A q \in Drivers : Knows(q)'
  BY <1>3, <1>4, <1>5, OthersKnow
<1>7. \A s \in Begun' : InLine(s, plan[s])'
  <2> SUFFICES ASSUME NEW s \in Runs, plan[s] # None
               PROVE  InLine(s, plan[s])'
    BY <1>2 DEF Begun
  <2>1. PICK w : w = plan[s]
    OBVIOUS
  <2>2. InLine(s, w)
    BY <2>1 DEF CycleInv, Begun
  <2>3. InLine(s, w)'
    BY <2>2, <1>4, KeepsLine
  <2> QED BY <1>2, <2>1, <2>3 DEF InLine, Begun, Noted, Presented
<1>8. CycleTypes' /\ covered' \subseteq Begun'
  BY <1>2, <1>3, <1>5 DEF CycleInv, CycleTypes, Begun, Phases
<1> QED BY <1>2, <1>6, <1>7, <1>8 DEF CycleInv

\* The run engine and the operator change a run's phase or its decision, and
\* what was under review or noted stays so.
LEMMA RunStep ==
  ASSUME CycleInv, plan' = plan, covered' = covered, job' = job, lock \notin Drivers,
         phase' \in [Runs -> Phases],
         decision' \in [Runs -> Decisions],
         \A r \in Runs : Presented(r) => Presented(r)',
         \A r \in Runs : Noted(r) => Noted(r)',
         \A r \in Runs : decision'[r] = "note" => r.rev < MaxRework
  PROVE  CycleInv'
<1>1. Keeps
  BY DEF Keeps
<1>2. \A q \in Drivers : Knows(q)'
  <2> SUFFICES ASSUME NEW q \in Drivers
               PROVE  Knows(q)'
    OBVIOUS
  <2> QED BY <1>1, KnowsStays DEF CycleInv
<1>3. \A s \in Begun' : InLine(s, plan[s])'
  <2> SUFFICES ASSUME NEW s \in Runs, plan[s] # None
               PROVE  InLine(s, plan[s])'
    BY DEF Begun
  <2>1. PICK w : w = plan[s]
    OBVIOUS
  <2>2. InLine(s, w)
    BY <2>1 DEF CycleInv, Begun
  <2>3. InLine(s, w)'
    BY <2>2, <1>1, KeepsLine
  <2> QED BY <2>1, <2>3 DEF InLine, Begun, Noted, Presented
<1>4. CycleTypes' /\ covered' \subseteq Begun'
  BY DEF CycleInv, CycleTypes, Begun
<1> QED BY <1>2, <1>3, <1>4 DEF CycleInv

LEMMA AcceptStep ==
  ASSUME CycleInv, NEW r \in covered, Accept(r)
  PROVE  CycleInv'
<1>1. /\ plan' = plan /\ covered' = covered /\ job' = job /\ phase' = phase
      /\ decision' = decision /\ lock = None
  BY DEF Accept, files
<1>2. lock \notin Drivers
  BY <1>1, CycleAssumption
<1>3. /\ \A s \in Runs : Presented(s) => Presented(s)'
      /\ \A s \in Runs : Noted(s) => Noted(s)'
  BY <1>1 DEF Presented, Noted
<1> QED BY <1>1, <1>2, <1>3, RunStep DEF CycleInv, CycleTypes

LEMMA AcceptedStep ==
  ASSUME CycleInv, NEW r \in covered, Accepted(r)
  PROVE  CycleInv'
<1>1. PICK to \in {"work", "review", "blocked", "held"} : phase' = [phase EXCEPT ![r] = to]
  BY DEF Accepted
<1>2. /\ plan' = plan /\ covered' = covered /\ job' = job
      /\ decision' = decision /\ lock = r /\ phase[r] = "work" /\ r \in Runs
  BY DEF Accepted, files, CycleInv, CycleTypes
<1>3. lock \notin Drivers
  BY <1>2, NameIsNeither
<1>4. \A s \in Runs : Presented(s) => Presented(s)'
  BY <1>1, <1>2, <1>3 DEF Presented, CycleInv, CycleTypes
<1>5. \A s \in Runs : Noted(s) => Noted(s)'
  BY <1>2, <1>4 DEF Noted
<1>6. phase' \in [Runs -> Phases]
  BY <1>1 DEF CycleInv, CycleTypes, Phases
<1> QED BY <1>2, <1>3, <1>4, <1>5, <1>6, RunStep DEF CycleInv, CycleTypes

LEMMA ReviewStep ==
  ASSUME CycleInv, NEW r \in covered, Reviewing(r)
  PROVE  CycleInv'
<1>1. PICK d \in Decisions : /\ decision' = [decision EXCEPT ![r] = d]
                             /\ d = "note" => r.rev < MaxRework
  BY DEF Reviewing, Decide, Decided, Decisions
<1>2. /\ plan' = plan /\ covered' = covered /\ job' = job /\ phase' = phase
      /\ lock \in {None, r} /\ r \in Runs /\ decision[r] \in {None, "file"}
  BY DEF Reviewing, Decide, Decided, files, engine, CycleInv, CycleTypes
<1>3. lock \notin Drivers
  BY <1>2, NameIsNeither, CycleAssumption
<1>4. \A s \in Runs : Presented(s) => Presented(s)'
  BY <1>2 DEF Presented
<1>5. \A s \in Runs : Noted(s) => Noted(s)'
  BY <1>1, <1>2, <1>4, CycleAssumption DEF Noted, Kinds, CycleInv, CycleTypes
<1>6. \A s \in Runs : decision'[s] = "note" => s.rev < MaxRework
  BY <1>1, <1>2 DEF CycleInv, CycleTypes
<1>7. decision' \in [Runs -> Decisions] /\ phase' \in [Runs -> Phases]
  BY <1>1, <1>2 DEF CycleInv, CycleTypes
<1> QED BY <1>2, <1>3, <1>4, <1>5, <1>6, <1>7, RunStep

-----------------------------------------------------------------------------
(* The line *)

LEMMA CycleInit == Init => CycleInv
<1> SUFFICES ASSUME Init
             PROVE  CycleInv
  OBVIOUS
<1>1. \A p \in Drivers : Knows(p)
  BY DEF Init, NoJob, Knows, Judges, Makes, Looking, Making
<1>2. CycleTypes
  BY DEF Init, CycleTypes, Phases, Decisions
<1>3. Begun = {} /\ covered = {}
  BY CycleAssumption DEF Init, Begun
<1>4. \A r \in Runs : decision[r] = None
  BY DEF Init
<1>5. "note" # None
  BY CycleAssumption DEF Kinds
<1> QED BY <1>1, <1>2, <1>3, <1>4, <1>5 DEF CycleInv

LEMMA CycleStep == CycleInv /\ [Next]_vars => CycleInv'
<1> SUFFICES ASSUME CycleInv, [Next]_vars
             PROVE  CycleInv'
  OBVIOUS
<1>1. CASE UNCHANGED vars
  <2>1. /\ plan' = plan /\ covered' = covered /\ phase' = phase /\ decision' = decision
        /\ job' = job /\ lock' = lock
    BY <1>1 DEF vars
  <2>2. \A q \in Drivers : Knows(q)'
    <3> SUFFICES ASSUME NEW q \in Drivers
                 PROVE  Knows(q)'
      OBVIOUS
    <3> QED BY <2>1, NothingTaken, KnowsStays DEF CycleInv
  <2> QED BY <2>1, <2>2, QuietStep DEF CycleInv, CycleTypes
<1>2. ASSUME NEW b \in Briefs, SaveBrief(b) \/ BriefSaved(b)
      PROVE  CycleInv'
  BY <1>2, BriefStep
<1>3. ASSUME NEW p \in Drivers, Driving(p)
      PROVE  CycleInv'
  BY <1>3, InspectStep, JudgeStep, LinkPlanStep, LinkManifestStep, CoverRunStep, ReplayedStep
     DEF Driving, Writing
<1>4. ASSUME NEW p \in Drivers, NEW r \in covered, ReworkByHand(p, r)
      PROVE  CycleInv'
  BY <1>4, ByHandStep
<1>5. ASSUME NEW r \in covered, Accept(r) \/ Accepted(r)
      PROVE  CycleInv'
  BY <1>5, AcceptStep, AcceptedStep
<1>6. ASSUME NEW r \in covered, Reviewing(r)
      PROVE  CycleInv'
  BY <1>6, ReviewStep
<1>7. ASSUME NEW who \in Drivers \cup Briefs \cup covered, Killed(who)
      PROVE  CycleInv'
  BY <1>7, KilledStep
<1> QED BY <1>1, <1>2, <1>3, <1>4, <1>5, <1>6, <1>7 DEF Next

\* CycleInv holds in every reachable state.
THEOREM CycleInvariant == Spec => []CycleInv
BY CycleInit, CycleStep, PTL DEF Spec

LEMMA LineIsOne == CycleInv => OneLineage
<1> SUFFICES ASSUME CycleInv
             PROVE  OneLineage
  OBVIOUS
<1>1. ASSUME NEW r \in Begun, NEW s \in Begun, r.brief = s.brief, r.rev = s.rev
      PROVE  r = s
  <2>1. r \in Runs /\ s \in Runs /\ r.by = None /\ s.by = None
    BY DEF CycleInv, Begun, InLine
  <2> QED BY <1>1, <2>1 DEF Runs
<1>2. ASSUME NEW r \in Begun, r.rev > 0
      PROVE  \E s \in Begun : Noted(s) /\ Answers(r, s) /\ plan[r] = plan[s]
  BY <1>2 DEF CycleInv, InLine
<1> QED BY <1>1, <1>2 DEF OneLineage

\* Whatever drivers race and wherever one is killed, a brief's runs are one
\* line, each the rework that a receipted note on the run before asks for.
THEOREM LineOfEachBrief == Spec => []OneLineage
BY CycleInvariant, LineIsOne, PTL

-----------------------------------------------------------------------------
(* Nothing but a kill keeps a rework from its receipt *)

\* Who makes the rework that answers a note brings it on, unless it is killed,
\* and stops only when the rework has its receipt.
WorksOff(p) ==
  Makes(p) /\ job[p].run.rev > 0 /\ ~Killed(p) =>
    \/ Makes(p)' /\ job'[p].run = job[p].run
    \/ job[p].run \in covered'

\* Whatever another driver planned for the note, or left behind when it was
\* killed, is what this one is about to write.
LEMMA PlansAgree ==
  ASSUME CycleInv, NEW p \in Drivers, Makes(p), job[p].run.rev > 0
  PROVE  job[p].run \in Runs /\ plan[job[p].run] \in {None, job[p].route}
<1>1. PICK r \in Runs, with \in Routes : r = job[p].run /\ with = job[p].route
  BY DEF Makes, Making
<1>2. InLine(r, with)
  BY <1>1 DEF CycleInv, Knows
<1>3. PICK s \in Begun : Noted(s) /\ Answers(r, s) /\ with = plan[s]
  BY <1>1, <1>2 DEF InLine
<1>4. CASE plan[r] # None
  <2>1. r \in Begun /\ InLine(r, plan[r])
    BY <1>4 DEF CycleInv, Begun
  <2>2. PICK t \in Begun : Noted(t) /\ Answers(r, t) /\ plan[r] = plan[t]
    BY <1>1, <2>1 DEF InLine
  <2>3. s \in Runs /\ t \in Runs /\ s.by = t.by
    BY DEF CycleInv, Begun, InLine
  <2>4. s.brief = t.brief /\ s.rev = t.rev
    BY <1>3, <2>2, <2>3 DEF Answers, Runs
  <2>5. s = t
    BY <2>3, <2>4 DEF Runs
  <2> QED BY <1>1, <1>3, <2>2, <2>5
<1> QED BY <1>1, <1>4

LEMMA ComesOn ==
  ASSUME CycleInv, CycleInv', [Next]_vars, NEW p \in Drivers
  PROVE  WorksOff(p)
<1> SUFFICES ASSUME Makes(p), job[p].run.rev > 0, ~Killed(p)
             PROVE  (Makes(p)' /\ job'[p].run = job[p].run) \/ job[p].run \in covered'
  BY DEF WorksOff
<1> DEFINE Goal == (Makes(p)' /\ job'[p].run = job[p].run) \/ job[p].run \in covered'
<1>a. /\ job \in [Drivers -> Looking \cup Making \cup {NoJob}]
      /\ job' \in [Drivers -> Looking \cup Making \cup {NoJob}]
      /\ covered \subseteq Runs /\ CycleTypes
  BY DEF CycleInv, CycleTypes
<1>b. job[p].pc \in {"prepare", "linked", "written"} /\ job[p] # NoJob
  BY DEF Makes, Making, NoJob
<1>c. job[p] \in [pc : {"prepare", "linked", "written"}, run : Runs, route : Routes]
  BY DEF Makes, Making
<1>1. ASSUME job'[p] = job[p] PROVE Goal
  BY <1>1 DEF Makes
<1>2. ASSUME NEW q \in Drivers, q # p, Driving(q) PROVE job'[p] = job[p]
  BY <1>2, <1>a DEF Driving, Writing, Inspect, Judge, Prepares, Ends, Goes, LinkPlan,
                    LinkManifest, CoverRun, Replayed
<1>3. ASSUME NEW b, Inspect(p) \/ Judge(p, b) PROVE Goal
  BY <1>3, <1>b DEF Inspect, Judge
<1>4. ASSUME LinkPlan(p) PROVE Goal
  <2>1. job'[p] = [job[p] EXCEPT !.pc = "linked"]
    BY <1>4, <1>a DEF LinkPlan, Goes
  <2> QED BY <2>1, <1>c DEF Makes, Making
<1>5. ASSUME LinkManifest(p) PROVE Goal
  <2>1. job'[p] = [job[p] EXCEPT !.pc = "written"]
    BY <1>5, <1>a DEF LinkManifest, Goes
  <2> QED BY <2>1, <1>c DEF Makes, Making
<1>6. ASSUME CoverRun(p) PROVE Goal
  BY <1>6 DEF CoverRun, Mine
<1>7. ASSUME Replayed(p) PROVE Goal
  BY <1>7, PlansAgree DEF Replayed, Mine, files
<1>8. ASSUME NEW q \in Drivers, NEW r \in covered, ReworkByHand(q, r) PROVE job'[p] = job[p]
  BY <1>8, <1>a, <1>b DEF ReworkByHand, Prepares
<1>9. ASSUME NEW who, Killed(who) PROVE job'[p] = job[p]
  BY <1>9, <1>a DEF Killed
<1>10. ASSUME UNCHANGED job PROVE job'[p] = job[p]
  BY <1>10
<1> HIDE DEF Goal
<1>11. ASSUME NEW q \in Drivers, Driving(q) PROVE Goal
  BY <1>1, <1>2, <1>3, <1>4, <1>5, <1>6, <1>7, <1>11 DEF Driving, Writing
<1>12. Goal
  BY <1>1, <1>8, <1>9, <1>10, <1>11
     DEF Next, SaveBrief, BriefSaved, Accept, Accepted, Reviewing, Decide, Decided, vars
<1> QED BY <1>12 DEF Goal

\* A note's rework is never given up for what a race or a killed driver left:
\* who makes it gets it receipted, finds it receipted, or is killed itself
\* (rework.py prepare_rework, coordinator.py prepare_run).
THEOREM ReworksGoThrough == Spec => [][\A p \in Drivers : WorksOff(p)]_vars
<1>1. CycleInv /\ CycleInv' /\ [Next]_vars => [\A p \in Drivers : WorksOff(p)]_vars
  BY ComesOn
<1> QED BY <1>1, CycleInvariant, PTL DEF Spec

-----------------------------------------------------------------------------
(* One content at a time *)

LEMMA IdleIsSure == \A p \in Drivers : job[p] = NoJob => Sure(p)
BY DEF NoJob, Sure, Judges, Makes, Looking, Making

LEMMA SureStays ==
  ASSUME NEW p, job'[p] = job[p], Sure(p),
         covered' = covered, phase' = phase, decision' = decision
  PROVE  Sure(p)'
BY DEF Sure, Judges, Makes, Active, Presented, Noted, Answers

LEMMA ActiveSame ==
  ASSUME covered' = covered, phase' = phase, decision' = decision
  PROVE  \A r \in covered : Active(r)' <=> Active(r)
BY DEF Active, Presented, Noted, Answers

\* No driver moves, and no run changes.
LEMMA NoTurn ==
  ASSUME TurnInv, covered' = covered, phase' = phase, decision' = decision,
         job' = job, raced' = raced
  PROVE  TurnInv'
<1> SUFFICES ASSUME ~raced
             PROVE  TurnInv'
  BY DEF TurnInv
<1>1. \A r, s \in covered' : Active(r)' /\ Active(s)' => r = s
  BY ActiveSame DEF TurnInv
<1>2. \A q \in Drivers : Sure(q)'
  <2> SUFFICES ASSUME NEW q \in Drivers
               PROVE  Sure(q)'
    OBVIOUS
  <2> QED BY SureStays DEF TurnInv
<1> QED BY <1>1, <1>2 DEF TurnInv

\* The only driver at work moves, and no run changes.
LEMMA OneTurn ==
  ASSUME TurnInv, NEW p \in Drivers, \A q \in Drivers \ {p} : job'[q] = job[q],
         covered' = covered, phase' = phase, decision' = decision,
         ~raced' => ~raced /\ \A q \in Drivers \ {p} : job[q] = NoJob,
         ~raced' => Sure(p)'
  PROVE  TurnInv'
<1> SUFFICES ASSUME ~raced'
             PROVE  TurnInv'
  BY DEF TurnInv
<1>1. \A r, s \in covered' : Active(r)' /\ Active(s)' => r = s
  BY ActiveSame DEF TurnInv
<1>2. \A q \in Drivers : Sure(q)'
  <2> SUFFICES ASSUME NEW q \in Drivers
               PROVE  Sure(q)'
    OBVIOUS
  <2>1. CASE q = p
    BY <2>1
  <2>2. CASE q # p
    BY <2>2, SureStays DEF TurnInv
  <2> QED BY <2>1, <2>2
<1>3. \A q, t \in Drivers : job'[q] # NoJob /\ job'[t] # NoJob => q = t
  OBVIOUS
<1> QED BY <1>1, <1>2, <1>3 DEF TurnInv

LEMMA OthersRest ==
  ASSUME TurnInv, NEW p \in Drivers, job[p] # NoJob, ~raced
  PROVE  \A q \in Drivers \ {p} : job[q] = NoJob
BY DEF TurnInv

LEMMA DropTurn ==
  ASSUME CycleInv, TurnInv, NEW p \in Drivers, job[p] # NoJob, Ends(p), raced' = raced,
         covered' = covered, phase' = phase, decision' = decision
  PROVE  TurnInv'
<1>1. job'[p] = NoJob /\ \A q \in Drivers \ {p} : job'[q] = job[q]
  BY EndTyped
<1>2. Sure(p)'
  BY <1>1 DEF NoJob, Sure, Judges, Makes, Looking, Making
<1> QED BY <1>1, <1>2, OthersRest, OneTurn

LEMMA InspectTurn ==
  ASSUME CycleInv, TurnInv, NEW p \in Drivers, Inspect(p)
  PROVE  TurnInv'
<1> DEFINE v == [pc |-> "judge", open |-> Open, busy |-> Dispatchable # {},
                 begun |-> {b \in Briefs : \E s \in covered : Starts(s, b)}]
<1>1. covered' = covered /\ phase' = phase /\ decision' = decision
  BY DEF Inspect, files, engine
<1>2. job'[p] = v /\ \A q \in Drivers \ {p} : job'[q] = job[q]
  BY DEF Inspect, CycleInv, CycleTypes
<1>3. ~raced' => ~raced /\ \A q \in Drivers : job[q] = NoJob
  BY DEF Inspect, Meets
<1>4. Sure(p)'
  <2>1. v \notin Making
    BY DEF Making
  <2>2. /\ \A r \in covered : phase[r] = "work" => v.busy
        /\ \A r \in covered : Presented(r) =>
             r \in v.open \/ \E s \in covered : Answers(s, r)
    BY DEF Open, Dispatchable
  <2> HIDE DEF v
  <2> QED BY <1>1, <1>2, <2>1, <2>2 DEF Sure, Judges, Makes, Presented, Answers
<1> QED BY <1>1, <1>2, <1>3, <1>4, OneTurn

\* Nothing is active when a brief is chosen.
LEMMA QuietMeansNone ==
  ASSUME CycleInv, NEW p \in Drivers, Judges(p), Sure(p), Quiet(job[p]), Unanswered(job[p]) = {}
  PROVE  \A r \in covered : ~Active(r)
<1> DEFINE v == job[p]
<1> SUFFICES ASSUME NEW r \in covered, Active(r)
             PROVE  FALSE
  OBVIOUS
<1>1. /\ ~v.busy /\ phase[r] # "work"
      /\ Presented(r) => r \in v.open \/ \E s \in covered : Answers(s, r)
  BY DEF Sure, Quiet
<1>2. CASE Presented(r) /\ decision[r] \notin Kinds
  <2>1. r \notin v.open
    BY <1>2 DEF Quiet
  <2>2. PICK s \in covered : Answers(s, r)
    BY <1>1, <1>2, <2>1
  <2>3. /\ r \in Runs /\ r \in Begun /\ s \in Runs /\ s \in Begun
        /\ InLine(r, plan[r]) /\ InLine(s, plan[s])
    BY DEF CycleInv, CycleTypes, Begun
  <2>4. s.rev > 0
    BY <2>2, <2>3, CycleAssumption DEF Answers, Runs
  <2>5. PICK t \in Begun : Noted(t) /\ Answers(s, t)
    BY <2>3, <2>4 DEF InLine
  <2>6. t \in Runs /\ t.by = None /\ r.by = None
    BY <2>3 DEF CycleInv, Begun, InLine
  <2>7. t.brief = r.brief /\ t.rev = r.rev
    BY <2>2, <2>3, <2>5, <2>6 DEF Answers, Runs
  <2>8. t = r
    BY <2>3, <2>6, <2>7 DEF Runs
  <2> QED BY <1>2, <2>5, <2>8 DEF Noted, Kinds
<1>3. CASE Noted(r) /\ ~\E s \in covered : Answers(s, r)
  <2>1. r \in v.open /\ decision[r] = "note"
    BY <1>1, <1>3 DEF Noted
  <2> QED BY <2>1 DEF Unanswered
<1> QED BY <1>1, <1>2, <1>3 DEF Active

LEMMA JudgeTurn ==
  ASSUME CycleInv, TurnInv, NEW p \in Drivers, NEW b, Judge(p, b)
  PROVE  TurnInv'
<1> DEFINE v == job[p]
<1>1. /\ covered' = covered /\ phase' = phase /\ decision' = decision /\ raced' = raced
      /\ v.pc = "judge" /\ v # NoJob
  BY DEF Judge, files, engine, NoJob
<1>2. Judges(p) /\ Knows(p)
  <2>1. v \in Looking \cup Making \cup {NoJob}
    BY DEF CycleInv, CycleTypes
  <2> QED BY <1>1, <2>1 DEF Making, NoJob, CycleInv, Judges
<1>3. CASE \E r \in Unanswered(v) : Prepares(p, ReworkOf(p, r), plan[r])
  <2>1. PICK r \in Unanswered(v) : Prepares(p, ReworkOf(p, r), plan[r])
    BY <1>3
  <2>2. r \in covered /\ Noted(r)
    BY <1>2 DEF Unanswered, Knows, Presented, Noted
  <2>3. ReworkOf(p, r).rev > 0
    BY <2>2, ReworkFits
  <2>4. /\ job'[p] = [pc |-> "prepare", run |-> ReworkOf(p, r), route |-> plan[r]]
        /\ \A q \in Drivers \ {p} : job'[q] = job[q]
    BY <2>1 DEF Prepares, CycleInv, CycleTypes
  <2>5. Sure(p)'
    BY <2>3, <2>4 DEF Sure, Judges, Looking
  <2> QED BY <1>1, <2>4, <2>5, OthersRest, OneTurn
<1>4. CASE /\ Quiet(v) /\ Unanswered(v) = {}
           /\ \E with \in Asked[b] : Prepares(p, StartOf(p, b), with)
  <2>1. PICK with \in Asked[b] : Prepares(p, StartOf(p, b), with)
    BY <1>4
  <2>2. /\ job'[p] = [pc |-> "prepare", run |-> StartOf(p, b), route |-> with]
        /\ \A q \in Drivers \ {p} : job'[q] = job[q]
    BY <2>1 DEF Prepares, CycleInv, CycleTypes
  <2>3. ~raced => \A r \in covered : ~Active(r)
    BY <1>2, <1>4, QuietMeansNone DEF TurnInv
  <2>4. ~raced => \A r \in covered : ~Active(r)'
    BY <1>1, <2>3, ActiveSame
  <2>5. ~raced => Sure(p)'
    BY <1>1, <2>2, <2>4 DEF Sure, Judges, Looking
  <2> QED BY <1>1, <2>2, <2>5, OthersRest, OneTurn
<1>5. CASE Ends(p)
  BY <1>1, <1>5, DropTurn
<1> QED BY <1>3, <1>4, <1>5 DEF Judge

LEMMA ByHandTurn ==
  ASSUME CycleInv, TurnInv, NEW p \in Drivers, NEW r \in covered, ReworkByHand(p, r)
  PROVE  TurnInv'
<1>1. covered' = covered /\ phase' = phase /\ decision' = decision
  BY DEF ReworkByHand, files, engine
<1>2. ReworkOf(p, r).rev > 0
  BY ReworkFits DEF ReworkByHand, Reworkable
<1>3. /\ job'[p] = [pc |-> "prepare", run |-> ReworkOf(p, r), route |-> plan[r]]
      /\ \A q \in Drivers \ {p} : job'[q] = job[q]
  BY DEF ReworkByHand, Prepares, CycleInv, CycleTypes
<1>4. Sure(p)'
  BY <1>2, <1>3 DEF Sure, Judges, Looking
<1>5. ~raced' => ~raced /\ \A q \in Drivers : job[q] = NoJob
  BY DEF ReworkByHand, Meets
<1> QED BY <1>1, <1>3, <1>4, <1>5, OneTurn

\* The files of a run are linked before it counts.
LEMMA LinkTurn ==
  ASSUME CycleInv, TurnInv, NEW p \in Drivers, LinkPlan(p) \/ LinkManifest(p)
  PROVE  TurnInv'
<1>1. PICK to \in {"linked", "written"} : Goes(p, to)
  BY DEF LinkPlan, LinkManifest
<1>2. /\ covered' = covered /\ phase' = phase /\ decision' = decision /\ raced' = raced
      /\ job[p].pc \in {"prepare", "linked", "written"} /\ job[p] # NoJob
  BY DEF LinkPlan, LinkManifest, engine, NoJob
<1>3. Makes(p) /\ Makes(p)' /\ job'[p].run = job[p].run
      /\ \A q \in Drivers \ {p} : job'[q] = job[q]
  BY <1>1, <1>2, Making_, GoesTyped DEF Makes
<1>4. ~raced => Sure(p)'
  <2>1. ~Judges(p)'
    BY <1>3 DEF Judges, Makes, Looking, Making
  <2>2. ~raced => (job[p].run.rev = 0 => \A r \in covered : ~Active(r)')
    BY <1>2, <1>3, ActiveSame DEF TurnInv, Sure
  <2> QED BY <1>2, <1>3, <2>1, <2>2 DEF Sure
<1> QED BY <1>2, <1>3, <1>4, OthersRest, OneTurn

\* The new run becomes the active one: the note that it answers was.
LEMMA CoverTurn ==
  ASSUME CycleInv, TurnInv, NEW p \in Drivers, CoverRun(p)
  PROVE  TurnInv'
<1> SUFFICES ASSUME ~raced
             PROVE  TurnInv'
  BY DEF CoverRun, TurnInv
<1>1. PICK r \in Runs, with \in Routes : r = job[p].run /\ with = job[p].route
  BY Making_ DEF CoverRun
<1>2. /\ covered' = covered \cup {r} /\ phase' = [phase EXCEPT ![r] = "work"]
      /\ decision' = decision /\ job[p].pc = "written" /\ job[p] # NoJob
  BY <1>1 DEF CoverRun, Mine, NoJob
<1>3. Makes(p) /\ InLine(r, with) /\ r \notin covered
  BY <1>1, <1>2, Making_ DEF CycleInv, Knows
<1>4. covered \subseteq Runs /\ \A s \in covered : phase'[s] = phase[s]
  BY <1>2, <1>3 DEF CycleInv, CycleTypes
<1>5. \A s \in covered : Active(s)' => Active(s)
  BY <1>2, <1>4 DEF Active, Presented, Noted
<1>6. \A s \in covered : ~Active(s)'
  <2> SUFFICES ASSUME NEW s \in covered, Active(s)'
               PROVE  FALSE
    OBVIOUS
  <2>1. Active(s)
    BY <1>5
  <2>2. CASE r.rev = 0
    BY <1>1, <1>3, <2>1, <2>2 DEF TurnInv, Sure
  <2>3. CASE r.rev # 0
    <3>1. r.rev > 0
      BY <2>3, CycleAssumption DEF Runs
    <3>2. PICK t \in Begun : Noted(t) /\ Answers(r, t)
      BY <1>3, <3>1 DEF InLine
    <3>3. t \in covered
      BY <3>2 DEF Noted, Presented
    <3>4. \A u \in covered : ~Answers(u, t)
      <4> SUFFICES ASSUME NEW u \in covered, Answers(u, t)
                   PROVE  FALSE
        OBVIOUS
      <4>1. u \in Runs /\ u.by = None /\ r.by = None
        BY <1>3 DEF CycleInv, CycleTypes, Begun, InLine
      <4>2. u = r
        BY <3>2, <4>1 DEF Answers, Runs
      <4> QED BY <1>3, <4>2
    <3>5. Active(t)
      BY <3>2, <3>4 DEF Active
    <3>6. s = t
      BY <2>1, <3>3, <3>5 DEF TurnInv
    <3>7. Answers(r, t) /\ r \in covered' /\ decision[t] = "note" /\ phase[t] = "review"
      BY <1>2, <3>2 DEF Noted, Presented
    <3>8. phase'[t] = "review" /\ decision'[t] \in Kinds
      BY <1>2, <1>4, <3>3, <3>7 DEF Kinds
    <3>9. ~Active(t)'
      BY <3>7, <3>8 DEF Active, Presented, Noted, Answers
    <3> QED BY <3>6, <3>9
  <2> QED BY <2>2, <2>3
<1>7. \A s, t \in covered' : Active(s)' /\ Active(t)' => s = t
  BY <1>2, <1>6
<1>8. job'[p] = NoJob /\ \A q \in Drivers \ {p} : job'[q] = job[q]
  BY EndTyped DEF CoverRun
<1>9. \A q \in Drivers : job'[q] = NoJob
  BY <1>2, <1>8, OthersRest
<1>10. \A q \in Drivers : Sure(q)'
  <2> SUFFICES ASSUME NEW q \in Drivers
               PROVE  Sure(q)'
    OBVIOUS
  <2> QED BY <1>9 DEF NoJob, Sure, Judges, Makes, Looking, Making
<1> QED BY <1>7, <1>9, <1>10 DEF TurnInv

\* Work that ends and decisions make no run active that was not.
LEMMA RunTurn ==
  ASSUME CycleInv, TurnInv, covered' = covered, job' = job, raced' = raced,
         \A r \in covered : Active(r)' => Active(r),
         \A r \in covered : phase'[r] = "work" => phase[r] = "work",
         \A r \in covered : Presented(r)' => Presented(r) \/ phase[r] = "work"
  PROVE  TurnInv'
<1> SUFFICES ASSUME ~raced
             PROVE  TurnInv'
  BY DEF TurnInv
<1>1. \A r, s \in covered' : Active(r)' /\ Active(s)' => r = s
  BY DEF TurnInv
<1>2. \A q \in Drivers : Sure(q)'
  <2> SUFFICES ASSUME NEW q \in Drivers
               PROVE  Sure(q)'
    OBVIOUS
  <2>1. Sure(q) /\ (Judges(q)' <=> Judges(q)) /\ (Makes(q)' <=> Makes(q))
    BY DEF TurnInv, Judges, Makes
  <2>2. Judges(q) =>
          /\ \A r \in covered : phase'[r] = "work" => job[q].busy
          /\ \A r \in covered : Presented(r)' =>
               \/ r \in job[q].open \/ job[q].busy
               \/ \E s \in covered : Answers(s, r)
    BY <2>1 DEF Sure
  <2>3. Makes(q) /\ job[q].run.rev = 0 => \A r \in covered : ~Active(r)'
    BY <2>1 DEF Sure
  <2> QED BY <2>1, <2>2, <2>3 DEF Sure, Answers
<1> QED BY <1>1, <1>2 DEF TurnInv

LEMMA AcceptedTurn ==
  ASSUME CycleInv, TurnInv, NEW r \in covered, Accepted(r)
  PROVE  TurnInv'
<1>1. PICK to \in {"work", "review", "blocked", "held"} : phase' = [phase EXCEPT ![r] = to]
  BY DEF Accepted
<1>2. /\ covered' = covered /\ decision' = decision /\ job' = job /\ raced' = raced
      /\ phase[r] = "work" /\ covered \subseteq Runs /\ phase \in [Runs -> Phases]
  BY DEF Accepted, files, CycleInv, CycleTypes
<1>3. Active(r)
  BY <1>2 DEF Active
<1>4. \A s \in covered : s # r => phase'[s] = phase[s]
  BY <1>1, <1>2
<1>5. \A s \in covered : Active(s)' => Active(s)
  BY <1>2, <1>3, <1>4 DEF Active, Presented, Noted
<1>6. /\ \A s \in covered : phase'[s] = "work" => phase[s] = "work"
      /\ \A s \in covered : Presented(s)' => Presented(s) \/ phase[s] = "work"
  BY <1>2, <1>3, <1>4 DEF Presented
<1> QED BY <1>2, <1>5, <1>6, RunTurn

LEMMA ReviewTurn ==
  ASSUME CycleInv, TurnInv, NEW r \in covered, Reviewing(r)
  PROVE  TurnInv'
<1>1. /\ covered' = covered /\ phase' = phase /\ job' = job /\ raced' = raced
      /\ Presented(r) /\ decision[r] \in {None, "file"}
      /\ covered \subseteq Runs /\ decision \in [Runs -> Decisions]
  BY DEF Reviewing, Decide, Decided, files, engine, CycleInv, CycleTypes
<1>2. Active(r)
  BY <1>1, CycleAssumption DEF Active, Kinds
<1>3. \A s \in covered : s # r => decision'[s] = decision[s]
  BY <1>1 DEF Reviewing, Decide, Decided
<1>4. \A s \in covered : Active(s)' => Active(s)
  BY <1>1, <1>2, <1>3 DEF Active, Presented, Noted, Answers
<1>5. \A s \in covered : Presented(s)' => Presented(s)
  BY <1>1 DEF Presented
<1> QED BY <1>1, <1>4, <1>5, RunTurn

LEMMA TurnStepKept == CycleInv /\ TurnInv /\ [Next]_vars => TurnInv'
<1> SUFFICES ASSUME CycleInv, TurnInv, [Next]_vars
             PROVE  TurnInv'
  OBVIOUS
<1>1. CASE UNCHANGED vars
  BY <1>1, NoTurn DEF vars
<1>2. ASSUME NEW b \in Briefs, SaveBrief(b) \/ BriefSaved(b)
      PROVE  TurnInv'
  BY <1>2, NoTurn DEF SaveBrief, BriefSaved, files, engine
<1>3. ASSUME NEW p \in Drivers, Driving(p)
      PROVE  TurnInv'
  <2>1. CASE Replayed(p)
    <3>1. job[p] # NoJob
      BY <2>1 DEF Replayed, NoJob
    <3> QED BY <2>1, <3>1, DropTurn DEF Replayed, files, engine
  <2> QED BY <1>3, <2>1, InspectTurn, JudgeTurn, LinkTurn, CoverTurn DEF Driving, Writing
<1>4. ASSUME NEW p \in Drivers, NEW r \in covered, ReworkByHand(p, r)
      PROVE  TurnInv'
  BY <1>4, ByHandTurn
<1>5. ASSUME NEW r \in covered, Accept(r) \/ Accepted(r)
      PROVE  TurnInv'
  <2>1. CASE Accept(r)
    BY <2>1, NoTurn DEF Accept, files
  <2> QED BY <1>5, <2>1, AcceptedTurn
<1>6. ASSUME NEW r \in covered, Reviewing(r)
      PROVE  TurnInv'
  BY <1>6, ReviewTurn
<1>7. ASSUME NEW who \in Drivers \cup Briefs \cup covered, Killed(who)
      PROVE  TurnInv'
  <2>1. covered' = covered /\ phase' = phase /\ decision' = decision /\ raced' = raced
    BY <1>7 DEF Killed, files, engine
  <2>2. CASE who \in Drivers
    <3>1. Ends(who)
      BY <1>7, <2>2 DEF Killed, Ends
    <3>2. CASE job[who] # NoJob
      BY <2>1, <2>2, <3>1, <3>2, DropTurn
    <3>3. CASE job[who] = NoJob
      BY <1>7, <2>2, <3>3 DEF Killed
    <3> QED BY <3>2, <3>3
  <2>3. CASE who \notin Drivers
    BY <1>7, <2>1, <2>3, NoTurn DEF Killed
  <2> QED BY <2>2, <2>3
<1> QED BY <1>1, <1>2, <1>3, <1>4, <1>5, <1>6, <1>7 DEF Next

LEMMA TurnInit == Init => TurnInv
BY IdleIsSure DEF Init, TurnInv

LEMMA TurnMeansOne == TurnInv => OneAtATime
<1> SUFFICES ASSUME TurnInv, ~raced
             PROVE  Cardinality({r \in covered : Active(r)}) <= 1
  BY DEF OneAtATime
<1> DEFINE A == {r \in covered : Active(r)}
<1>1. CASE A = {}
  BY <1>1, FS_EmptySet
<1>2. CASE A # {}
  <2>1. PICK r : r \in A
    BY <1>2
  <2>2. A = {r}
    BY <2>1 DEF TurnInv
  <2>3. Cardinality({r}) = 1
    BY FS_Singleton
  <2> QED BY <2>2, <2>3
<1> QED BY <1>1, <1>2

\* While drivers take turns, no brief is begun beside active content, and a
\* rework takes the place of the run whose note it answers.
THEOREM OneContentInHand == Spec => []OneAtATime
<1>1. Init /\ [][Next]_vars => [](CycleInv /\ TurnInv)
  BY CycleInit, CycleStep, TurnInit, TurnStepKept, PTL
<1> QED BY <1>1, TurnMeansOne, PTL DEF Spec
=============================================================================
