-------------------------- MODULE ReviewDeskProofs --------------------------
(***************************************************************************)
(* Proofs about ReviewDesk, for every set of items, desks, kinds and       *)
(* targets.  The receipts are immutable and the lock lets one desk link at *)
(* a time, so what a desk has read stays true while it goes on: DeskInv    *)
(* says, place by place, what that is.                                     *)
(***************************************************************************)
EXTENDS ReviewDesk, TLAPS

-----------------------------------------------------------------------------
(* The inductive invariant *)

\* What a desk at each place of its code may rely on: the decision that it
\* carries is the one on file, and what it has passed is covered.
Carries(p) ==
  /\ job[p].kind \in Kinds /\ job[p].at \in Stamps
  /\ Decided(job[p].item) /\ Decision(job[p].item) = RecordOf(p)

Fit(p) == job[p] # NoJob =>
  LET i == job[p].item pc == job[p].pc IN
  /\ pc \in {"action", "recheck"} =>
       Visible(i) /\ job[p].kind \in Kinds /\ job[p].at \in Stamps
  /\ pc \in {"reconcile", "request", "queue", "answer"} => Carries(p)
  /\ pc = "reconcile" => job[p].kind = "approve"
  /\ (pc \in {"bundle", "package"} /\ job[p].kind # "hand") =>
       /\ Carries(p) /\ job[p].kind = "approve"
       /\ Tasked(i) => task[i] = "completed"
  /\ pc = "package" => Releasable(i)
  /\ pc \in {"request", "queue"} =>
       <<i, "package">> \in covered /\ task[i] = "completed" /\ job[p].to \in Targets
  /\ pc = "queue" => <<i, "request">> \in covered /\ file[<<i, "request">>] = RequestOf(p)
  /\ pc = "execution" => <<i, "package">> \in covered

\* Whoever holds the lock has linked its file and not covered it.
Linked(p) == lock = p =>
  LET i == job[p].item pc == job[p].pc IN
  /\ job[p] # NoJob
  /\ pc \in {"action", "package", "request", "execution"}
  /\ <<i, pc>> \notin covered
  /\ pc = "action" => file[<<i, "action">>] = RecordOf(p)
  /\ pc = "package" => file[<<i, "package">>] = PackageOf(i)
  /\ pc = "request" => file[<<i, "request">>] = RequestOf(p)
  /\ pc = "execution" => file[<<i, "execution">>] = ExecutionOf(i)

Rests(i) ==
  /\ Decision(i) # None => Visible(i)
  /\ task[i] = "completed" => Approved(i)
  /\ admitted[i] # None => task[i] = "completed"
  /\ lock = i => Visible(i)

DeskInv ==
  /\ DeskTypeOK /\ DecisionStands /\ ChainOfProof
  /\ \A i \in Items : Rests(i)
  /\ \A p \in Desks : Fit(p) /\ Linked(p)

\* No step takes back a file, a receipt, a completion or a decision.
Keeps ==
  /\ \A f \in Items \X Names : file[f] # None => file'[f] = file[f]
  /\ covered \subseteq covered'
  /\ \A i \in Items : (task'[i] = "none") = (task[i] = "none")
  /\ \A i \in Items : task[i] = "completed" => task'[i] = "completed"

-----------------------------------------------------------------------------
(* What the type invariant says of one item, and of one desk *)

LEMMA FileTypes ==
  ASSUME DeskTypeOK, NEW i \in Items
  PROVE  /\ file[<<i, "review">>] \in {"review", None}
         /\ file[<<i, "action">>] \in Action \cup {None}
         /\ file[<<i, "package">>] \in Package \cup {None}
         /\ file[<<i, "request">>] \in Request \cup {None}
         /\ file[<<i, "execution">>] \in Package \cup {None}
<1>1. file[<<i, "review">>] \in {"review", None}
  BY DEF DeskTypeOK, Names, Contents
<1>2. file[<<i, "action">>] \in Action \cup {None}
  BY DEF DeskTypeOK, Names, Contents
<1>3. file[<<i, "package">>] \in Package \cup {None}
  BY DEF DeskTypeOK, Names, Contents
<1>4. file[<<i, "request">>] \in Request \cup {None}
  BY DEF DeskTypeOK, Names, Contents
<1>5. file[<<i, "execution">>] \in Package \cup {None}
  BY DEF DeskTypeOK, Names, Contents
<1> QED BY <1>1, <1>2, <1>3, <1>4, <1>5

LEMMA JobTypes ==
  ASSUME DeskTypeOK, NEW p \in Desks, job[p].pc \in Places
  PROVE  /\ job[p] # NoJob /\ job[p].item \in Items
         /\ job[p].kind \in Kinds \cup {"hand"}
         /\ job[p].at \in Stamps \cup {None} /\ job[p].to \in Targets \cup {None}
<1>1. job[p] \in Job \cup {NoJob}
  BY DEF DeskTypeOK
<1>2. job[p] # NoJob
  BY DEF NoJob, Places
<1>3. job[p] \in Job
  BY <1>1, <1>2
<1> QED BY <1>2, <1>3 DEF Job

\* A job that DeskTypeOK allows stays one when it goes to another place.
LEMMA GoesTyped ==
  ASSUME DeskTypeOK, NEW p \in Desks, job[p].pc \in Places,
         NEW to \in Places, Goes(p, to)
  PROVE  /\ job' \in [Desks -> Job \cup {NoJob}]
         /\ job'[p].pc = to /\ job'[p] # NoJob
         /\ job'[p].item = job[p].item /\ job'[p].kind = job[p].kind
         /\ job'[p].at = job[p].at /\ job'[p].to = job[p].to
         /\ \A q \in Desks \ {p} : job'[q] = job[q]
<1>1. job \in [Desks -> Job \cup {NoJob}] /\ job[p] # NoJob
  BY JobTypes DEF DeskTypeOK
<1>2. job[p] \in Job
  BY <1>1
<1>3. job'[p] = [job[p] EXCEPT !.pc = to]
  BY <1>1 DEF Goes
<1>4. job'[p] \in Job
  BY <1>2, <1>3 DEF Job
<1>5. \A q \in Desks \ {p} : job'[q] = job[q]
  BY <1>1 DEF Goes
<1>6. job' \in [Desks -> Job \cup {NoJob}]
  BY <1>1, <1>4 DEF Goes
<1>7. /\ job'[p].pc = to /\ job'[p].item = job[p].item /\ job'[p].kind = job[p].kind
      /\ job'[p].at = job[p].at /\ job'[p].to = job[p].to
  BY <1>2, <1>3 DEF Job
<1>8. job'[p] # NoJob
  BY <1>7 DEF NoJob, Places
<1> QED BY <1>5, <1>6, <1>7, <1>8

LEMMA EndsTyped ==
  ASSUME DeskTypeOK, NEW p \in Desks, Ends(p)
  PROVE  /\ job' \in [Desks -> Job \cup {NoJob}] /\ job'[p] = NoJob
         /\ \A q \in Desks \ {p} : job'[q] = job[q]
BY DEF DeskTypeOK, Ends

LEMMA NewTyped ==
  ASSUME DeskTypeOK, NEW p \in Desks, NEW pc \in Places, NEW i \in Items,
         NEW kind \in Kinds \cup {"hand"}, NEW at \in Stamps \cup {None},
         NewJob(p, pc, i, kind, at)
  PROVE  /\ job' \in [Desks -> Job \cup {NoJob}]
         /\ job'[p] = [pc |-> pc, item |-> i, kind |-> kind, at |-> at, to |-> None]
         /\ \A q \in Desks \ {p} : job'[q] = job[q]
BY DEF DeskTypeOK, NewJob, Job

-----------------------------------------------------------------------------
(* What is kept *)

\* A covered file is there.
LEMMA CoveredThere ==
  ASSUME DeskTypeOK, NEW f \in covered
  PROVE  f \in Items \X Names /\ file[f] # None
BY DEF DeskTypeOK

LEMMA LinkKeeps ==
  ASSUME DeskTypeOK, NEW who, NEW f \in Items \X Names, NEW bytes,
         Link(who, f, bytes), task' = task
  PROVE  Keeps /\ file'[f] = bytes /\ (\A g \in Items \X Names : g # f => file'[g] = file[g])
<1>1. \A g \in Items \X Names : g # f => file'[g] = file[g]
  BY DEF DeskTypeOK, Link
<1>2. file'[f] = bytes
  BY DEF DeskTypeOK, Link
<1>3. file[f] # None => file'[f] = file[f]
  BY <1>2 DEF Link
<1> QED BY <1>1, <1>2, <1>3 DEF Link, Keeps

LEMMA CoverKeeps ==
  ASSUME NEW who, NEW f, Cover(who, f), task' = task
  PROVE  Keeps
BY DEF Cover, Keeps

LEMMA StandsKept ==
  ASSUME DeskTypeOK, Keeps, NEW i \in Items, Decided(i)
  PROVE  Decided(i)' /\ Decision(i)' = Decision(i)
BY CoveredThere DEF Keeps, Decided, Decision, Names

LEMMA ReleasableKept ==
  ASSUME DeskTypeOK, Keeps, NEW i \in Items, Releasable(i)
  PROVE  Releasable(i)' /\ PackageOf(i)' = PackageOf(i)
BY StandsKept DEF Keeps, Releasable, Approved, PackageOf

LEMMA DecisionTyped ==
  ASSUME DeskTypeOK, NEW i \in Items, Decided(i)
  PROVE  Decision(i) \in Action
BY CoveredThere, FileTypes DEF Decided, Decision

LEMMA PackageTyped ==
  ASSUME DeskTypeOK, NEW i \in Items, Releasable(i)
  PROVE  PackageOf(i) \in Package /\ PackageOf(i) # None
<1>1. Decision(i) \in Action
  BY DecisionTyped DEF Releasable, Approved
<1>2. PackageOf(i) \in Package
  BY <1>1 DEF PackageOf, Package
<1> QED BY <1>2, DeskAssumption DEF Names, Contents

LEMMA FitStays ==
  ASSUME DeskInv, Keeps, NEW p \in Desks, job'[p] = job[p]
  PROVE  Fit(p)'
<1> SUFFICES ASSUME job[p] # NoJob
             PROVE  Fit(p)'
  BY DEF Fit
<1> DEFINE i == job[p].item
<1>0. Fit(p) /\ DeskTypeOK
  BY DEF DeskInv
<1>1. job[p] \in Job /\ i \in Items /\ job[p].pc \in Places
  BY <1>0 DEF DeskTypeOK, Job
<1>2. Visible(i) => Visible(i)'
  BY <1>1 DEF Visible, Keeps, Names
<1>3. Carries(p) => Carries(p)'
  BY <1>0, <1>1, StandsKept DEF Carries, RecordOf
<1>4. Releasable(i) => Releasable(i)'
  BY <1>0, <1>1, ReleasableKept
<1>5. \A f \in covered : f \in covered' /\ file'[f] = file[f]
  BY <1>0, CoveredThere DEF Keeps
<1>6. (Tasked(i)' = Tasked(i)) /\ (task[i] = "completed" => task'[i] = "completed")
  BY <1>1 DEF Keeps, Tasked
<1>7. RequestOf(p)' = RequestOf(p)
  BY DEF RequestOf
<1>8. job'[p].item = i /\ job'[p] # NoJob
  OBVIOUS
<1> HIDE DEF i
<1>9. /\ job[p].pc \in {"action", "recheck"} =>
           Visible(i)' /\ job[p].kind \in Kinds /\ job[p].at \in Stamps
      /\ job[p].pc \in {"reconcile", "request", "queue", "answer"} => Carries(p)'
  BY <1>0, <1>2, <1>3 DEF Fit, i
<1>10. /\ job[p].pc = "reconcile" => job[p].kind = "approve"
       /\ (job[p].pc \in {"bundle", "package"} /\ job[p].kind # "hand") =>
            /\ Carries(p)' /\ job[p].kind = "approve"
            /\ Tasked(i)' => task'[i] = "completed"
       /\ job[p].pc = "package" => Releasable(i)'
  BY <1>0, <1>3, <1>4, <1>6 DEF Fit, i
<1>11. /\ job[p].pc \in {"request", "queue"} =>
            <<i, "package">> \in covered' /\ task'[i] = "completed" /\ job[p].to \in Targets
       /\ job[p].pc = "queue" =>
            <<i, "request">> \in covered' /\ file'[<<i, "request">>] = RequestOf(p)'
       /\ job[p].pc = "execution" => <<i, "package">> \in covered'
  BY <1>0, <1>5, <1>6, <1>7 DEF Fit, i
<1> QED
  BY <1>8, <1>9, <1>10, <1>11
     DEF Fit, i, Tasked, Visible, Releasable, Approved, Decided, Decision, Carries, RecordOf, RequestOf

LEMMA LinkedStays ==
  ASSUME DeskInv, Keeps, NEW p \in Desks, job'[p] = job[p],
         lock' = p => lock = p, lock = p => covered' = covered
  PROVE  Linked(p)'
<1> SUFFICES ASSUME lock = p, lock' = p
             PROVE  Linked(p)'
  BY DEF Linked
<1> DEFINE i == job[p].item
<1>0. Linked(p) /\ Fit(p) /\ DeskTypeOK /\ job[p] # NoJob
  BY DEF DeskInv, Linked
<1>1. job[p] \in Job /\ i \in Items /\ job[p].pc \in Places
  BY <1>0 DEF DeskTypeOK, Job
<1>2. job[p].pc = "package" => PackageOf(i)' = PackageOf(i) /\ PackageOf(i) # None
  BY <1>0, <1>1, ReleasableKept, PackageTyped DEF Fit
<1>3. job[p].pc = "execution" => file'[<<i, "package">>] = file[<<i, "package">>]
                               /\ file[<<i, "package">>] # None
  BY <1>0, <1>1, CoveredThere DEF Fit, Keeps
<1>4. RecordOf(p)' = RecordOf(p) /\ RequestOf(p)' = RequestOf(p)
  BY DEF RecordOf, RequestOf
<1>5. job[p].pc = "action" => RecordOf(p) \in Action /\ RecordOf(p) # None
  BY <1>0, DeskAssumption DEF Fit, RecordOf, Action, Names, Contents
<1>6. job[p].pc = "request" => RequestOf(p) \in Request /\ RequestOf(p) # None
  BY <1>0, DeskAssumption DEF Fit, Carries, RequestOf, Request, Names, Contents
<1> QED BY <1>0, <1>1, <1>2, <1>3, <1>4, <1>5, <1>6 DEF Linked, Keeps, Names, ExecutionOf

-----------------------------------------------------------------------------
(* Steps that write no file *)

LEMMA LockFree ==
  ASSUME DeskInv, NEW p \in Desks,
         job[p] = NoJob \/ job[p].pc \notin {"action", "package", "request", "execution"}
  PROVE  lock # p
BY DEF DeskInv, Linked

\* A desk that does not hold the lock goes to another place it may be at.
LEMMA JobStep ==
  ASSUME DeskInv, NEW p \in Desks, lock # p, UNCHANGED <<store, broker, told>>,
         faults' \in 0..MaxFaults, job' \in [Desks -> Job \cup {NoJob}],
         \A q \in Desks \ {p} : job'[q] = job[q], Fit(p)'
  PROVE  DeskInv'
<1>1. file' = file /\ covered' = covered /\ lock' = lock /\ task' = task
      /\ admitted' = admitted /\ told' = told
  BY DEF store, broker
<1>2. Keeps
  BY <1>1 DEF Keeps
<1>3. DeskTypeOK' /\ DecisionStands' /\ ChainOfProof'
  BY <1>1 DEF DeskInv, DeskTypeOK, DecisionStands, ChainOfProof, Decided, Decision,
              Releasable, Approved, PackageOf
<1>4. \A i \in Items : Rests(i)'
  BY <1>1 DEF DeskInv, Rests, Decision, Visible, Approved, Decided
<1>5. \A q \in Desks : Fit(q)'
  BY <1>2, FitStays
<1>6. \A q \in Desks : Linked(q)'
  <2> SUFFICES ASSUME NEW q \in Desks
               PROVE  Linked(q)'
    OBVIOUS
  <2>1. CASE q = p
    BY <2>1, <1>1 DEF Linked
  <2>2. CASE q # p
    BY <2>2, <1>1, <1>2, LinkedStays
  <2> QED BY <2>1, <2>2
<1> QED BY <1>3, <1>4, <1>5, <1>6 DEF DeskInv

LEMMA DecideStep ==
  ASSUME DeskInv, NEW p \in Desks, NEW i \in Items, NEW kind \in Kinds, NEW at \in Stamps,
         Decide(p, i, kind, at)
  PROVE  DeskInv'
<1>1. job' \in [Desks -> Job \cup {NoJob}]
      /\ job'[p] = [pc |-> "action", item |-> i, kind |-> kind, at |-> at, to |-> None]
      /\ \A q \in Desks \ {p} : job'[q] = job[q]
  BY NewTyped DEF Decide, DeskInv, Places
<1>2. Fit(p)'
  BY <1>1 DEF Decide, Fit, Visible, store
<1> QED BY <1>1, <1>2, LockFree, JobStep DEF Decide, DeskInv, DeskTypeOK

LEMMA RepeatStep ==
  ASSUME DeskInv, NEW p \in Desks, NEW i \in Items, Repeat(p, i)
  PROVE  DeskInv'
<1> DEFINE d == Decision(i)
<1>1. Decided(i) /\ d \in Action /\ job[p] = NoJob
  BY DecisionTyped DEF Repeat, DeskInv
<1>2. d.kind \in Kinds /\ d.at \in Stamps /\ d = [kind |-> d.kind, at |-> d.at]
  BY <1>1 DEF Action
<1>3. Finalizes(d.kind) \in Places
  BY DEF Finalizes, Places
<1>4. NewJob(p, Finalizes(d.kind), i, d.kind, d.at)
  BY DEF Repeat
<1>5. job' \in [Desks -> Job \cup {NoJob}]
      /\ job'[p] = [pc |-> Finalizes(d.kind), item |-> i, kind |-> d.kind,
                    at |-> d.at, to |-> None]
      /\ \A q \in Desks \ {p} : job'[q] = job[q]
  <2> HIDE DEF d
  <2> QED BY <1>2, <1>3, <1>4, NewTyped DEF DeskInv
<1>6. d' = d /\ Decided(i)'
  BY <1>1 DEF Repeat, store, Decision, Decided
<1>7. Fit(p)'
  <2>1. Carries(p)'
    BY <1>2, <1>5, <1>6 DEF Carries, RecordOf, Decided, Decision
  <2>2. (job'[p].pc = "reconcile" /\ job'[p].kind = "approve") \/ job'[p].pc = "answer"
    BY <1>5 DEF Finalizes
  <2> QED BY <2>1, <2>2 DEF Fit
<1> QED BY <1>1, <1>5, <1>7, LockFree, JobStep DEF Repeat, DeskInv, DeskTypeOK

\* create_release_package or the adapter by hand begins.
LEMMA HandStep ==
  ASSUME DeskInv, NEW p \in Desks, NEW i \in Items, PackageByHand(p, i) \/ Adapt(p, i)
  PROVE  DeskInv'
<1>1. PICK pc \in {"bundle", "verify"} : NewJob(p, pc, i, "hand", None)
  BY DEF PackageByHand, Adapt
<1>2. job[p] = NoJob /\ UNCHANGED <<store, broker, told, faults>>
  BY DEF PackageByHand, Adapt
<1>3. job' \in [Desks -> Job \cup {NoJob}]
      /\ job'[p] = [pc |-> pc, item |-> i, kind |-> "hand", at |-> None, to |-> None]
      /\ \A q \in Desks \ {p} : job'[q] = job[q]
  BY <1>1, NewTyped DEF DeskInv, Places
<1>4. Fit(p)'
  BY <1>3 DEF Fit
<1> QED BY <1>2, <1>3, <1>4, LockFree, JobStep DEF DeskInv, DeskTypeOK

\* A job ends without a write.
LEMMA EndStep ==
  ASSUME DeskInv, NEW p \in Desks, lock # p, Ends(p), UNCHANGED <<store, broker, told>>,
         faults' \in 0..MaxFaults
  PROVE  DeskInv'
<1>1. job' \in [Desks -> Job \cup {NoJob}] /\ job'[p] = NoJob
      /\ \A q \in Desks \ {p} : job'[q] = job[q]
  BY EndsTyped DEF DeskInv
<1>2. Fit(p)'
  BY <1>1 DEF Fit
<1> QED BY <1>1, <1>2, JobStep

\* A desk that carries a decision answers it.
LEMMA CarriedStays ==
  ASSUME DeskInv, NEW p \in Desks, Carries(p), Keeps,
         job'[p].item = job[p].item, job'[p].kind = job[p].kind, job'[p].at = job[p].at,
         job[p].item \in Items
  PROVE  Carries(p)'
BY StandsKept DEF Carries, RecordOf, DeskInv

LEMMA AttentionStep ==
  ASSUME DeskInv, NEW p \in Desks, lock # p, job[p].pc \in Places,
         Attention(p), job[p].kind = "hand" \/ Carries(p),
         UNCHANGED <<store, broker, told>>, faults' \in 0..MaxFaults
  PROVE  DeskInv'
<1>1. CASE Ends(p)
  BY <1>1, EndStep
<1>2. CASE job[p].kind # "hand" /\ Goes(p, "answer")
  <2>1. /\ job' \in [Desks -> Job \cup {NoJob}] /\ job'[p].pc = "answer"
        /\ job'[p].item = job[p].item /\ job'[p].kind = job[p].kind /\ job'[p].at = job[p].at
        /\ \A q \in Desks \ {p} : job'[q] = job[q]
    BY <1>2, GoesTyped DEF DeskInv, Places
  <2>2. Keeps
    BY DEF Keeps, store, broker
  <2>3. Carries(p)'
    BY <1>2, <2>1, <2>2, CarriedStays, JobTypes DEF DeskInv
  <2>4. Fit(p)'
    BY <2>1, <2>3 DEF Fit
  <2> QED BY <2>1, <2>4, JobStep
<1> QED BY <1>1, <1>2 DEF Attention

LEMMA TroubleStep ==
  ASSUME DeskInv, NEW p \in Desks, Trouble(p)
  PROVE  DeskInv'
<1>1. Fit(p) /\ job[p] # NoJob
  BY DEF DeskInv, Trouble, NoJob
<1>2. job[p].kind = "hand" \/ Carries(p)
  BY <1>1 DEF Trouble, Fit
<1>3. job[p].pc \in Places /\ lock # p /\ Attention(p) /\ UNCHANGED <<store, broker, told>>
  BY DEF Trouble, Places
<1>4. faults' \in 0..MaxFaults
  BY DeskAssumption DEF Trouble, DeskInv, DeskTypeOK
<1> QED BY <1>2, <1>3, <1>4, AttentionStep

\* What the place of a desk tells of it.
LEMMA AtPlace ==
  ASSUME DeskInv, NEW p \in Desks, job[p].pc \in Places
  PROVE  /\ job[p] \in Job /\ job[p] # NoJob /\ job[p].item \in Items
         /\ Fit(p) /\ Linked(p) /\ DeskTypeOK
<1>1. DeskTypeOK /\ job[p] # NoJob
  BY JobTypes DEF DeskInv
<1> QED BY <1>1, JobTypes DEF DeskInv, DeskTypeOK

\* A desk goes on to another place with what it carries.
LEMMA GoesStep ==
  ASSUME DeskInv, NEW p \in Desks, NEW to \in Places, job[p].pc \in Places, lock # p,
         Goes(p, to), UNCHANGED <<store, broker, told, faults>>,
         to = "recheck" => job[p].pc = "action",
         to = "answer" => Carries(p),
         to = "package" => Releasable(job[p].item) /\ job[p].pc = "bundle",
         to = "execution" => <<job[p].item, "package">> \in covered,
         to \in {"recheck", "answer", "package", "execution"}
  PROVE  DeskInv'
<1>1. /\ job' \in [Desks -> Job \cup {NoJob}] /\ job'[p].pc = to /\ job'[p] # NoJob
      /\ job'[p].item = job[p].item /\ job'[p].kind = job[p].kind /\ job'[p].at = job[p].at
      /\ \A q \in Desks \ {p} : job'[q] = job[q]
  BY GoesTyped DEF DeskInv
<1>2. Fit(p) /\ job[p].item \in Items /\ job[p] # NoJob
  BY AtPlace
<1>3. Keeps
  BY DEF Keeps, store, broker
<1>4. Carries(p) => Carries(p)'
  BY <1>1, <1>2, <1>3, CarriedStays
<1>5. Fit(p)'
  <2>1. CASE to = "recheck"
    BY <2>1, <1>1, <1>2 DEF Fit, Visible, store
  <2>2. CASE to = "answer"
    BY <2>2, <1>1, <1>4 DEF Fit
  <2>3. CASE to = "package"
    <3>1. PICK i \in Items : job[p].item = i
      BY <1>2
    <3>2. job'[p].item = i
      BY <3>1, <1>1
    <3>3. Releasable(i)'
      BY <2>3, <3>1 DEF Releasable, Approved, Decided, Decision, store
    <3>4. job[p].kind # "hand" =>
            /\ Carries(p)' /\ job[p].kind = "approve"
            /\ Tasked(i)' => task'[i] = "completed"
      BY <2>3, <3>1, <1>2, <1>4 DEF Fit, Tasked, broker
    <3> QED
      BY <2>3, <1>1, <3>2, <3>3, <3>4
         DEF Fit, Releasable, Approved, Decided, Decision, Tasked
  <2>4. CASE to = "execution"
    BY <2>4, <1>1 DEF Fit, store
  <2> QED BY <2>1, <2>2, <2>3, <2>4
<1> QED BY <1>1, <1>5, JobStep DEF DeskInv, DeskTypeOK

LEMMA ActionRefusedStep ==
  ASSUME DeskInv, NEW p \in Desks, ActionRefused(p)
  PROVE  DeskInv'
<1>1. lock # p
  BY DeskAssumption DEF ActionRefused, Refused
<1> QED BY <1>1, GoesStep DEF ActionRefused, Places

LEMMA RequestRefusedStep ==
  ASSUME DeskInv, NEW p \in Desks, RequestRefused(p)
  PROVE  DeskInv'
<1>1. lock # p
  BY DeskAssumption DEF RequestRefused, Refused
<1>2. Carries(p)
  BY AtPlace DEF RequestRefused, Places, Fit
<1> QED BY <1>1, <1>2, GoesStep DEF RequestRefused, Places

LEMMA BundleStep ==
  ASSUME DeskInv, NEW p \in Desks, Bundle(p)
  PROVE  DeskInv'
<1>1. lock # p /\ job[p].pc = "bundle" /\ job[p].pc \in Places
  BY LockFree DEF Bundle, Places
<1>2. job[p].kind = "hand" \/ Carries(p)
  BY <1>1, AtPlace DEF Fit
<1>3. CASE Releasable(job[p].item)
  BY <1>1, <1>3, GoesStep DEF Bundle, Places
<1>4. CASE ~Releasable(job[p].item)
  BY <1>1, <1>2, <1>4, AttentionStep DEF Bundle, DeskInv, DeskTypeOK
<1> QED BY <1>3, <1>4

LEMMA VerifyStep ==
  ASSUME DeskInv, NEW p \in Desks, Verify(p)
  PROVE  DeskInv'
<1>1. lock # p /\ job[p].pc = "verify" /\ job[p].pc \in Places
  BY LockFree DEF Verify, Places
<1>2. CASE Ends(p)
  BY <1>1, <1>2, EndStep DEF Verify, DeskInv, DeskTypeOK
<1>3. CASE Goes(p, "execution") /\ <<job[p].item, "package">> \in covered
  BY <1>1, <1>3, GoesStep DEF Verify, Places
<1> QED BY <1>2, <1>3 DEF Verify

LEMMA RecheckStep ==
  ASSUME DeskInv, NEW p \in Desks, Recheck(p)
  PROVE  DeskInv'
<1> DEFINE i == job[p].item
           d == Decision(i)
<1>1. lock # p /\ job[p].pc = "recheck" /\ job[p].pc \in Places
  BY LockFree DEF Recheck, Places
<1>2. Fit(p) /\ i \in Items /\ DeskTypeOK /\ job[p] \in Job /\ job[p] # NoJob
  BY <1>1, AtPlace
<1>3. CASE ~SameDecision(p)
  BY <1>1, <1>3, EndStep DEF Recheck, DeskInv, DeskTypeOK
<1>4. CASE SameDecision(p)
  <2>1. Decided(i) /\ d \in Action /\ d.kind = job[p].kind
    BY <1>2, <1>4, DecisionTyped DEF SameDecision
  <2>2. job' = [job EXCEPT ![p] = [[job[p] EXCEPT !.pc = Finalizes(job[p].kind)]
                                   EXCEPT !.at = d.at]]
    BY <1>2, <1>4 DEF Recheck, DeskTypeOK
  <2>3. Finalizes(job[p].kind) \in Places
    BY DEF Finalizes, Places
  <2>4. d.at \in Stamps /\ d = [kind |-> job[p].kind, at |-> d.at]
    BY <2>1 DEF Action
  <2> HIDE DEF d
  <2>5. /\ job'[p] \in Job
        /\ job'[p].pc = Finalizes(job[p].kind) /\ job'[p].item = i
        /\ job'[p].kind = job[p].kind /\ job'[p].at = d.at
    BY <1>2, <2>2, <2>3, <2>4 DEF DeskTypeOK, Job
  <2>6. job' \in [Desks -> Job \cup {NoJob}] /\ \A q \in Desks \ {p} : job'[q] = job[q]
    BY <1>2, <2>2, <2>5 DEF DeskTypeOK
  <2>7. Decided(i)' /\ Decision(i)' = d
    BY <2>1, <2>5 DEF Recheck, store, Decided, Decision, d
  <2>8. job[p].kind \in Kinds
    BY <1>1, <1>2 DEF Fit
  <2>9. Carries(p)'
    BY <2>4, <2>5, <2>7, <2>8 DEF Carries, RecordOf, Decided, Decision
  <2>10. (job'[p].pc = "reconcile" /\ job'[p].kind = "approve") \/ job'[p].pc = "answer"
    BY <2>5 DEF Finalizes
  <2>11. Fit(p)'
    BY <2>9, <2>10 DEF Fit
  <2> QED BY <1>1, <2>6, <2>11, JobStep DEF Recheck, DeskInv, DeskTypeOK
<1> QED BY <1>3, <1>4

-----------------------------------------------------------------------------
(* Steps at the broker, answers and kills *)

\* The files stay as they are, and the lock is kept or let go.
LEMMA StoreStep ==
  ASSUME DeskInv, UNCHANGED <<file, covered>>, lock' \in {lock, None}, Keeps,
         task' \in [Items -> {"none", "running", "awaiting_review", "completed", "failed"}],
         admitted' \in [Items -> Request \cup {None}],
         job' \in [Desks -> Job \cup {NoJob}],
         told' \subseteq [item : Items, record : Action], faults' \in 0..MaxFaults,
         \A i \in Items : task'[i] = "completed" => Approved(i),
         \A i \in Items : admitted'[i] # None =>
           /\ task'[i] = "completed"
           /\ <<i, "request">> \in covered /\ file[<<i, "request">>] = admitted'[i],
         \A t \in told' : Decided(t.item) /\ Decision(t.item) = t.record,
         \A q \in Desks : job'[q] = job[q] \/ lock' # q,
         \A q \in Desks : Fit(q)'
  PROVE  DeskInv'
<1>1. DeskTypeOK'
  BY DEF DeskInv, DeskTypeOK
<1>2. ChainOfProof'
  BY DEF DeskInv, ChainOfProof, Releasable, Approved, Decided, Decision, PackageOf
<1>3. DecisionStands'
  BY DEF DecisionStands, Decided, Decision
<1>4. \A i \in Items : Rests(i)'
  <2> SUFFICES ASSUME NEW i \in Items
               PROVE  Rests(i)'
    OBVIOUS
  <2>1. lock' = i => lock = i
    BY DeskAssumption
  <2>2. Rests(i)
    BY DEF DeskInv
  <2>3. /\ task'[i] = "completed" => Approved(i)
        /\ admitted'[i] # None => task'[i] = "completed"
    OBVIOUS
  <2> QED BY <2>1, <2>2, <2>3 DEF Rests, Approved, Decided, Decision, Visible
<1>6. \A q \in Desks : Linked(q)'
  <2> SUFFICES ASSUME NEW q \in Desks
               PROVE  Linked(q)'
    OBVIOUS
  <2>1. None \notin Desks
    BY DeskAssumption
  <2>2. lock' = q => lock = q
    BY <2>1
  <2>3. CASE job'[q] = job[q]
    BY <2>2, <2>3, LinkedStays
  <2>4. CASE lock' # q
    BY <2>4 DEF Linked
  <2> QED BY <2>3, <2>4
<1> QED BY <1>1, <1>2, <1>3, <1>4, <1>6 DEF DeskInv

\* The facts of DeskInv that StoreStep asks for again.
LEMMA Held ==
  ASSUME DeskInv
  PROVE  /\ task \in [Items -> {"none", "running", "awaiting_review", "completed", "failed"}]
         /\ admitted \in [Items -> Request \cup {None}]
         /\ job \in [Desks -> Job \cup {NoJob}]
         /\ told \subseteq [item : Items, record : Action] /\ faults \in 0..MaxFaults
         /\ \A i \in Items : task[i] = "completed" => Approved(i)
         /\ \A i \in Items : admitted[i] # None =>
              /\ task[i] = "completed"
              /\ <<i, "request">> \in covered /\ file[<<i, "request">>] = admitted[i]
         /\ \A t \in told : Decided(t.item) /\ Decision(t.item) = t.record
BY DEF DeskInv, DeskTypeOK, Rests, ChainOfProof, DecisionStands

\* The task of a producer goes on.
LEMMA TaskStep ==
  ASSUME DeskInv, NEW i \in Items, Submit(i) \/ TaskFails(i)
  PROVE  DeskInv'
<1>1. PICK st \in {"awaiting_review", "failed"} : task' = [task EXCEPT ![i] = st]
  BY DEF Submit, TaskFails
<1>2. /\ task[i] = "running" /\ UNCHANGED <<file, covered, lock, admitted, job, told, faults>>
  BY DEF Submit, TaskFails, store
<1>3. /\ task' \in [Items -> {"none", "running", "awaiting_review", "completed", "failed"}]
      /\ Keeps /\ \A j \in Items : task'[j] = "completed" => task[j] = "completed"
      /\ \A j \in Items : task[j] = "completed" => task'[j] = "completed"
  BY <1>1, <1>2, Held DEF Keeps
<1>4. \A j \in Items : task'[j] = "completed" => Approved(j)
  BY <1>3, Held
<1>5. \A j \in Items : admitted'[j] # None =>
        /\ task'[j] = "completed"
        /\ <<j, "request">> \in covered /\ file[<<j, "request">>] = admitted'[j]
  BY <1>2, <1>3, Held
<1>6. \A t \in told' : Decided(t.item) /\ Decision(t.item) = t.record
  BY <1>2, Held
<1>7. /\ job' \in [Desks -> Job \cup {NoJob}] /\ admitted' \in [Items -> Request \cup {None}]
      /\ told' \subseteq [item : Items, record : Action] /\ faults' \in 0..MaxFaults
      /\ \A q \in Desks : job'[q] = job[q]
  BY <1>2, Held
<1>8. lock' \in {lock, None} /\ UNCHANGED <<file, covered>>
  BY <1>2
<1>9. /\ \A q \in Desks : job'[q] = job[q] \/ lock' # q
      /\ \A q \in Desks : Fit(q)'
  BY <1>3, <1>7, FitStays
<1>10. task' \in [Items -> {"none", "running", "awaiting_review", "completed", "failed"}]
       /\ Keeps
  BY <1>3
<1> QED BY <1>4, <1>5, <1>6, <1>7, <1>8, <1>9, <1>10, StoreStep

LEMMA ReconcileStep ==
  ASSUME DeskInv, NEW p \in Desks, Reconcile(p)
  PROVE  DeskInv'
<1>1. lock # p /\ job[p].pc = "reconcile" /\ job[p].pc \in Places
  BY LockFree DEF Reconcile, Places
<1>2. PICK i \in Items : i = job[p].item
  BY <1>1, AtPlace
<1>3. Carries(p) /\ job[p].kind = "approve" /\ Approved(i)
  <2>1. Carries(p) /\ job[p].kind = "approve"
    BY <1>1, AtPlace DEF Fit
  <2> QED BY <2>1, <1>2 DEF Carries, Approved, RecordOf
<1>4. CASE Goes(p, "answer") /\ UNCHANGED task
  BY <1>1, <1>3, <1>4, GoesStep DEF Reconcile, Places, broker
<1>5. CASE /\ Goes(p, "bundle") /\ (Tasked(i) => Mirrors(i))
           /\ task' = IF Tasked(i) THEN [task EXCEPT ![i] = "completed"] ELSE task
  <2>1. /\ job' \in [Desks -> Job \cup {NoJob}] /\ job'[p].pc = "bundle" /\ job'[p].item = i
        /\ job'[p].kind = job[p].kind /\ job'[p].at = job[p].at
        /\ \A q \in Desks \ {p} : job'[q] = job[q]
    BY <1>1, <1>2, <1>5, GoesTyped DEF DeskInv, Places
  <2>2. UNCHANGED <<file, covered, lock, admitted, told, faults>>
    BY DEF Reconcile, store
  <2>3. /\ task' \in [Items -> {"none", "running", "awaiting_review", "completed", "failed"}]
        /\ \A j \in Items : (task'[j] = "none") = (task[j] = "none")
        /\ \A j \in Items : task[j] = "completed" => task'[j] = "completed"
        /\ \A j \in Items : task'[j] = "completed" => (task[j] = "completed" \/ j = i)
        /\ task'[i] # "none" => task'[i] = "completed"
    BY <1>5, Held DEF Tasked, Mirrors
  <2>4. Keeps
    BY <2>2, <2>3 DEF Keeps
  <2>5. Carries(p)'
    BY <1>2, <1>3, <2>1, <2>4, CarriedStays
  <2>6. Fit(p)'
    BY <1>3, <2>1, <2>3, <2>5 DEF Fit, Tasked
  <2>7. \A j \in Items : task'[j] = "completed" => Approved(j)
    BY <1>3, <2>3, Held
  <2>8. \A j \in Items : admitted'[j] # None =>
          /\ task'[j] = "completed"
          /\ <<j, "request">> \in covered /\ file[<<j, "request">>] = admitted'[j]
    BY <2>2, <2>3, Held
  <2>9. \A t \in told' : Decided(t.item) /\ Decision(t.item) = t.record
    BY <2>2, Held
  <2>10. /\ admitted' \in [Items -> Request \cup {None}]
         /\ told' \subseteq [item : Items, record : Action] /\ faults' \in 0..MaxFaults
         /\ lock' \in {lock, None} /\ UNCHANGED <<file, covered>>
    BY <2>2, Held
  <2>11. /\ \A q \in Desks : job'[q] = job[q] \/ lock' # q
         /\ \A q \in Desks : Fit(q)'
    BY <1>1, <2>1, <2>2, <2>4, <2>6, FitStays
  <2> QED BY <2>1, <2>3, <2>4, <2>7, <2>8, <2>9, <2>10, <2>11, StoreStep
<1> QED BY <1>2, <1>4, <1>5 DEF Reconcile

LEMMA QueueStep ==
  ASSUME DeskInv, NEW p \in Desks, Queue(p)
  PROVE  DeskInv'
<1>1. lock # p /\ job[p].pc = "queue" /\ job[p].pc \in Places
  BY LockFree DEF Queue, Places
<1>2. PICK i \in Items : i = job[p].item
  BY <1>1, AtPlace
<1>3. /\ Carries(p) /\ task[i] = "completed" /\ job[p].to \in Targets
      /\ <<i, "request">> \in covered /\ file[<<i, "request">>] = RequestOf(p)
  BY <1>1, <1>2, AtPlace DEF Fit
<1>4. RequestOf(p) \in Request
  BY <1>3 DEF RequestOf, Request, Carries
<1>5. /\ job' \in [Desks -> Job \cup {NoJob}] /\ job'[p].pc = "answer" /\ job'[p].item = i
      /\ job'[p].kind = job[p].kind /\ job'[p].at = job[p].at
      /\ \A q \in Desks \ {p} : job'[q] = job[q]
  BY <1>1, <1>2, GoesTyped DEF Queue, DeskInv, Places
<1>6. UNCHANGED <<file, covered, lock, task, told, faults>>
  BY DEF Queue, store
<1>7. Keeps
  BY <1>6 DEF Keeps
<1>8. Fit(p)'
  <2>1. Carries(p)'
    BY <1>2, <1>3, <1>5, <1>7, CarriedStays
  <2> QED BY <2>1, <1>5 DEF Fit
<1>9. admitted' = [admitted EXCEPT ![i] = RequestOf(p)]
  BY <1>2 DEF Queue
<1>10. admitted' \in [Items -> Request \cup {None}]
  BY <1>4, <1>9, Held
<1>11. \A j \in Items : admitted'[j] # None =>
          /\ task'[j] = "completed"
          /\ <<j, "request">> \in covered /\ file[<<j, "request">>] = admitted'[j]
  BY <1>3, <1>6, <1>9, Held
<1>12. \A j \in Items : task'[j] = "completed" => Approved(j)
  BY <1>6, Held
<1>13. \A t \in told' : Decided(t.item) /\ Decision(t.item) = t.record
  BY <1>6, Held
<1>14. /\ task' \in [Items -> {"none", "running", "awaiting_review", "completed", "failed"}]
       /\ told' \subseteq [item : Items, record : Action] /\ faults' \in 0..MaxFaults
       /\ lock' \in {lock, None} /\ UNCHANGED <<file, covered>>
  BY <1>6, Held
<1>15. /\ \A q \in Desks : job'[q] = job[q] \/ lock' # q
       /\ \A q \in Desks : Fit(q)'
  BY <1>1, <1>5, <1>6, <1>7, <1>8, FitStays
<1> QED BY <1>5, <1>7, <1>10, <1>11, <1>12, <1>13, <1>14, <1>15, StoreStep

LEMMA AnswerStep ==
  ASSUME DeskInv, NEW p \in Desks, Answer(p)
  PROVE  DeskInv'
<1>1. lock # p /\ job[p].pc = "answer" /\ job[p].pc \in Places
  BY LockFree DEF Answer, Places
<1>2. PICK i \in Items : i = job[p].item
  BY <1>1, AtPlace
<1>3. Carries(p)
  BY <1>1, AtPlace DEF Fit
<1>4. RecordOf(p) \in Action
  BY <1>3 DEF Carries, RecordOf, Action
<1>5. job' \in [Desks -> Job \cup {NoJob}] /\ job'[p] = NoJob
      /\ \A q \in Desks \ {p} : job'[q] = job[q]
  BY EndsTyped DEF Answer, DeskInv
<1>6. UNCHANGED <<file, covered, lock, task, admitted, faults>>
  BY DEF Answer, store, broker
<1>7. Keeps /\ Fit(p)'
  BY <1>5, <1>6 DEF Keeps, Fit
<1>8. told' = told \cup {[item |-> i, record |-> RecordOf(p)]}
  BY <1>2 DEF Answer
<1>9. told' \subseteq [item : Items, record : Action]
  BY <1>4, <1>8, Held
<1>10. \A t \in told' : Decided(t.item) /\ Decision(t.item) = t.record
  BY <1>2, <1>3, <1>8, Held DEF Carries
<1>11. /\ \A j \in Items : task'[j] = "completed" => Approved(j)
       /\ \A j \in Items : admitted'[j] # None =>
            /\ task'[j] = "completed"
            /\ <<j, "request">> \in covered /\ file[<<j, "request">>] = admitted'[j]
  BY <1>6, Held
<1>12. /\ task' \in [Items -> {"none", "running", "awaiting_review", "completed", "failed"}]
       /\ admitted' \in [Items -> Request \cup {None}] /\ faults' \in 0..MaxFaults
       /\ lock' \in {lock, None} /\ UNCHANGED <<file, covered>>
  BY <1>6, Held
<1>13. /\ \A q \in Desks : job'[q] = job[q] \/ lock' # q
       /\ \A q \in Desks : Fit(q)'
  BY <1>1, <1>5, <1>6, <1>7, FitStays
<1> QED BY <1>5, <1>7, <1>9, <1>10, <1>11, <1>12, <1>13, StoreStep

LEMMA KilledStep ==
  ASSUME DeskInv, NEW who \in Desks \cup Items, Killed(who)
  PROVE  DeskInv'
<1>1. UNCHANGED <<file, covered, task, admitted, told>> /\ lock' \in {lock, None} /\ lock' # who
  <2>1. who # None
    BY DeskAssumption
  <2> QED BY <2>1 DEF Killed, broker
<1>2. faults' \in 0..MaxFaults
  BY Held, DeskAssumption DEF Killed
<1>3. Keeps
  BY <1>1 DEF Keeps
<1>4. /\ job' \in [Desks -> Job \cup {NoJob}]
      /\ \A q \in Desks : job'[q] = job[q] \/ (q = who /\ job'[q] = NoJob)
  BY Held DEF Killed
<1>5. \A q \in Desks : job'[q] = job[q] \/ lock' # q
  BY <1>1, <1>4
<1>6. \A q \in Desks : Fit(q)'
  <2> SUFFICES ASSUME NEW q \in Desks
               PROVE  Fit(q)'
    OBVIOUS
  <2>1. CASE job'[q] = job[q]
    BY <2>1, <1>3, FitStays
  <2>2. CASE job'[q] = NoJob
    BY <2>2 DEF Fit
  <2> QED BY <2>1, <2>2, <1>4
<1> QED BY <1>1, <1>2, <1>3, <1>4, <1>5, <1>6, Held, StoreStep

-----------------------------------------------------------------------------
(* Steps that link or cover a file *)

LEMMA LinkStep ==
  ASSUME DeskInv, NEW who \in Desks \cup Items, NEW i \in Items, NEW n \in Names,
         NEW bytes \in Contents[n], Link(who, <<i, n>>, bytes),
         UNCHANGED <<broker, job, told, faults>>,
         ChainOfProof', n = "action" => Visible(i), who \in Items => Visible(who)',
         \A p \in Desks : who = p => Linked(p)'
  PROVE  DeskInv'
<1>1. /\ task' = task /\ admitted' = admitted /\ job' = job /\ told' = told
      /\ faults' = faults /\ covered' = covered /\ lock' = who /\ lock = None
  BY DEF Link, broker
<1>2. /\ Keeps /\ file'[<<i, n>>] = bytes
      /\ \A g \in Items \X Names : g # <<i, n>> => file'[g] = file[g]
  BY <1>1, LinkKeeps DEF DeskInv
<1>3. bytes # None
  BY DeskAssumption
<1>4. DeskTypeOK'
  <2>1. DOMAIN file' = Items \X Names
    BY DEF DeskInv, DeskTypeOK, Link
  <2>2. \A g \in Items \X Names : file'[g] \in Contents[g[2]] \cup {None}
    BY <1>2 DEF DeskInv, DeskTypeOK
  <2>3. covered' \subseteq {g \in Items \X Names : file'[g] # None}
    BY <1>1, <1>2 DEF DeskInv, DeskTypeOK, Keeps
  <2> QED BY <1>1, <2>1, <2>2, <2>3 DEF DeskInv, DeskTypeOK
<1>5. DecisionStands'
  <2> SUFFICES ASSUME NEW t \in told
               PROVE  Decided(t.item)' /\ Decision(t.item)' = t.record
    BY <1>1 DEF DecisionStands
  <2>1. t.item \in Items /\ Decided(t.item) /\ Decision(t.item) = t.record
    BY DEF DeskInv, DeskTypeOK, DecisionStands
  <2> QED BY <2>1, <1>2, StandsKept DEF DeskInv
<1>6. \A j \in Items : Rests(j)'
  <2> SUFFICES ASSUME NEW j \in Items
               PROVE  Rests(j)'
    OBVIOUS
  <2>1. Rests(j) /\ DeskTypeOK
    BY DEF DeskInv
  <2>2. Decision(j)' # None => Visible(j)'
    <3>1. Visible(j) => Visible(j)'
      BY <1>2 DEF Visible, Keeps, Names
    <3>2. Decision(j)' # None => (Decision(j) # None \/ (j = i /\ n = "action"))
      BY <1>2 DEF Decision, Names
    <3> QED BY <2>1, <3>1, <3>2 DEF Rests
  <2>3. Approved(j) => Approved(j)'
    BY <1>2, <2>1, StandsKept DEF Approved
  <2> QED BY <1>1, <2>1, <2>2, <2>3 DEF Rests
<1>7. \A p \in Desks : Fit(p)'
  BY <1>1, <1>2, FitStays
<1>8. \A p \in Desks : Linked(p)'
  BY <1>1 DEF Linked
<1> QED BY <1>4, <1>5, <1>6, <1>7, <1>8 DEF DeskInv

\* Of a file that no proof rests on, or one whose proof is there.
LEMMA ChainKept ==
  ASSUME DeskInv, Keeps, admitted' = admitted, NEW i \in Items, NEW n \in Names,
         \A g \in Items \X Names : g # <<i, n>> => file'[g] = file[g],
         n = "package" => Releasable(i) /\ file'[<<i, n>>] \in {None, PackageOf(i)},
         n = "request" => /\ <<i, "package">> \in covered
                          /\ file'[<<i, n>>] # None => file'[<<i, n>>].at = Decision(i).at,
         n = "execution" => <<i, "package">> \in covered
  PROVE  ChainOfProof'
<1> SUFFICES ASSUME NEW j \in Items
             PROVE  /\ file'[<<j, "package">>] # None =>
                         Releasable(j)' /\ file'[<<j, "package">>] = PackageOf(j)'
                    /\ file'[<<j, "request">>] # None =>
                         /\ <<j, "package">> \in covered'
                         /\ file'[<<j, "request">>].at = Decision(j)'.at
                    /\ file'[<<j, "execution">>] # None => <<j, "package">> \in covered'
                    /\ admitted'[j] # None =>
                         <<j, "request">> \in covered' /\ file'[<<j, "request">>] = admitted'[j]
  BY DEF ChainOfProof, Releasable, Approved
<1>0. DeskTypeOK /\ ChainOfProof
  BY DEF DeskInv
<1>1. Releasable(j) => Releasable(j)' /\ PackageOf(j)' = PackageOf(j)
  BY <1>0, ReleasableKept
<1>2. \A g \in covered : g \in covered' /\ file'[g] = file[g] /\ file[g] # None
  BY <1>0, CoveredThere DEF Keeps
<1>3. <<j, "package">> \in covered => Releasable(j)
  BY <1>0, <1>2 DEF ChainOfProof, Releasable
<1>4. Releasable(j) => Decision(j)' = Decision(j)
  BY <1>0, StandsKept DEF Releasable, Approved
<1>5. file'[<<j, "package">>] # None =>
        Releasable(j)' /\ file'[<<j, "package">>] = PackageOf(j)'
  <2>1. CASE i = j /\ n = "package"
    BY <2>1, <1>1
  <2>2. CASE ~(i = j /\ n = "package")
    <3>1. file'[<<j, "package">>] = file[<<j, "package">>]
      BY <2>2 DEF Names
    <3> QED BY <3>1, <1>0, <1>1 DEF ChainOfProof, Releasable
  <2> QED BY <2>1, <2>2
<1>6. file'[<<j, "request">>] # None =>
        <<j, "package">> \in covered' /\ file'[<<j, "request">>].at = Decision(j)'.at
  <2>1. CASE i = j /\ n = "request"
    BY <2>1, <1>2, <1>3, <1>4
  <2>2. CASE ~(i = j /\ n = "request")
    <3>1. file'[<<j, "request">>] = file[<<j, "request">>]
      BY <2>2 DEF Names
    <3> QED BY <3>1, <1>0, <1>2, <1>3, <1>4 DEF ChainOfProof
  <2> QED BY <2>1, <2>2
<1>7. file'[<<j, "execution">>] # None => <<j, "package">> \in covered'
  <2>1. CASE i = j /\ n = "execution"
    BY <2>1, <1>2
  <2>2. CASE ~(i = j /\ n = "execution")
    <3>1. file'[<<j, "execution">>] = file[<<j, "execution">>]
      BY <2>2 DEF Names
    <3> QED BY <3>1, <1>0, <1>2 DEF ChainOfProof
  <2> QED BY <2>1, <2>2
<1>8. admitted'[j] # None =>
        <<j, "request">> \in covered' /\ file'[<<j, "request">>] = admitted'[j]
  BY <1>0, <1>2 DEF ChainOfProof
<1> QED BY <1>5, <1>6, <1>7, <1>8

LEMMA PresentStep ==
  ASSUME DeskInv, NEW i \in Items, Present(i)
  PROVE  DeskInv'
<1>1. Link(i, <<i, "review">>, "review") /\ UNCHANGED <<broker, job, told, faults>>
  BY DEF Present
<1>2. "review" \in Contents["review"] /\ "review" \in Names /\ "review" # None
  BY DeskAssumption DEF Contents, Names
<1>3. /\ Keeps /\ file'[<<i, "review">>] = "review"
      /\ \A g \in Items \X Names : g # <<i, "review">> => file'[g] = file[g]
  BY <1>1, <1>2, LinkKeeps DEF DeskInv, broker
<1>4. ChainOfProof'
  BY <1>1, <1>2, <1>3, ChainKept DEF broker
<1>5. Visible(i)'
  BY <1>2, <1>3 DEF Visible
<1>6. \A p \in Desks : i # p
  BY DeskAssumption
<1> QED BY <1>1, <1>2, <1>4, <1>5, <1>6, LinkStep

LEMMA LinkActionStep ==
  ASSUME DeskInv, NEW p \in Desks, LinkAction(p)
  PROVE  DeskInv'
<1>1. PICK i \in Items : i = job[p].item
  BY AtPlace DEF LinkAction, Places
<1>2. /\ Link(p, <<i, "action">>, RecordOf(p)) /\ UNCHANGED <<broker, job, told, faults>>
      /\ job[p].pc = "action" /\ job[p] # NoJob
  BY <1>1, AtPlace DEF LinkAction, Places
<1>3. Visible(i) /\ RecordOf(p) \in Action
  BY <1>1, <1>2 DEF DeskInv, Fit, RecordOf, Action
<1>4. RecordOf(p) \in Contents["action"] /\ "action" \in Names
  BY <1>3 DEF Contents, Names
<1>5. /\ Keeps /\ file'[<<i, "action">>] = RecordOf(p)
      /\ \A g \in Items \X Names : g # <<i, "action">> => file'[g] = file[g]
  BY <1>2, <1>4, LinkKeeps DEF DeskInv, broker
<1>6. ChainOfProof'
  BY <1>2, <1>4, <1>5, ChainKept DEF broker
<1>7. Linked(p)'
  BY <1>1, <1>2, <1>5 DEF Linked, Link, RecordOf
<1>8. p \notin Items
  BY DeskAssumption
<1> QED BY <1>2, <1>3, <1>4, <1>6, <1>7, <1>8, LinkStep

LEMMA LinkPackageStep ==
  ASSUME DeskInv, NEW p \in Desks, LinkPackage(p)
  PROVE  DeskInv'
<1>1. PICK i \in Items : i = job[p].item
  BY AtPlace DEF LinkPackage, Places
<1>2. /\ Link(p, <<i, "package">>, PackageOf(i)) /\ UNCHANGED <<broker, job, told, faults>>
      /\ job[p].pc = "package" /\ job[p] # NoJob
  BY <1>1, AtPlace DEF LinkPackage, Places
<1>3. Releasable(i)
  BY <1>1, <1>2 DEF DeskInv, Fit
<1>4. PackageOf(i) \in Contents["package"] /\ "package" \in Names
  BY <1>3, PackageTyped DEF Contents, Names, DeskInv
<1>5. /\ Keeps /\ file'[<<i, "package">>] = PackageOf(i)
      /\ \A g \in Items \X Names : g # <<i, "package">> => file'[g] = file[g]
  BY <1>2, <1>4, LinkKeeps DEF DeskInv, broker
<1>6. ChainOfProof'
  BY <1>2, <1>3, <1>4, <1>5, ChainKept DEF broker
<1>7. PackageOf(i)' = PackageOf(i)
  BY <1>3, <1>5, ReleasableKept DEF DeskInv
<1>8. Linked(p)'
  BY <1>1, <1>2, <1>5, <1>7 DEF Linked, Link, PackageOf, Decision
<1>9. p \notin Items
  BY DeskAssumption
<1> QED BY <1>2, <1>4, <1>6, <1>8, <1>9, LinkStep

LEMMA LinkRequestStep ==
  ASSUME DeskInv, NEW p \in Desks, LinkRequest(p)
  PROVE  DeskInv'
<1>1. PICK i \in Items : i = job[p].item
  BY AtPlace DEF LinkRequest, Places
<1>2. /\ Link(p, <<i, "request">>, RequestOf(p)) /\ UNCHANGED <<broker, job, told, faults>>
      /\ job[p].pc = "request" /\ job[p] # NoJob
  BY <1>1, AtPlace DEF LinkRequest, Places
<1>3. Carries(p) /\ <<i, "package">> \in covered /\ job[p].to \in Targets
  BY <1>1, <1>2 DEF DeskInv, Fit
<1>4. RequestOf(p) \in Request /\ RequestOf(p).at = Decision(i).at
  BY <1>1, <1>3 DEF RequestOf, Request, Carries, RecordOf
<1>5. RequestOf(p) \in Contents["request"] /\ "request" \in Names
  BY <1>4 DEF Contents, Names
<1>6. /\ Keeps /\ file'[<<i, "request">>] = RequestOf(p)
      /\ \A g \in Items \X Names : g # <<i, "request">> => file'[g] = file[g]
  BY <1>2, <1>5, LinkKeeps DEF DeskInv, broker
<1>7. ChainOfProof'
  BY <1>2, <1>3, <1>4, <1>5, <1>6, ChainKept DEF broker
<1>8. Linked(p)'
  BY <1>1, <1>2, <1>6 DEF Linked, Link, RequestOf
<1>9. p \notin Items
  BY DeskAssumption
<1> QED BY <1>2, <1>5, <1>7, <1>8, <1>9, LinkStep

LEMMA LinkExecutionStep ==
  ASSUME DeskInv, NEW p \in Desks, LinkExecution(p)
  PROVE  DeskInv'
<1>1. PICK i \in Items : i = job[p].item
  BY AtPlace DEF LinkExecution, Places
<1>2. /\ Link(p, <<i, "execution">>, ExecutionOf(i)) /\ UNCHANGED <<broker, job, told, faults>>
      /\ job[p].pc = "execution" /\ job[p] # NoJob
  BY <1>1, AtPlace DEF LinkExecution, Places
<1>3. <<i, "package">> \in covered
  BY <1>1, <1>2 DEF DeskInv, Fit
<1>4. ExecutionOf(i) \in Contents["execution"] /\ "execution" \in Names
  BY <1>3, CoveredThere, FileTypes DEF Contents, Names, DeskInv, ExecutionOf
<1>5. /\ Keeps /\ file'[<<i, "execution">>] = ExecutionOf(i)
      /\ \A g \in Items \X Names : g # <<i, "execution">> => file'[g] = file[g]
  BY <1>2, <1>4, LinkKeeps DEF DeskInv, broker
<1>6. ChainOfProof'
  BY <1>2, <1>3, <1>4, <1>5, ChainKept DEF broker
<1>7. ExecutionOf(i)' = ExecutionOf(i)
  BY <1>5 DEF ExecutionOf, Names
<1>8. Linked(p)'
  BY <1>1, <1>2, <1>5, <1>7 DEF Linked, Link, ExecutionOf
<1>9. p \notin Items
  BY DeskAssumption
<1> QED BY <1>2, <1>4, <1>6, <1>8, <1>9, LinkStep

LEMMA CoverStep ==
  ASSUME DeskInv, NEW who, NEW f \in Items \X Names, file[f] # None,
         Cover(who, f), UNCHANGED <<broker, told, faults>>,
         job' \in [Desks -> Job \cup {NoJob}], \A q \in Desks : Fit(q)'
  PROVE  DeskInv'
<1>1. /\ task' = task /\ admitted' = admitted /\ told' = told /\ faults' = faults
      /\ file' = file /\ covered' = covered \cup {f} /\ lock' = None
  BY DEF Cover, broker
<1>2. Keeps
  BY <1>1 DEF Keeps
<1>3. DeskTypeOK'
  BY <1>1 DEF DeskInv, DeskTypeOK
<1>4. DecisionStands'
  BY <1>1 DEF DeskInv, DecisionStands, Decided, Decision
<1>5. ChainOfProof'
  BY <1>1 DEF DeskInv, ChainOfProof, Releasable, Approved, Decided, Decision, PackageOf
<1>6. \A i \in Items : Rests(i)'
  <2>1. None \notin Items
    BY DeskAssumption
  <2> QED BY <1>1, <2>1 DEF DeskInv, Rests, Approved, Decided, Decision, Visible
<1>7. \A q \in Desks : Linked(q)'
  BY <1>1, DeskAssumption DEF Linked
<1> QED BY <1>3, <1>4, <1>5, <1>6, <1>7 DEF DeskInv

\* The desk that covered its file, or found it covered, goes on.
LEMMA PassStep ==
  ASSUME DeskInv, NEW p \in Desks, NEW f \in Items \X Names, NEW bytes, bytes # None,
         lock = p => file[f] = bytes,
         Cover(p, f) \/ (Repeated(f, bytes) /\ UNCHANGED store),
         UNCHANGED <<broker, told, faults>>, job' \in [Desks -> Job \cup {NoJob}],
         \A q \in Desks \ {p} : job'[q] = job[q], Fit(p)'
  PROVE  DeskInv'
<1>1. CASE Cover(p, f)
  <2>1. file[f] # None /\ Keeps
    BY <1>1, CoverKeeps DEF Cover, broker
  <2>2. \A q \in Desks : Fit(q)'
    BY <2>1, FitStays
  <2> QED BY <1>1, <2>1, <2>2, CoverStep
<1>2. CASE Repeated(f, bytes) /\ UNCHANGED store
  <2>1. lock # p /\ faults' \in 0..MaxFaults
    BY <1>2, DeskAssumption, Held DEF Repeated
  <2> QED BY <1>2, <2>1, JobStep
<1> QED BY <1>1, <1>2

\* After it the file is covered, with the bytes that the desk meant.
LEMMA PassKeeps ==
  ASSUME DeskInv, NEW p, NEW f \in Items \X Names, NEW bytes, lock = p => file[f] = bytes,
         Cover(p, f) \/ (Repeated(f, bytes) /\ UNCHANGED store), UNCHANGED broker
  PROVE  Keeps /\ f \in covered' /\ file'[f] = bytes /\ task' = task
<1>1. CASE Cover(p, f)
  BY <1>1, CoverKeeps DEF Cover, broker
<1>2. CASE Repeated(f, bytes) /\ UNCHANGED store
  BY <1>2 DEF Repeated, store, Keeps, broker
<1> QED BY <1>1, <1>2

LEMMA CoverActionStep ==
  ASSUME DeskInv, NEW p \in Desks, CoverAction(p)
  PROVE  DeskInv'
<1>1. job[p].pc = "action" /\ job[p].pc \in Places
  BY DEF CoverAction, Places
<1>2. PICK i \in Items : i = job[p].item
  BY <1>1, AtPlace
<1>3. job[p].kind \in Kinds /\ job[p].at \in Stamps /\ (lock = p => file[<<i, "action">>] = RecordOf(p))
  BY <1>1, <1>2, AtPlace DEF Fit, Linked
<1>4. RecordOf(p) # None /\ <<i, "action">> \in Items \X Names
  <2>1. RecordOf(p) \in Contents["action"] /\ "action" \in Names
    BY <1>3 DEF RecordOf, Action, Contents, Names
  <2> QED BY <2>1, DeskAssumption
<1>5. /\ Cover(p, <<i, "action">>) \/ (Repeated(<<i, "action">>, RecordOf(p)) /\ UNCHANGED store)
      /\ Goes(p, Finalizes(job[p].kind)) /\ UNCHANGED <<broker, told, faults>>
  BY <1>2 DEF CoverAction
<1>6. <<i, "action">> \in covered' /\ file'[<<i, "action">>] = RecordOf(p)
  BY <1>3, <1>4, <1>5, PassKeeps
<1>7. /\ job' \in [Desks -> Job \cup {NoJob}] /\ job'[p].pc = Finalizes(job[p].kind)
      /\ job'[p].item = i /\ job'[p].kind = job[p].kind /\ job'[p].at = job[p].at
      /\ \A q \in Desks \ {p} : job'[q] = job[q]
  BY <1>1, <1>2, <1>5, GoesTyped DEF DeskInv, Places, Finalizes
<1>8. Fit(p)'
  <2>1. Carries(p)'
    BY <1>3, <1>6, <1>7 DEF Carries, RecordOf, Decided, Decision
  <2>2. (job'[p].pc = "reconcile" /\ job'[p].kind = "approve") \/ job'[p].pc = "answer"
    BY <1>7 DEF Finalizes
  <2> QED BY <2>1, <2>2 DEF Fit
<1> QED BY <1>3, <1>4, <1>5, <1>7, <1>8, PassStep

LEMMA CoverPackageStep ==
  ASSUME DeskInv, NEW p \in Desks, CoverPackage(p)
  PROVE  DeskInv'
<1>1. job[p].pc = "package" /\ job[p].pc \in Places
  BY DEF CoverPackage, Places
<1>2. PICK i \in Items : i = job[p].item
  BY <1>1, AtPlace
<1>3. /\ Releasable(i) /\ (lock = p => file[<<i, "package">>] = PackageOf(i))
      /\ job[p].kind # "hand" =>
           Carries(p) /\ job[p].kind = "approve" /\ (Tasked(i) => task[i] = "completed")
  BY <1>1, <1>2, AtPlace DEF Fit, Linked
<1>4. PackageOf(i) # None /\ <<i, "package">> \in Items \X Names
  BY <1>3, PackageTyped DEF DeskInv, Names
<1>5. /\ Cover(p, <<i, "package">>) \/ (Repeated(<<i, "package">>, PackageOf(i)) /\ UNCHANGED store)
      /\ AfterPackage(p) /\ UNCHANGED <<broker, told, faults>>
  BY <1>2 DEF CoverPackage
<1>6. Keeps /\ <<i, "package">> \in covered' /\ task' = task
  BY <1>3, <1>4, <1>5, PassKeeps
<1>7. /\ job' \in [Desks -> Job \cup {NoJob}] /\ \A q \in Desks \ {p} : job'[q] = job[q]
      /\ Fit(p)'
  <2>1. CASE Ends(p)
    BY <2>1, EndsTyped DEF DeskInv, Fit
  <2>2. CASE job[p].kind # "hand" /\ Goes(p, "answer")
    <3>1. /\ job' \in [Desks -> Job \cup {NoJob}] /\ job'[p].pc = "answer"
          /\ job'[p].item = i /\ job'[p].kind = job[p].kind /\ job'[p].at = job[p].at
          /\ \A q \in Desks \ {p} : job'[q] = job[q]
      BY <2>2, <1>1, <1>2, GoesTyped DEF DeskInv, Places
    <3>2. Carries(p)'
      BY <2>2, <1>2, <1>3, <1>6, <3>1, CarriedStays
    <3> QED BY <3>1, <3>2 DEF Fit
  <2>3. CASE /\ job[p].kind # "hand" /\ Tasked(i)
             /\ \E to \in Targets :
                  job' = [job EXCEPT ![p].pc = "request", ![p].to = to]
    <3>1. PICK to \in Targets : job' = [job EXCEPT ![p].pc = "request", ![p].to = to]
      BY <2>3
    <3>2. job[p] \in Job /\ job \in [Desks -> Job \cup {NoJob}]
      BY <1>1, AtPlace, Held
    <3>3. job'[p] = [[job[p] EXCEPT !.pc = "request"] EXCEPT !.to = to]
      BY <3>1, <3>2
    <3>4. /\ job'[p] \in Job /\ job'[p].pc = "request" /\ job'[p].item = i
          /\ job'[p].kind = job[p].kind /\ job'[p].at = job[p].at /\ job'[p].to = to
      BY <1>2, <3>2, <3>3 DEF Job, Places
    <3>5. job' \in [Desks -> Job \cup {NoJob}] /\ \A q \in Desks \ {p} : job'[q] = job[q]
      BY <3>1, <3>2, <3>4
    <3>6. Carries(p)'
      BY <2>3, <1>2, <1>3, <1>6, <3>4, CarriedStays
    <3> QED BY <2>3, <1>3, <1>6, <3>4, <3>5, <3>6 DEF Fit
  <2> QED BY <1>2, <1>5, <2>1, <2>2, <2>3 DEF AfterPackage, Attention
<1> QED BY <1>3, <1>4, <1>5, <1>7, PassStep

LEMMA CoverRequestStep ==
  ASSUME DeskInv, NEW p \in Desks, CoverRequest(p)
  PROVE  DeskInv'
<1>1. job[p].pc = "request" /\ job[p].pc \in Places
  BY DEF CoverRequest, Places
<1>2. PICK i \in Items : i = job[p].item
  BY <1>1, AtPlace
<1>3. /\ Carries(p) /\ <<i, "package">> \in covered /\ task[i] = "completed"
      /\ job[p].to \in Targets /\ (lock = p => file[<<i, "request">>] = RequestOf(p))
  BY <1>1, <1>2, AtPlace DEF Fit, Linked
<1>4. RequestOf(p) # None /\ <<i, "request">> \in Items \X Names
  <2>1. RequestOf(p) \in Contents["request"] /\ "request" \in Names
    BY <1>3 DEF RequestOf, Request, Carries, Contents, Names
  <2> QED BY <2>1, DeskAssumption
<1>5. /\ Cover(p, <<i, "request">>) \/ (Repeated(<<i, "request">>, RequestOf(p)) /\ UNCHANGED store)
      /\ Goes(p, "queue") /\ UNCHANGED <<broker, told, faults>>
  BY <1>2 DEF CoverRequest
<1>6. /\ Keeps /\ <<i, "request">> \in covered' /\ file'[<<i, "request">>] = RequestOf(p)
      /\ task' = task
  BY <1>3, <1>4, <1>5, PassKeeps
<1>7. /\ job' \in [Desks -> Job \cup {NoJob}] /\ job'[p].pc = "queue" /\ job'[p].item = i
      /\ job'[p].kind = job[p].kind /\ job'[p].at = job[p].at /\ job'[p].to = job[p].to
      /\ \A q \in Desks \ {p} : job'[q] = job[q]
  BY <1>1, <1>2, <1>5, GoesTyped DEF DeskInv, Places
<1>8. Fit(p)'
  <2>1. Carries(p)'
    BY <1>2, <1>3, <1>6, <1>7, CarriedStays
  <2>2. RequestOf(p)' = RequestOf(p)
    BY <1>7 DEF RequestOf
  <2>3. <<i, "package">> \in covered'
    BY <1>3, <1>6 DEF Keeps
  <2> QED BY <1>3, <1>6, <1>7, <2>1, <2>2, <2>3 DEF Fit
<1> QED BY <1>3, <1>4, <1>5, <1>7, <1>8, PassStep

LEMMA CoverExecutionStep ==
  ASSUME DeskInv, NEW p \in Desks, CoverExecution(p)
  PROVE  DeskInv'
<1>1. job[p].pc = "execution" /\ job[p].pc \in Places
  BY DEF CoverExecution, Places
<1>2. PICK i \in Items : i = job[p].item
  BY <1>1, AtPlace
<1>3. <<i, "package">> \in covered /\ (lock = p => file[<<i, "execution">>] = ExecutionOf(i))
  BY <1>1, <1>2, AtPlace DEF Fit, Linked
<1>4. ExecutionOf(i) # None /\ <<i, "execution">> \in Items \X Names
  BY <1>3, CoveredThere DEF ExecutionOf, DeskInv, Names
<1>5. /\ Cover(p, <<i, "execution">>)
           \/ (Repeated(<<i, "execution">>, ExecutionOf(i)) /\ UNCHANGED store)
      /\ Ends(p) /\ UNCHANGED <<broker, told, faults>>
  BY <1>2 DEF CoverExecution
<1>6. /\ job' \in [Desks -> Job \cup {NoJob}] /\ job'[p] = NoJob
      /\ \A q \in Desks \ {p} : job'[q] = job[q]
  BY <1>5, EndsTyped DEF DeskInv
<1>7. Fit(p)'
  BY <1>6 DEF Fit
<1> QED BY <1>3, <1>4, <1>5, <1>6, <1>7, PassStep

LEMMA ReceiveStep ==
  ASSUME DeskInv, NEW i \in Items, Receive(i)
  PROVE  DeskInv'
<1>1. Cover(i, <<i, "review">>) /\ UNCHANGED <<broker, job, told, faults>>
  BY DEF Receive
<1>2. file[<<i, "review">>] # None /\ <<i, "review">> \in Items \X Names
  BY <1>1 DEF DeskInv, Rests, Visible, Cover, Names
<1>3. Keeps
  BY <1>1, CoverKeeps DEF broker
<1>4. \A q \in Desks : Fit(q)'
  BY <1>1, <1>3, FitStays
<1>5. job' \in [Desks -> Job \cup {NoJob}]
  BY <1>1, Held
<1> QED BY <1>1, <1>2, <1>4, <1>5, CoverStep

-----------------------------------------------------------------------------
(* The invariant *)

LEMMA DeskInit == Init => DeskInv
<1> SUFFICES ASSUME Init
             PROVE  DeskInv
  OBVIOUS
<1>1. None \notin Desks /\ None \notin Items
  BY DeskAssumption
<1>2. \A f \in Items \X Names : file[f] = None
  BY DEF Init
<1>3. DeskTypeOK
  BY <1>2, DeskAssumption DEF Init, DeskTypeOK
<1>4. DecisionStands
  BY DEF Init, DecisionStands
<1>5. ChainOfProof
  BY <1>2 DEF Init, ChainOfProof, Names
<1>6. \A i \in Items : Rests(i)
  BY <1>1, <1>2 DEF Init, Rests, Decision, Names
<1>7. \A p \in Desks : Fit(p) /\ Linked(p)
  BY <1>1 DEF Init, Fit, Linked
<1> QED BY <1>3, <1>4, <1>5, <1>6, <1>7 DEF DeskInv

LEMMA DeskStep == DeskInv /\ [Next]_vars => DeskInv'
<1> SUFFICES ASSUME DeskInv, [Next]_vars
             PROVE  DeskInv'
  OBVIOUS
<1>1. CASE UNCHANGED vars
  <2>1. UNCHANGED <<file, covered, lock, task, admitted, job, told, faults>>
    BY <1>1 DEF vars, store, broker
  <2>2. Keeps
    BY <2>1 DEF Keeps
  <2>3. \A q \in Desks : Fit(q)'
    BY <2>1, <2>2, FitStays
  <2> QED BY <2>1, <2>2, <2>3, Held, StoreStep
<1>2. ASSUME NEW i \in Items, Producing(i)
      PROVE  DeskInv'
  BY <1>2, PresentStep, ReceiveStep, TaskStep DEF Producing
<1>3. ASSUME NEW p \in Desks, Reviewing(p)
      PROVE  DeskInv'
  BY <1>3, LinkActionStep, CoverActionStep, ActionRefusedStep, RecheckStep DEF Reviewing
<1>4. ASSUME NEW p \in Desks, Finalizing(p)
      PROVE  DeskInv'
  BY <1>4, ReconcileStep, BundleStep, LinkPackageStep, CoverPackageStep, LinkRequestStep,
     CoverRequestStep, RequestRefusedStep, QueueStep, AnswerStep DEF Finalizing
<1>5. ASSUME NEW p \in Desks, Adapting(p)
      PROVE  DeskInv'
  BY <1>5, VerifyStep, LinkExecutionStep, CoverExecutionStep DEF Adapting
<1>6. ASSUME NEW p \in Desks, Trouble(p)
      PROVE  DeskInv'
  BY <1>6, TroubleStep
<1>7. ASSUME NEW p \in Desks, NEW i \in Items, Calls(p, i)
      PROVE  DeskInv'
  BY <1>7, DecideStep, RepeatStep, HandStep DEF Calls
<1>8. ASSUME NEW who \in Desks \cup Items, Killed(who)
      PROVE  DeskInv'
  BY <1>8, KilledStep
<1> QED BY <1>1, <1>2, <1>3, <1>4, <1>5, <1>6, <1>7, <1>8 DEF Next

\* DeskInv holds in every reachable state.
THEOREM DeskInvariant == Spec => []DeskInv
BY DeskInit, DeskStep, PTL DEF Spec

\* Every file holds what its name says, and every desk is at a place of its code.
THEOREM DeskTyped == Spec => []DeskTypeOK
<1>1. DeskInv => DeskTypeOK
  BY DEF DeskInv
<1> QED BY <1>1, DeskInvariant, PTL

\* What an operator was told is recorded stays recorded, for any number of
\* desks, items and kills: the answer of review_api.py is never taken back.
THEOREM ToldIsKept == Spec => []DecisionStands
<1>1. DeskInv => DecisionStands
  BY DEF DeskInv
<1> QED BY <1>1, DeskInvariant, PTL

\* No release file, publisher request or admission exists without the receipted
\* approval that it follows from, however the desks' steps interleave.
THEOREM ReleasedIsApproved == Spec => []ChainOfProof
<1>1. DeskInv => ChainOfProof
  BY DEF DeskInv
<1> QED BY <1>1, DeskInvariant, PTL

-----------------------------------------------------------------------------
(* Desks that do the same thing never clash *)

\* What a desk is about to package, execute or admit is what is there, if
\* anything is: only a decision and a request, with their own kind, time and
\* target, can be refused.
Agrees(p) ==
  LET i == job[p].item pc == job[p].pc IN
  /\ pc = "package" => file[<<i, "package">>] \in {None, PackageOf(i)}
  /\ pc = "execution" => file[<<i, "execution">>] \in {None, ExecutionOf(i)}
  /\ pc = "queue" => admitted[i] \in {None, RequestOf(p)}

\* What was executed is the package.
Executed(i) ==
  file[<<i, "execution">>] # None => file[<<i, "execution">>] = file[<<i, "package">>]

LEMMA ExecutedKept ==
  ASSUME DeskInv, NEW i \in Items, Executed(i), Keeps,
         file'[<<i, "execution">>] = file[<<i, "execution">>]
  PROVE  Executed(i)'
<1>1. file[<<i, "execution">>] # None => file[<<i, "package">>] # None
  BY DEF DeskInv, ChainOfProof, DeskTypeOK
<1>2. <<i, "package">> \in Items \X Names
  BY DEF Names
<1> QED BY <1>1, <1>2 DEF Executed, Keeps

LEMMA ExecutedStep ==
  ASSUME DeskInv, [Next]_vars, \A i \in Items : Executed(i)
  PROVE  \A i \in Items : Executed(i)'
<1> SUFFICES ASSUME NEW i \in Items
             PROVE  Executed(i)'
  OBVIOUS
<1>a. <<i, "execution">> \in Items \X Names /\ <<i, "package">> \in Items \X Names
  BY DEF Names
<1>b. DeskTypeOK
  BY DEF DeskInv
<1>1. ASSUME UNCHANGED file PROVE Executed(i)'
  BY <1>1 DEF Executed
<1>2. ASSUME NEW who, NEW j \in Items, NEW n \in Names \ {"execution"}, NEW bytes,
             Link(who, <<j, n>>, bytes), task' = task
      PROVE  Executed(i)'
  <2>1. <<j, n>> \in Items \X Names /\ <<j, n>> # <<i, "execution">>
    OBVIOUS
  <2>2. Keeps /\ file'[<<i, "execution">>] = file[<<i, "execution">>]
    BY <1>a, <1>b, <1>2, <2>1, LinkKeeps
  <2> QED BY <2>2, ExecutedKept
<1>3. ASSUME NEW p \in Desks, LinkExecution(p) PROVE Executed(i)'
  <2>1. job[p].pc = "execution" /\ job[p].pc \in Places
    BY <1>3 DEF LinkExecution, Places
  <2>2. PICK j \in Items : j = job[p].item
    BY <2>1, AtPlace
  <2>3. <<j, "package">> \in covered
    BY <2>1, <2>2, AtPlace DEF Fit
  <2>4. Link(p, <<j, "execution">>, ExecutionOf(j)) /\ task' = task
    BY <1>3, <2>2 DEF LinkExecution, broker
  <2>5. <<j, "execution">> \in Items \X Names /\ <<j, "package">> \in Items \X Names
    BY DEF Names
  <2>6. Keeps /\ file'[<<j, "execution">>] = ExecutionOf(j)
    BY <1>b, <2>4, <2>5, LinkKeeps
  <2>7. CASE i = j
    <3>1. file'[<<j, "package">>] = file[<<j, "package">>]
      BY <1>b, <2>3, <2>5, <2>6 DEF DeskTypeOK, Keeps
    <3> QED BY <2>6, <2>7, <3>1 DEF Executed, ExecutionOf
  <2>8. CASE i # j
    <3>1. file'[<<i, "execution">>] = file[<<i, "execution">>]
      BY <1>a, <1>b, <2>4, <2>5, <2>8, LinkKeeps
    <3> QED BY <2>6, <3>1, ExecutedKept
  <2> QED BY <2>7, <2>8
<1>4. ASSUME NEW j \in Items, Producing(j) PROVE Executed(i)'
  BY <1>1, <1>2, <1>4
     DEF Producing, Present, Receive, Submit, TaskFails, Cover, store, broker, Names
<1>5. ASSUME NEW p \in Desks, LinkAction(p) \/ LinkPackage(p) \/ LinkRequest(p)
      PROVE  Executed(i)'
  <2>1. job[p].pc \in Places
    BY <1>5 DEF LinkAction, LinkPackage, LinkRequest, Places
  <2>2. job[p].item \in Items
    BY <2>1, AtPlace
  <2> QED BY <1>2, <1>5, <2>2 DEF LinkAction, LinkPackage, LinkRequest, broker, Names
<1>6. ASSUME NEW p \in Desks, Reviewing(p) PROVE Executed(i)'
  BY <1>1, <1>5, <1>6 DEF Reviewing, CoverAction, ActionRefused, Recheck, Cover, store
<1>7. ASSUME NEW p \in Desks, Finalizing(p) PROVE Executed(i)'
  BY <1>1, <1>5, <1>7
     DEF Finalizing, Reconcile, Bundle, CoverPackage, CoverRequest, RequestRefused, Queue,
         Answer, Cover, store
<1>8. ASSUME NEW p \in Desks, Adapting(p) PROVE Executed(i)'
  BY <1>1, <1>3, <1>8 DEF Adapting, Verify, CoverExecution, Cover, store
<1>9. ASSUME NEW p \in Desks, Trouble(p) PROVE Executed(i)'
  BY <1>1, <1>9 DEF Trouble, store
<1>10. ASSUME NEW p \in Desks, NEW j \in Items, Calls(p, j) PROVE Executed(i)'
  BY <1>1, <1>10 DEF Calls, Decide, Repeat, PackageByHand, Adapt, store
<1>11. ASSUME NEW who, Killed(who) PROVE Executed(i)'
  BY <1>1, <1>11 DEF Killed
<1>12. CASE UNCHANGED vars
  BY <1>1, <1>12 DEF vars, store
<1> QED BY <1>4, <1>6, <1>7, <1>8, <1>9, <1>10, <1>11, <1>12 DEF Next

LEMMA AgreesAll ==
  ASSUME DeskInv, \A i \in Items : Executed(i), NEW p \in Desks, job[p].pc \in Places
  PROVE  Agrees(p)
<1>1. PICK i \in Items : i = job[p].item /\ Fit(p) /\ job[p] # NoJob
  BY AtPlace
<1>2. file[<<i, "package">>] \in {None, PackageOf(i)}
  BY DEF DeskInv, ChainOfProof
<1>3. file[<<i, "execution">>] \in {None, ExecutionOf(i)}
  BY DEF Executed, ExecutionOf
<1>4. job[p].pc = "queue" => admitted[i] \in {None, RequestOf(p)}
  BY <1>1 DEF Fit, DeskInv, ChainOfProof
<1> QED BY <1>1, <1>2, <1>3, <1>4 DEF Agrees

\* However many desks, command lines and repeats finalize an approval, none is
\* refused by what another one wrote before it or left when it was killed
\* (release_core.py create_release_package, release_adapter.py, and
\* TaskBroker.admit under one origin key).
THEOREM DesksNeverClash ==
  Spec => [](\A p \in Desks : job[p].pc \in Places => Agrees(p))
<1>1. Init => \A i \in Items : Executed(i)
  BY DEF Init, Executed, Names
<1>2. DeskInv /\ (\A i \in Items : Executed(i)) /\ [Next]_vars
        => (\A i \in Items : Executed(i))'
  BY ExecutedStep
<1>3. DeskInv /\ (\A i \in Items : Executed(i))
        => \A p \in Desks : job[p].pc \in Places => Agrees(p)
  BY AgreesAll
<1> QED BY <1>1, <1>2, <1>3, DeskInvariant, PTL DEF Spec

-----------------------------------------------------------------------------
(* The refinement *)

\* A step that covers nothing, completes nothing and admits nothing stutters.
LEMMA Stutters ==
  ASSUME DeskInv, Keeps, covered' = covered, admitted' = admitted,
         \A i \in Items : task'[i] = "completed" => task[i] = "completed"
  PROVE  UNCHANGED Abstract!approvalVars
<1>1. \A i \in Items : /\ Decided(i)' = Decided(i)
                       /\ Decided(i) => Decision(i)' = Decision(i)
  BY StandsKept DEF DeskInv, Decided
<1>2. [i \in Items |-> IF Decided(i) THEN Decision(i).kind ELSE None]'
        = [i \in Items |-> IF Decided(i) THEN Decision(i).kind ELSE None]
  BY <1>1
<1>3. \A i \in Items : (task'[i] = "completed") = (task[i] = "completed")
  BY DEF Keeps
<1>4. {i \in Items : task[i] = "completed"}' = {i \in Items : task[i] = "completed"}
  BY <1>3
<1> QED BY <1>2, <1>4 DEF Abstract!approvalVars

\* A receipt decides, releases, or says nothing to Approval.
LEMMA CoverMoves ==
  ASSUME DeskInv, NEW who, NEW f \in Items \X Names, file[f] # None,
         Cover(who, f), UNCHANGED broker
  PROVE  Abstract!Move \/ UNCHANGED Abstract!approvalVars
<1>1. PICK i \in Items, n \in Names : f = <<i, n>>
  OBVIOUS
<1>2. /\ file' = file /\ covered' = covered \cup {<<i, n>>} /\ task' = task
      /\ admitted' = admitted
  BY <1>1 DEF Cover, broker
<1>3. CASE f \in covered
  <2>1. covered' = covered /\ Keeps
    BY <1>1, <1>2, <1>3 DEF Keeps
  <2> QED BY <2>1, <1>2, Stutters
<1>4. CASE n = "action" /\ f \notin covered
  <2>1. Decision(i) \in Action
    BY <1>1, <1>4, FileTypes DEF DeskInv, Decision
  <2>2. ~Decided(i) /\ Decided(i)' /\ Decision(i)' = Decision(i) /\ Decision(i).kind \in Kinds
    BY <1>1, <1>2, <1>4, <2>1 DEF Decided, Decision, Action
  <2>3. \A j \in Items : j # i => (Decided(j)' = Decided(j)) /\ Decision(j)' = Decision(j)
    BY <1>2 DEF Decided, Decision
  <2>4. [j \in Items |-> IF Decided(j) THEN Decision(j).kind ELSE None]'
          = [[j \in Items |-> IF Decided(j) THEN Decision(j).kind ELSE None]
              EXCEPT ![i] = Decision(i).kind]
    BY <2>2, <2>3
  <2>5. {j \in Items : <<j, "package">> \in covered}' = {j \in Items : <<j, "package">> \in covered}
    BY <1>2, <1>4
  <2>6. Abstract!Decide(i)
    BY <1>2, <2>2, <2>4, <2>5 DEF Abstract!Decide
  <2> QED BY <2>6 DEF Abstract!Move
<1>5. CASE n # "action"
  <2>1. \A j \in Items : (Decided(j)' = Decided(j)) /\ Decision(j)' = Decision(j)
    BY <1>2, <1>5 DEF Decided, Decision
  <2>2. [j \in Items |-> IF Decided(j) THEN Decision(j).kind ELSE None]'
          = [j \in Items |-> IF Decided(j) THEN Decision(j).kind ELSE None]
    BY <2>1
  <2>3. CASE n = "package"
    <3>1. Decided(i) /\ Decision(i).kind = "approve"
      BY <1>1, <2>3 DEF DeskInv, ChainOfProof, Releasable, Approved
    <3>2. {j \in Items : <<j, "package">> \in covered}'
            = {j \in Items : <<j, "package">> \in covered} \cup {i}
      BY <1>2, <2>3
    <3>3. Abstract!Release(i)
      BY <1>2, <2>2, <3>1, <3>2 DEF Abstract!Release
    <3> QED BY <3>3 DEF Abstract!Move
  <2>4. CASE n # "package"
    <3>1. {j \in Items : <<j, "package">> \in covered}' = {j \in Items : <<j, "package">> \in covered}
      BY <1>2, <2>4
    <3> QED BY <1>2, <2>2, <3>1 DEF Abstract!approvalVars
  <2> QED BY <2>3, <2>4
<1> QED BY <1>3, <1>4, <1>5

LEMMA PassMoves ==
  ASSUME DeskInv, NEW p \in Desks, NEW f \in Items \X Names, NEW bytes, bytes # None,
         lock = p => file[f] = bytes,
         Cover(p, f) \/ (Repeated(f, bytes) /\ UNCHANGED store), UNCHANGED broker
  PROVE  Abstract!Move \/ UNCHANGED Abstract!approvalVars
<1>1. CASE Cover(p, f)
  <2>1. file[f] # None
    BY <1>1 DEF Cover
  <2> QED BY <1>1, <2>1, CoverMoves
<1>2. CASE Repeated(f, bytes) /\ UNCHANGED store
  BY <1>2, PassKeeps, Stutters DEF store, broker
<1> QED BY <1>1, <1>2

LEMMA CoveringMoves ==
  ASSUME DeskInv, NEW p \in Desks,
         CoverAction(p) \/ CoverPackage(p) \/ CoverRequest(p) \/ CoverExecution(p)
  PROVE  Abstract!Move \/ UNCHANGED Abstract!approvalVars
<1>1. PICK i \in Items : i = job[p].item
  BY AtPlace DEF CoverAction, CoverPackage, CoverRequest, CoverExecution, Places
<1>2. Fit(p) /\ Linked(p) /\ DeskTypeOK /\ (job[p].pc \in Places => job[p] # NoJob)
  BY JobTypes DEF DeskInv
<1>3. UNCHANGED broker
  BY DEF CoverAction, CoverPackage, CoverRequest, CoverExecution
<1>4. <<i, "action">> \in Items \X Names /\ <<i, "package">> \in Items \X Names
      /\ <<i, "request">> \in Items \X Names /\ <<i, "execution">> \in Items \X Names
  BY DEF Names
<1>5. CASE CoverAction(p)
  <2>1. RecordOf(p) \in Action /\ (lock = p => file[<<i, "action">>] = RecordOf(p))
    BY <1>1, <1>2, <1>5 DEF CoverAction, Fit, Linked, RecordOf, Action, Places
  <2>2. RecordOf(p) # None
    BY <2>1, DeskAssumption DEF Names, Contents
  <2> QED BY <1>1, <1>3, <1>4, <1>5, <2>1, <2>2, PassMoves DEF CoverAction
<1>6. CASE CoverPackage(p)
  <2>1. Releasable(i) /\ (lock = p => file[<<i, "package">>] = PackageOf(i))
    BY <1>1, <1>2, <1>6 DEF CoverPackage, Fit, Linked, Places
  <2>2. PackageOf(i) # None
    BY <1>2, <2>1, PackageTyped
  <2> QED BY <1>1, <1>3, <1>4, <1>6, <2>1, <2>2, PassMoves DEF CoverPackage
<1>7. CASE CoverRequest(p)
  <2>1. RequestOf(p) \in Request /\ (lock = p => file[<<i, "request">>] = RequestOf(p))
    BY <1>1, <1>2, <1>7 DEF CoverRequest, Fit, Linked, Carries, RequestOf, Request, Places
  <2>2. RequestOf(p) # None
    BY <2>1, DeskAssumption DEF Names, Contents
  <2> QED BY <1>1, <1>3, <1>4, <1>7, <2>1, <2>2, PassMoves DEF CoverRequest
<1>8. CASE CoverExecution(p)
  <2>1. <<i, "package">> \in covered /\ (lock = p => file[<<i, "execution">>] = ExecutionOf(i))
    BY <1>1, <1>2, <1>8 DEF CoverExecution, Fit, Linked, Places
  <2>2. ExecutionOf(i) # None
    BY <1>2, <2>1, CoveredThere DEF ExecutionOf
  <2> QED BY <1>1, <1>3, <1>4, <1>8, <2>1, <2>2, PassMoves DEF CoverExecution
<1> QED BY <1>5, <1>6, <1>7, <1>8

LEMMA ReceiveMoves ==
  ASSUME DeskInv, NEW i \in Items, Receive(i)
  PROVE  Abstract!Move \/ UNCHANGED Abstract!approvalVars
<1>1. Cover(i, <<i, "review">>) /\ UNCHANGED broker
  BY DEF Receive
<1>2. file[<<i, "review">>] # None /\ <<i, "review">> \in Items \X Names
  BY <1>1 DEF DeskInv, Rests, Visible, Cover, Names
<1> QED BY <1>1, <1>2, CoverMoves

\* A linked file has no receipt yet.
LEMMA LinkStutters ==
  ASSUME DeskInv, NEW who, NEW i \in Items, NEW n \in Names, NEW bytes,
         Link(who, <<i, n>>, bytes), UNCHANGED broker
  PROVE  UNCHANGED Abstract!approvalVars
<1>1. task' = task /\ admitted' = admitted /\ covered' = covered
  BY DEF Link, broker
<1>2. Keeps
  BY <1>1, LinkKeeps DEF DeskInv
<1> QED BY <1>1, <1>2, Stutters

LEMMA LinkingStutters ==
  ASSUME DeskInv, NEW p \in Desks,
         LinkAction(p) \/ LinkPackage(p) \/ LinkRequest(p) \/ LinkExecution(p)
  PROVE  UNCHANGED Abstract!approvalVars
<1>1. job[p].item \in Items
  BY AtPlace DEF LinkAction, LinkPackage, LinkRequest, LinkExecution, Places
<1>2. UNCHANGED broker
  BY DEF LinkAction, LinkPackage, LinkRequest, LinkExecution
<1>3. \E n \in Names : \E bytes : Link(p, <<job[p].item, n>>, bytes)
  BY DEF LinkAction, LinkPackage, LinkRequest, LinkExecution, Names
<1> QED BY <1>1, <1>2, <1>3, LinkStutters

LEMMA ReconcileMoves ==
  ASSUME DeskInv, NEW p \in Desks, Reconcile(p)
  PROVE  Abstract!Move \/ UNCHANGED Abstract!approvalVars
<1>1. PICK i \in Items : i = job[p].item
  BY AtPlace DEF Reconcile, Places
<1>2. file' = file /\ covered' = covered /\ admitted' = admitted
  BY DEF Reconcile, store
<1>3. CASE task' = task
  <2>1. Keeps
    BY <1>2, <1>3 DEF Keeps
  <2> QED BY <1>2, <1>3, <2>1, Stutters
<1>4. CASE task' = [task EXCEPT ![i] = "completed"]
  <2>1. Decided(i) /\ Decision(i).kind = "approve"
    <3>1. Carries(p) /\ job[p].kind = "approve"
      BY AtPlace DEF Reconcile, Places, Fit
    <3> QED BY <1>1, <3>1 DEF Carries, RecordOf
  <2>2. [j \in Items |-> IF Decided(j) THEN Decision(j).kind ELSE None]'
          = [j \in Items |-> IF Decided(j) THEN Decision(j).kind ELSE None]
    BY <1>2 DEF Decided, Decision
  <2>3. {j \in Items : task[j] = "completed"}' = {j \in Items : task[j] = "completed"} \cup {i}
    BY <1>4, Held
  <2>4. Abstract!Close(i)
    BY <1>2, <2>1, <2>2, <2>3 DEF Abstract!Close
  <2> QED BY <2>4 DEF Abstract!Move
<1> QED BY <1>1, <1>3, <1>4 DEF Reconcile

LEMMA QueueMoves ==
  ASSUME DeskInv, NEW p \in Desks, Queue(p)
  PROVE  Abstract!Move
<1>1. PICK i \in Items : i = job[p].item
  BY AtPlace DEF Queue, Places
<1>2. file' = file /\ covered' = covered /\ task' = task
  BY DEF Queue, store
<1>3. task[i] = "completed" /\ <<i, "package">> \in covered /\ RequestOf(p) \in Request
  BY <1>1, AtPlace DEF Queue, Places, Fit, Carries, RequestOf, Request
<1>4. RequestOf(p) # None
  BY <1>3, DeskAssumption DEF Names, Contents
<1>5. {j \in Items : admitted[j] # None}' = {j \in Items : admitted[j] # None} \cup {i}
  BY <1>1, <1>4, Held DEF Queue
<1>6. [j \in Items |-> IF Decided(j) THEN Decision(j).kind ELSE None]'
        = [j \in Items |-> IF Decided(j) THEN Decision(j).kind ELSE None]
  BY <1>2 DEF Decided, Decision
<1>7. Abstract!Queue(i)
  BY <1>2, <1>3, <1>5, <1>6 DEF Abstract!Queue
<1> QED BY <1>7 DEF Abstract!Move

LEMMA QuietStutters ==
  ASSUME DeskInv, file' = file, covered' = covered, admitted' = admitted, task' = task
  PROVE  UNCHANGED Abstract!approvalVars
<1>1. Keeps
  BY DEF Keeps
<1> QED BY <1>1, Stutters

LEMMA TaskStutters ==
  ASSUME DeskInv, NEW i \in Items, Submit(i) \/ TaskFails(i)
  PROVE  UNCHANGED Abstract!approvalVars
<1>1. PICK st \in {"awaiting_review", "failed"} : task' = [task EXCEPT ![i] = st]
  BY DEF Submit, TaskFails
<1>2. task[i] = "running" /\ file' = file /\ covered' = covered /\ admitted' = admitted
  BY DEF Submit, TaskFails, store
<1>3. Keeps /\ \A j \in Items : task'[j] = "completed" => task[j] = "completed"
  BY <1>1, <1>2, Held DEF Keeps
<1> QED BY <1>2, <1>3, Stutters

\* Concurrent desks, command lines, kills and errors do to decisions, tasks,
\* packages and publisher tasks what Approval allows, and nothing else.
THEOREM DeskImplementsApproval == Spec => ImplementsApproval
<1>1. Init => Abstract!Start
  BY DEF Init, Abstract!Start, Decided
<1>2. DeskInv /\ [Next]_vars => [Abstract!Move]_(Abstract!approvalVars)
  <2> SUFFICES ASSUME DeskInv, [Next]_vars
               PROVE  Abstract!Move \/ UNCHANGED Abstract!approvalVars
    OBVIOUS
  <2>1. CASE UNCHANGED vars
    <3>1. file' = file /\ covered' = covered /\ admitted' = admitted /\ task' = task
      BY <2>1 DEF vars, store, broker
    <3> QED BY <3>1, QuietStutters
  <2>2. ASSUME NEW i \in Items, Producing(i)
        PROVE  Abstract!Move \/ UNCHANGED Abstract!approvalVars
    <3>1. CASE Present(i)
      BY <3>1, LinkStutters DEF Present, Names
    <3> QED BY <2>2, <3>1, TaskStutters, ReceiveMoves DEF Producing
  <2>3. ASSUME NEW p \in Desks, Reviewing(p) \/ Finalizing(p) \/ Adapting(p)
        PROVE  Abstract!Move \/ UNCHANGED Abstract!approvalVars
    <3>1. CASE LinkAction(p) \/ LinkPackage(p) \/ LinkRequest(p) \/ LinkExecution(p)
      BY <3>1, LinkingStutters
    <3>2. CASE CoverAction(p) \/ CoverPackage(p) \/ CoverRequest(p) \/ CoverExecution(p)
      BY <3>2, CoveringMoves
    <3>3. CASE ActionRefused(p) \/ Recheck(p) \/ Bundle(p) \/ RequestRefused(p) \/ Answer(p)
               \/ Verify(p)
      <4>1. file' = file /\ covered' = covered /\ admitted' = admitted /\ task' = task
        BY <3>3 DEF ActionRefused, Recheck, Bundle, RequestRefused, Answer, Verify, store, broker
      <4> QED BY <4>1, QuietStutters
    <3> QED BY <2>3, <3>1, <3>2, <3>3, ReconcileMoves, QueueMoves
            DEF Reviewing, Finalizing, Adapting
  <2>4. ASSUME NEW p \in Desks, Trouble(p)
        PROVE  Abstract!Move \/ UNCHANGED Abstract!approvalVars
    <3>1. file' = file /\ covered' = covered /\ admitted' = admitted /\ task' = task
      BY <2>4 DEF Trouble, store, broker
    <3> QED BY <3>1, QuietStutters
  <2>5. ASSUME NEW p \in Desks, NEW i \in Items, Calls(p, i)
        PROVE  Abstract!Move \/ UNCHANGED Abstract!approvalVars
    <3>1. file' = file /\ covered' = covered /\ admitted' = admitted /\ task' = task
      BY <2>5 DEF Calls, Decide, Repeat, PackageByHand, Adapt, store, broker
    <3> QED BY <3>1, QuietStutters
  <2>6. ASSUME NEW who \in Desks \cup Items, Killed(who)
        PROVE  Abstract!Move \/ UNCHANGED Abstract!approvalVars
    <3>1. file' = file /\ covered' = covered /\ admitted' = admitted /\ task' = task
      BY <2>6 DEF Killed, broker
    <3> QED BY <3>1, QuietStutters
  <2> QED BY <2>1, <2>2, <2>3, <2>4, <2>5, <2>6 DEF Next
<1> QED BY <1>1, <1>2, DeskInvariant, PTL DEF Spec, ImplementsApproval, Abstract!Life
=============================================================================
