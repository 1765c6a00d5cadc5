--------------------------- MODULE RunEngineProofs ---------------------------
(***************************************************************************)
(* What a run of any route promises, for any cap, outcomes, stamps and     *)
(* kills.                                                                  *)
(***************************************************************************)
EXTENDS RunEngine, FiniteSetTheorems, TLAPS

Keys == Nodes \cup {Coordinator}

ContentOf(ref) ==
  CASE ref[1] = "task" -> Stamps
    [] ref[1] = "result" -> Submission
    [] ref[1] = "review" -> Reviews
    [] OTHER -> Manifests

ItemsTyped(items) ==
  \A ref \in DOMAIN items : ref \in Refs /\ items[ref] \in ContentOf(ref)

\* Files and receipts hold what their names say.
RunTypeOK ==
  /\ DOMAIN file = Refs
  /\ \A ref \in Refs : file[ref] \in ContentOf(ref) \cup {Missing}
  /\ DOMAIN receipt = Keys
  /\ \A k \in Keys : ItemsTyped(receipt[k])
  /\ told \subseteq [node : Nodes, sub : Submission]

ReceiptsTrue ==
  \A k \in Keys : \A ref \in DOMAIN receipt[k] : file[ref] = receipt[k][ref]

Over(m) == {n \in Nodes : m.task[n] \notin {"absent", "queued"}}

Earned(m) ==
  /\ \A n \in Nodes : m.task[n] = "completed"
  /\ m.review = [product |-> m.result[Producer], verdict |-> m.result[Governance]]

Good(m) ==
  /\ m \in Manifests
  /\ \A n \in Nodes : m.task[n] \in {"absent", "queued"} <=> m.result[n] = Missing
  /\ \A n \in Nodes : m.task[n] # "absent" => m.stamp[n] # Missing
  /\ Cardinality(Over(m)) = m.revision - 1
  /\ Cardinality(Queued(m)) <= Cap
  /\ m.status = "awaiting_review" => Earned(m)

\* Node n may hand in sub to manifest m.
May(m, n, sub) ==
  /\ n \in Nodes /\ sub \in Submission
  /\ TakesResults(m) /\ m.task[n] = "queued"
  /\ Closes(n, sub) => Completed(Advanced(m, n, sub)) = Nodes
  /\ GoesOn(m, n, sub)

-----------------------------------------------------------------------------
(* The next manifest *)

LEMMA Constants ==
  /\ IsFiniteSet(Nodes) /\ Cardinality(Nodes) \in Nat
  /\ Producer \in Nodes /\ Governance \in Nodes
  /\ Cap \in Nat /\ Cap > 0
  /\ "absent" \notin Outcomes /\ "queued" \notin Outcomes
BY RouteAssumption, FS_CardinalityType

\* Freed slots are filled, never more.
LEMMA SlotsHold ==
  ASSUME NEW m, Cardinality(Queued(m)) <= Cap
  PROVE  /\ IsFiniteSet(Unblocked(m)) /\ IsFiniteSet(Queued(m))
         /\ Unblocked(m) \cap Queued(m) = {}
         /\ Cardinality(Unblocked(m) \cup Queued(m)) <= Cap
<1> DEFINE R == Ready(m)
           U == Unblocked(m)
           Q == Queued(m)
           rank == [n \in U |-> Cardinality(Ahead(m, n))]
           free == Cap - Cardinality(Q)
<1>1. IsFiniteSet(U) /\ IsFiniteSet(Q) /\ IsFiniteSet(R)
  BY Constants, FS_Subset DEF Unblocked, Queued, Ready
<1>2. Cardinality(Q) \in Nat /\ free \in Nat /\ Cap \in Nat
  BY <1>1, Constants, FS_CardinalityType
<1>3. U \cap Q = {}
  BY DEF Unblocked, Queued, Ready
<1>4. \A n \in U : IsFiniteSet(Ahead(m, n)) /\ Cardinality(Ahead(m, n)) \in Nat
  BY <1>1, FS_Subset, FS_CardinalityType DEF Ahead
<1>5. \A n \in U : rank[n] \in 0..(free - 1)
  <2> SUFFICES ASSUME NEW n \in U PROVE Cardinality(Ahead(m, n)) \in 0..(free - 1)
    OBVIOUS
  <2>1. Cardinality(Ahead(m, n)) + Cardinality(Q) < Cap
    BY DEF Unblocked
  <2> HIDE DEF Q
  <2> QED BY <2>1, <1>2, <1>4
<1>6. \A n, k \in U : n # k => rank[n] # rank[k]
  <2>1. ASSUME NEW n \in U, NEW k \in U, Place[n] < Place[k]
        PROVE  Cardinality(Ahead(m, n)) < Cardinality(Ahead(m, k))
    <3>1. n \in R /\ k \in R /\ R \subseteq Nodes
      BY DEF Unblocked, Ready
    <3>2. n \in Ahead(m, k) /\ n \notin Ahead(m, n)
      BY <3>1, <2>1, RouteAssumption DEF Ahead
    <3>3. Ahead(m, n) \subseteq Ahead(m, k)
      BY <3>1, <2>1, RouteAssumption, Constants DEF Ahead
    <3> QED BY <3>2, <3>3, <1>4, FS_Subset
  <2>2. ASSUME NEW n \in U, NEW k \in U, n # k
        PROVE  Place[n] < Place[k] \/ Place[k] < Place[n]
    BY <2>2, RouteAssumption, Constants DEF Unblocked, Ready
  <2> SUFFICES ASSUME NEW n \in U, NEW k \in U, n # k
               PROVE  Cardinality(Ahead(m, n)) # Cardinality(Ahead(m, k))
    OBVIOUS
  <2> QED BY <2>1, <2>2, <1>4
<1>7. rank \in Injection(U, 0..(free - 1))
  <2>1. rank \in [U -> 0..(free - 1)]
    BY <1>5
  <2> HIDE DEF rank, U, free
  <2> QED BY <2>1, <1>6 DEF Injection, IsInjective
<1>8. IsFiniteSet(0..(free - 1)) /\ Cardinality(0..(free - 1)) = free
  <2>1. \A f \in Nat : 0 \in Int /\ f - 1 \in Int
                       /\ (IF 0 > f - 1 THEN 0 ELSE (f - 1) - 0 + 1) = f
    OBVIOUS
  <2> HIDE DEF free
  <2> QED BY <2>1, <1>2, FS_Interval
<1>9. Cardinality(U) <= free
  <2> HIDE DEF rank, U, free
  <2> QED BY <1>7, <1>8, FS_Injection
<1>10. Cardinality(U \cup Q) = Cardinality(U) + Cardinality(Q)
  <2>1. Cardinality(U \cap Q) = 0
    BY <1>3, FS_EmptySet
  <2>2. Cardinality(U \cup Q) = Cardinality(U) + Cardinality(Q) - Cardinality(U \cap Q)
    <3> HIDE DEF U, Q
    <3> QED BY <1>1, FS_Union
  <2>3. Cardinality(U) \in Nat
    BY <1>1, FS_CardinalityType
  <2> HIDE DEF U, Q
  <2> QED BY <2>1, <2>2, <2>3, <1>2
<1>11. Cardinality(U) \in Nat
  BY <1>1, FS_CardinalityType
<1>12. Cardinality(U \cup Q) <= Cap
  <2> HIDE DEF U, Q
  <2> QED BY <1>2, <1>9, <1>10, <1>11
<1> QED BY <1>1, <1>3, <1>12

LEMMA Fields ==
  ASSUME NEW m \in Manifests, NEW n \in Nodes, NEW sub \in Submission
  PROVE  LET new == NewTasks(m, n, sub)  a == Advanced(m, n, sub) IN
           /\ a = [revision |-> m.revision + 1, status |-> Status(n, sub),
                   task |-> a.task, stamp |-> a.stamp, result |-> a.result,
                   review |-> IF Closes(n, sub) THEN Review(m, sub) ELSE m.review]
           /\ a.task = [k \in Nodes |-> IF k \in new THEN "queued"
                                       ELSE IF k = n THEN sub.outcome ELSE m.task[k]]
           /\ a.stamp = [k \in Nodes |-> IF k \in new THEN sub.at ELSE m.stamp[k]]
           /\ a.result = [k \in Nodes |-> IF k = n THEN sub ELSE m.result[k]]
<1> DEFINE e == Entered(m, n, sub)
           new == NewTasks(m, n, sub)
<1>1. /\ e.task = [k \in Nodes |-> IF k = n THEN sub.outcome ELSE m.task[k]]
      /\ e.result = [k \in Nodes |-> IF k = n THEN sub ELSE m.result[k]]
      /\ e = [m EXCEPT !.revision = @ + 1, !.task = e.task, !.result = e.result]
  BY DEF Entered, Manifests
<1> HIDE DEF e, new
<1>2. WithTasks(e, new, sub.at) =
        [e EXCEPT !.task = [k \in Nodes |-> IF k \in new THEN "queued" ELSE e.task[k]],
                  !.stamp = [k \in Nodes |-> IF k \in new THEN sub.at ELSE e.stamp[k]]]
  BY DEF WithTasks
<1>3. Advanced(m, n, sub) =
        [WithTasks(e, new, sub.at) EXCEPT
           !.status = Status(n, sub),
           !.review = IF Closes(n, sub) THEN Review(m, sub) ELSE @]
  BY DEF Advanced, e, new
<1> DEFINE et == e.task
           er == e.result
<1> HIDE DEF et, er
<1>4. e = [revision |-> m.revision + 1, status |-> m.status, task |-> et,
           stamp |-> m.stamp, result |-> er, review |-> m.review]
  BY <1>1 DEF Manifests, et, er
<1> DEFINE w == WithTasks(e, new, sub.at)
           task == [k \in Nodes |-> IF k \in new THEN "queued" ELSE e.task[k]]
           stamp == [k \in Nodes |-> IF k \in new THEN sub.at ELSE m.stamp[k]]
           review == IF Closes(n, sub) THEN Review(m, sub) ELSE m.review
<1> HIDE DEF w, task, stamp, review
<1>5. w = [revision |-> m.revision + 1, status |-> m.status, task |-> task,
           stamp |-> stamp, result |-> er, review |-> m.review]
  <2>1. e.stamp = m.stamp
    BY <1>4
  <2>2. w = [e EXCEPT !.task = task, !.stamp = stamp]
    BY <1>2, <2>1 DEF w, task, stamp
  <2> QED BY <1>4, <2>2
<1>6. Advanced(m, n, sub) =
        [revision |-> m.revision + 1, status |-> Status(n, sub), task |-> task,
         stamp |-> stamp, result |-> er, review |-> review]
  <2>1. w.review = m.review
    BY <1>5
  <2>2. Advanced(m, n, sub) = [w EXCEPT !.status = Status(n, sub), !.review = review]
    BY <1>3, <2>1 DEF w, review
  <2> QED BY <1>5, <2>2
<1>7. task = [k \in Nodes |-> IF k \in new THEN "queued"
                            ELSE IF k = n THEN sub.outcome ELSE m.task[k]]
  BY <1>1 DEF task
<1> QED BY <1>1, <1>6, <1>7 DEF stamp, review, new, er

LEMMA NextTasks ==
  ASSUME NEW m \in Manifests, NEW n \in Nodes, NEW sub \in Submission
  PROVE  /\ \A k \in Nodes : Advanced(m, n, sub).task[k] =
             IF k \in NewTasks(m, n, sub) THEN "queued"
             ELSE IF k = n THEN sub.outcome ELSE m.task[k]
         /\ \A k \in Nodes : Advanced(m, n, sub).stamp[k] =
             IF k \in NewTasks(m, n, sub) THEN sub.at ELSE m.stamp[k]
         /\ \A k \in Nodes : Advanced(m, n, sub).result[k] =
             IF k = n THEN sub ELSE m.result[k]
         /\ Advanced(m, n, sub).revision = m.revision + 1
         /\ Advanced(m, n, sub).status = Status(n, sub)
         /\ Advanced(m, n, sub).review = IF Closes(n, sub) THEN Review(m, sub) ELSE m.review
<1> DEFINE new == NewTasks(m, n, sub)
           a == Advanced(m, n, sub)
<1>1. /\ a = [revision |-> m.revision + 1, status |-> Status(n, sub),
              task |-> a.task, stamp |-> a.stamp, result |-> a.result,
              review |-> IF Closes(n, sub) THEN Review(m, sub) ELSE m.review]
      /\ a.task = [k \in Nodes |-> IF k \in new THEN "queued"
                                  ELSE IF k = n THEN sub.outcome ELSE m.task[k]]
      /\ a.stamp = [k \in Nodes |-> IF k \in new THEN sub.at ELSE m.stamp[k]]
      /\ a.result = [k \in Nodes |-> IF k = n THEN sub ELSE m.result[k]]
  BY Fields
<1> HIDE DEF new, a
<1> QED BY <1>1 DEF new, a

LEMMA NewAreReady ==
  ASSUME NEW m \in Manifests, NEW n \in Nodes, NEW sub \in Submission, m.task[n] = "queued"
  PROVE  /\ NewTasks(m, n, sub) \subseteq {k \in Nodes \ {n} : m.task[k] = "absent"}
         /\ NewTasks(m, n, sub) # {} => sub.outcome = "completed"
         /\ \A k \in NewTasks(m, n, sub) :
              Deps[k] \subseteq Completed(Advanced(m, n, sub))
<1> DEFINE e == Entered(m, n, sub)
           new == NewTasks(m, n, sub)
           a == Advanced(m, n, sub)
<1>1. e.task = [k \in Nodes |-> IF k = n THEN sub.outcome ELSE m.task[k]]
  BY DEF Entered, Manifests
<1>2. new \subseteq Ready(e) /\ (new # {} => sub.outcome = "completed")
  BY DEF NewTasks, Unblocked
<1>3. sub.outcome # "absent" /\ "absent" # "queued"
  BY Constants DEF Submission
<1>4. new \subseteq {k \in Nodes \ {n} : m.task[k] = "absent"}
  BY <1>1, <1>2, <1>3 DEF Ready
<1>5. \A k \in new : Deps[k] \subseteq Completed(e)
  BY <1>2 DEF Ready
<1>6. /\ a = [revision |-> m.revision + 1, status |-> Status(n, sub),
              task |-> a.task, stamp |-> a.stamp, result |-> a.result,
              review |-> IF Closes(n, sub) THEN Review(m, sub) ELSE m.review]
      /\ a.task = [k \in Nodes |-> IF k \in new THEN "queued"
                                  ELSE IF k = n THEN sub.outcome ELSE m.task[k]]
      /\ a.stamp = [k \in Nodes |-> IF k \in new THEN sub.at ELSE m.stamp[k]]
      /\ a.result = [k \in Nodes |-> IF k = n THEN sub ELSE m.result[k]]
  BY Fields
<1> HIDE DEF e, new, a
<1>7. Completed(e) \subseteq Completed(a)
  BY <1>1, <1>4, <1>6 DEF Completed
<1> QED BY <1>2, <1>4, <1>5, <1>7 DEF new, a

LEMMA AdvancedGood ==
  ASSUME NEW m, NEW n, NEW sub, Good(m), May(m, n, sub)
  PROVE  Good(Advanced(m, n, sub)) /\ m.revision + 1 \in Revisions
<1> DEFINE e == Entered(m, n, sub)
           new == NewTasks(m, n, sub)
           a == Advanced(m, n, sub)
<1>1. m \in Manifests /\ n \in Nodes /\ sub \in Submission /\ m.task[n] = "queued"
  BY DEF Good, May
<1>2. /\ a = [revision |-> m.revision + 1, status |-> Status(n, sub),
              task |-> a.task, stamp |-> a.stamp, result |-> a.result,
              review |-> IF Closes(n, sub) THEN Review(m, sub) ELSE m.review]
      /\ a.task = [k \in Nodes |-> IF k \in new THEN "queued"
                                  ELSE IF k = n THEN sub.outcome ELSE m.task[k]]
      /\ a.stamp = [k \in Nodes |-> IF k \in new THEN sub.at ELSE m.stamp[k]]
      /\ a.result = [k \in Nodes |-> IF k = n THEN sub ELSE m.result[k]]
  BY <1>1, Fields
<1>3. new \subseteq {k \in Nodes \ {n} : m.task[k] = "absent"}
  BY <1>1, NewAreReady
<1>4. sub.outcome \in Outcomes /\ sub.at \in Stamps
      /\ sub.outcome \notin {"absent", "queued"} /\ "absent" # "queued"
      /\ sub # Missing /\ sub.at # Missing
  BY <1>1, Constants, MissingAssumption DEF Submission
<1>5. e.task = [k \in Nodes |-> IF k = n THEN sub.outcome ELSE m.task[k]]
  BY <1>1 DEF Entered, Manifests
<1>6. IsFiniteSet(Nodes) /\ Cardinality(Nodes) \in Nat /\ Producer \in Nodes /\ Governance \in Nodes
      /\ Cap \in Nat
  BY Constants
<1> HIDE DEF e, new, a
\* One more node is over, and one more revision fits.
<1>7. Cardinality(Over(a)) = m.revision /\ m.revision + 1 \in Revisions
  <2>1. Over(a) = Over(m) \cup {n} /\ n \notin Over(m) /\ Over(m) \subseteq Nodes
    BY <1>1, <1>2, <1>3, <1>4 DEF Over
  <2>2. IsFiniteSet(Over(m)) /\ Cardinality(Over(m)) = m.revision - 1
    BY <1>6, <2>1, FS_Subset DEF Good
  <2>3. Cardinality(Over(a)) = (m.revision - 1) + 1
    BY <2>1, <2>2, FS_AddElement
  <2>4. Cardinality(Over(a)) <= Cardinality(Nodes)
    BY <2>1, <1>1, <1>6, FS_Subset
  <2>5. m.revision \in Revisions
    BY <1>1 DEF Manifests
  <2> QED BY <2>3, <2>4, <2>5, <1>6 DEF Revisions
<1>8. a \in Manifests
  <2>1. Review(m, sub) \in Reviews
    BY <1>1, <1>6 DEF Review, Reviews, Manifests
  <2>2. Status(n, sub) \in {"queued", "running", "blocked", "failed", "awaiting_review"}
    BY DEF Status
  <2>3. a.task \in [Nodes -> {"absent", "queued"} \cup Outcomes]
    BY <1>1, <1>2, <1>4 DEF Manifests
  <2>4. a.stamp \in [Nodes -> Stamps \cup {Missing}]
    BY <1>1, <1>2, <1>4 DEF Manifests
  <2>5. a.result \in [Nodes -> Submission \cup {Missing}]
    BY <1>1, <1>2 DEF Manifests
  <2>6. (IF Closes(n, sub) THEN Review(m, sub) ELSE m.review) \in Reviews \cup {Missing}
    BY <1>1, <2>1 DEF Manifests
  <2> QED BY <1>2, <1>7, <2>2, <2>3, <2>4, <2>5, <2>6 DEF Manifests
<1>9. /\ \A k \in Nodes : a.task[k] \in {"absent", "queued"} <=> a.result[k] = Missing
      /\ \A k \in Nodes : a.task[k] # "absent" => a.stamp[k] # Missing
  BY <1>1, <1>2, <1>3, <1>4, MissingAssumption DEF Good
<1>10. Cardinality(Queued(a)) <= Cap
  <2>1. Queued(e) \subseteq Queued(m) /\ IsFiniteSet(Queued(m))
    BY <1>4, <1>5, <1>6, FS_Subset DEF Queued
  <2>2. Cardinality(Queued(e)) <= Cap
    BY <2>1, <1>6, FS_Subset, FS_CardinalityType DEF Good
  <2>3. Queued(a) \subseteq Unblocked(e) \cup Queued(e)
    BY <1>2, <1>3, <1>4, <1>5 DEF Queued, new, NewTasks, e
  <2>4. IsFiniteSet(Unblocked(e) \cup Queued(e)) /\ Cardinality(Unblocked(e) \cup Queued(e)) <= Cap
    BY <2>2, SlotsHold, FS_Union
  <2>5. Cardinality(Queued(a)) <= Cardinality(Unblocked(e) \cup Queued(e)) /\ IsFiniteSet(Queued(a))
    BY <2>3, <2>4, FS_Subset
  <2> QED BY <2>4, <2>5, <1>6, FS_CardinalityType
<1>11. a.status = "awaiting_review" => Earned(a)
  <2>1. SUFFICES ASSUME a.status = "awaiting_review" PROVE Earned(a)
    OBVIOUS
  <2>2. Closes(n, sub)
    BY <2>1, <1>2 DEF Status
  <2>3. Completed(a) = Nodes /\ n = Governance /\ sub.outcome = "completed"
    BY <2>2 DEF May, Closes, a
  <2>4. a.review = [product |-> m.result[Producer], verdict |-> sub]
    BY <1>2, <2>2 DEF Review
  <2>5. Producer # Governance
    BY RouteAssumption
  <2> QED BY <1>2, <1>6, <2>3, <2>4, <2>5 DEF Earned, Completed
<1>12. a.revision = m.revision + 1 /\ m.revision \in Nat
  BY <1>1, <1>2, <1>6 DEF Manifests, Revisions
<1> QED BY <1>7, <1>8, <1>9, <1>10, <1>11, <1>12 DEF Good, a

LEMMA FirstGood ==
  /\ Good(FirstManifest) /\ FirstManifest.revision = 1 /\ 1 \in Revisions
  /\ Roots \subseteq {n \in Nodes : Deps[n] = {}}
  /\ FirstManifest.task = [n \in Nodes |-> IF n \in Roots THEN "queued" ELSE "absent"]
  /\ FirstManifest.stamp = [n \in Nodes |-> IF n \in Roots THEN PlanStamp ELSE Missing]
  /\ FirstManifest.result = [n \in Nodes |-> Missing]
  /\ FirstManifest.review = Missing /\ FirstManifest.status = "queued"
<1> DEFINE f == FirstManifest
<1>1. f = [revision |-> 1, status |-> "queued",
           task |-> [n \in Nodes |-> IF n \in Roots THEN "queued" ELSE "absent"],
           stamp |-> [n \in Nodes |-> IF n \in Roots THEN PlanStamp ELSE Missing],
           result |-> [n \in Nodes |-> Missing], review |-> Missing]
  <2> DEFINE task == [n \in Nodes |-> IF n \in Roots THEN "queued" ELSE "absent"]
             stamp == [n \in Nodes |-> IF n \in Roots THEN PlanStamp ELSE Missing]
             none == [n \in Nodes |-> Missing]
  <2>1. f = [Blank EXCEPT !.task = [n \in Nodes |-> IF n \in Roots THEN "queued" ELSE Blank.task[n]],
                          !.stamp = [n \in Nodes |-> IF n \in Roots THEN PlanStamp ELSE Blank.stamp[n]]]
    BY DEF FirstManifest, WithTasks
  <2>2. \A n \in Nodes : Blank.task[n] = "absent" /\ Blank.stamp[n] = Missing
    BY DEF Blank, NoTasks, Nothing
  <2>3. f = [Blank EXCEPT !.task = task, !.stamp = stamp]
    BY <2>1, <2>2
  <2>4. Blank = [revision |-> 1, status |-> "queued", task |-> NoTasks,
                 stamp |-> none, result |-> none, review |-> Missing]
    BY DEF Blank, Nothing
  <2> HIDE DEF task, stamp, none, f
  <2>5. f = [revision |-> 1, status |-> "queued", task |-> task,
             stamp |-> stamp, result |-> none, review |-> Missing]
    BY <2>3, <2>4
  <2> QED BY <2>5 DEF task, stamp, none
<1>2. /\ Completed(Blank) = {} /\ Queued(Blank) = {}
  BY DEF Completed, Queued, Blank, NoTasks
<1>3. Roots \subseteq {n \in Nodes : Deps[n] = {}}
  BY <1>2, RouteAssumption DEF Roots, Unblocked, Ready
<1>4. Cardinality(Roots) <= Cap
  <2>1. Cardinality(Queued(Blank)) <= Cap
    BY <1>2, FS_EmptySet, Constants
  <2>2. Cardinality(Unblocked(Blank) \cup Queued(Blank)) <= Cap
    BY <2>1, SlotsHold
  <2> QED BY <2>2, <1>2 DEF Roots
<1>5. 1 \in Revisions
  BY Constants DEF Revisions
<1> HIDE DEF f
<1>6. f \in Manifests
  BY <1>1, <1>5, RouteAssumption DEF Manifests
<1>7. Over(f) = {} /\ Queued(f) = Roots
  BY <1>1, <1>3 DEF Over, Queued
<1>8. Cardinality(Over(f)) = f.revision - 1
  BY <1>1, <1>7, FS_EmptySet
<1>9. Good(f)
  BY <1>1, <1>4, <1>6, <1>7, <1>8, RouteAssumption, MissingAssumption DEF Good
<1> QED BY <1>1, <1>3, <1>5, <1>9 DEF f

\* Somebody has something to do from the start.
LEMMA RootsThere == Roots # {}
<1>1. PICK n \in Nodes : Place[n] = 1 /\ Deps[n] = {}
  BY RouteAssumption
<1>2. n \in Ready(Blank)
  BY <1>1 DEF Ready, Blank, NoTasks
<1>3. Ahead(Blank, n) = {}
  BY <1>1, RouteAssumption, Constants DEF Ahead, Ready
<1>4. Queued(Blank) = {}
  BY DEF Queued, Blank, NoTasks
<1>5. Cardinality(Ahead(Blank, n)) + Cardinality(Queued(Blank)) < Cap
  BY <1>3, <1>4, FS_EmptySet, Constants
<1> QED BY <1>2, <1>5 DEF Roots, Unblocked

-----------------------------------------------------------------------------
(* The invariant of a run *)

\* The manifests are numbered from 1, and the next waits for a receipt.
Line(t) ==
  /\ Published = 1..t
  /\ \A r \in 1..(t - 1) : Covered(<<"manifest", r>>)

ManifestsGood ==
  \A r \in Published : Good(Manifest(r)) /\ Manifest(r).revision = r

FirstIsPrepared ==
  /\ \A n \in Nodes : <<"manifest", 1>> \notin DOMAIN receipt[n]
  /\ Manifest(1) \in {Missing, FirstManifest}

Answered(a) ==
  \E r \in Published :
    /\ Covered(<<"manifest", r>>)
    /\ \A q \in Published : q >= r => Manifest(q).result[a.node] = a.sub

Unlisted(r) == \A k \in Keys : <<"manifest", r>> \notin DOMAIN receipt[k]

\* prepare_run at work.
Starting ==
  /\ job = [by |-> Coordinator, sub |-> Missing, items |-> Started]
  /\ DOMAIN receipt[Coordinator] = {}
  /\ Unlisted(1)
  /\ Manifest(1) \in {Missing, FirstManifest}

\* accept_result at work on the manifest r, the newest but for its own.
Advancing(n, sub, r) ==
  LET m == Manifest(r) IN
    /\ job = [by |-> n, sub |-> sub, items |-> Writes(m, n, sub)]
    /\ DOMAIN receipt[n] = {}
    /\ May(m, n, sub)
    /\ r \in Published /\ Covered(<<"manifest", r>>)
    /\ Published \subseteq 1..(r + 1)
    /\ Unlisted(r + 1)
    /\ Manifest(r + 1) \in {Missing, Advanced(m, n, sub)}

JobFits ==
  \/ job = NoJob
  \/ Starting
  \/ \E n \in Nodes, sub \in Submission, r \in Revisions : Advancing(n, sub, r)

RunInv ==
  /\ RunTypeOK /\ ReceiptsTrue /\ ManifestsGood /\ FirstIsPrepared
  /\ \E t \in 0..(Cardinality(Nodes) + 1) : Line(t)
  /\ PinsHold
  /\ \A a \in told : Answered(a)
  /\ JobFits

-----------------------------------------------------------------------------
(* What lasts *)

\* Files stay as they are once written, and receipts once linked.
Grows ==
  /\ DOMAIN file' = Refs
  /\ \A ref \in Refs : file[ref] # Missing => file'[ref] = file[ref]
  /\ DOMAIN receipt' = Keys
  /\ \A k \in Keys : \A ref \in DOMAIN receipt[k] :
       ref \in DOMAIN receipt'[k] /\ receipt'[k][ref] = receipt[k][ref]

LEMMA RefsOf ==
  /\ \A n \in Nodes : <<"task", n>> \in Refs /\ <<"result", n>> \in Refs
  /\ <<"review", Producer>> \in Refs
  /\ \A r \in Revisions : <<"manifest", r>> \in Refs
  /\ Revisions \subseteq Nat \ {0}
BY Constants DEF Refs, Revisions

LEMMA NothingMissing ==
  ASSUME NEW ref \in Refs
  PROVE  Missing \notin ContentOf(ref)
BY MissingAssumption DEF ContentOf

LEMMA CoveredLasts ==
  ASSUME RunTypeOK, ReceiptsTrue, Grows, NEW ref \in Refs, Covered(ref)
  PROVE  Covered(ref)' /\ file[ref] # Missing
<1>1. PICK k \in Keys : ref \in DOMAIN receipt[k] /\ receipt[k][ref] = file[ref]
  BY DEF Covered, RunTypeOK
<1>2. file[ref] # Missing
  BY <1>1, NothingMissing DEF RunTypeOK, ItemsTyped
<1> QED BY <1>1, <1>2 DEF Grows, Covered

LEMMA ManifestLasts ==
  ASSUME Grows, NEW r \in Published
  PROVE  r \in Published' /\ Manifest(r)' = Manifest(r)
BY RefsOf DEF Grows, Published, Manifest

\* What a manifest pins.
PinsOf(m) ==
  /\ \A n \in Nodes : m.task[n] # "absent" => file[<<"task", n>>] = m.stamp[n]
  /\ \A n \in Nodes : m.result[n] # Missing => file[<<"result", n>>] = m.result[n]
  /\ m.review # Missing => file[<<"review", Producer>>] = m.review

LEMMA PinsLast ==
  ASSUME Grows, NEW m, Good(m), PinsOf(m)
  PROVE  PinsOf(m)'
BY RefsOf DEF Grows, PinsOf, Good

\* The same manifests, receipts that grew: nothing of the past changes.
LEMMA PastLasts ==
  ASSUME RunInv, Grows, Published' = Published
  PROVE  /\ ManifestsGood'
         /\ \E t \in 0..(Cardinality(Nodes) + 1) : Line(t)'
         /\ PinsHold'
         /\ \A a \in told : Answered(a)'
<1>1. \A r \in Published : Manifest(r)' = Manifest(r) /\ <<"manifest", r>> \in Refs
  BY ManifestLasts, RefsOf DEF Published
<1>2. RunTypeOK /\ ReceiptsTrue /\ ManifestsGood /\ PinsHold
  BY DEF RunInv
<1>3. ManifestsGood'
  BY <1>1, <1>2 DEF ManifestsGood
<1>4. \E t \in 0..(Cardinality(Nodes) + 1) : Line(t)'
  <2>1. PICK t \in 0..(Cardinality(Nodes) + 1) : Line(t)
    BY DEF RunInv
  <2>2. \A r \in 1..(t - 1) : <<"manifest", r>> \in Refs
    <3>1. t \in Int
      OBVIOUS
    <3>2. \A r \in 1..(t - 1) : r \in 1..t
      BY <3>1
    <3>3. Published = 1..t
      BY <2>1 DEF Line
    <3> QED BY <3>2, <3>3, <1>1
  <2>3. \A r \in 1..(t - 1) : Covered(<<"manifest", r>>)'
    BY <2>1, <2>2, <1>2, CoveredLasts DEF Line
  <2> QED BY <2>1, <2>3 DEF Line
<1>5. PinsHold'
  <2> SUFFICES ASSUME NEW r \in Published PROVE PinsOf(Manifest(r))'
    BY DEF PinsHold, PinsOf
  <2>1. Good(Manifest(r)) /\ PinsOf(Manifest(r))
    BY <1>2 DEF ManifestsGood, PinsHold, PinsOf
  <2> DEFINE m == Manifest(r)
  <2> HIDE DEF m
  <2>2. PICK c : c = Manifest(r)
    OBVIOUS
  <2>3. PinsOf(c)'
    BY <2>1, <2>2, PinsLast
  <2> QED BY <2>2, <2>3, <1>1 DEF PinsOf
<1>6. \A a \in told : Answered(a)'
  <2> SUFFICES ASSUME NEW a \in told PROVE Answered(a)'
    OBVIOUS
  <2>1. PICK r \in Published :
          /\ Covered(<<"manifest", r>>)
          /\ \A q \in Published : q >= r => Manifest(q).result[a.node] = a.sub
    BY DEF RunInv, Answered
  <2>2. Covered(<<"manifest", r>>)'
    BY <2>1, <1>1, <1>2, CoveredLasts
  <2> QED BY <2>1, <2>2, <1>1 DEF Answered
<1> QED BY <1>3, <1>4, <1>5, <1>6

\* A file that is no manifest, receipts and the job may change.
LEMMA NoManifestStep ==
  ASSUME RunInv, RunTypeOK', ReceiptsTrue', Grows, JobFits',
         \A r \in Revisions : Manifest(r)' = Manifest(r),
         \A n \in Nodes : <<"manifest", 1>> \notin DOMAIN receipt'[n],
         \A a \in told' \ told : Answered(a)'
  PROVE  RunInv'
<1>1. Published' = Published
  BY DEF Published
<1>2. FirstIsPrepared'
  BY Constants DEF RunInv, FirstIsPrepared, Revisions
<1>3. \A a \in told' : Answered(a)'
  BY <1>1, PastLasts
<1> QED BY <1>1, <1>2, <1>3, PastLasts DEF RunInv

\* The next manifest, which keeps the results of the one before.
LEMMA ManifestStep ==
  ASSUME RunInv, RunTypeOK', ReceiptsTrue', Grows, JobFits', UNCHANGED <<receipt, told>>,
         NEW r \in Revisions, NEW c,
         Published = 1..(r - 1), r > 1 => Covered(<<"manifest", r - 1>>),
         \A q \in Revisions \ {r} : Manifest(q)' = Manifest(q),
         Manifest(r)' = c, Good(c), c.revision = r, PinsOf(c)',
         r = 1 => c = FirstManifest,
         \A n \in Nodes : r > 1 /\ Manifest(r - 1).result[n] # Missing =>
                          c.result[n] = Manifest(r - 1).result[n]
  PROVE  RunInv'
<1>1. r \in Nat /\ r >= 1 /\ r <= Cardinality(Nodes) + 1 /\ Cardinality(Nodes) \in Nat
      /\ Revisions \subseteq Nat \ {0} /\ 1 \in Revisions
  BY Constants DEF Revisions
<1>2. RunTypeOK /\ ReceiptsTrue /\ ManifestsGood /\ PinsHold /\ FirstIsPrepared
  BY DEF RunInv
<1>3. c # Missing
  BY MissingAssumption DEF Good
<1>4. Published' = Published \cup {r} /\ r \notin Published
  <2>1. r \notin Published
    BY <1>1
  <2>2. \A q \in Revisions : q \in Published <=> Manifest(q) # Missing
    BY DEF Published
  <2>3. \A q \in Revisions : q \in Published' <=> Manifest(q)' # Missing
    BY DEF Published
  <2>4. Published \subseteq Revisions /\ Published' \subseteq Revisions
    BY DEF Published
  <2> QED BY <2>1, <2>2, <2>3, <2>4, <1>3
<1>5. Published' = 1..r
  BY <1>1, <1>4
<1>6. \A q \in Published : Manifest(q)' = Manifest(q) /\ <<"manifest", q>> \in Refs /\ q \in Revisions
  BY ManifestLasts, RefsOf DEF Published
<1>7. ManifestsGood'
  BY <1>2, <1>4, <1>6 DEF ManifestsGood
<1>8. Line(r)'
  <2>1. PICK t \in 0..(Cardinality(Nodes) + 1) : Line(t)
    BY DEF RunInv
  <2>2. t = r - 1
    <3>1. Published = 1..t
      BY <2>1 DEF Line
    <3>2. t \in Nat
      BY <1>1
    <3> QED BY <3>1, <3>2, <1>1
  <2>3. \A q \in 1..(r - 1) : Covered(<<"manifest", q>>)
    <3>1. \A q \in 1..((r - 1) - 1) : Covered(<<"manifest", q>>)
      BY <2>1, <2>2 DEF Line
    <3> SUFFICES ASSUME NEW q \in 1..(r - 1) PROVE Covered(<<"manifest", q>>)
      OBVIOUS
    <3>2. CASE q = r - 1
      BY <3>2, <1>1
    <3>3. CASE q # r - 1
      <4>1. q \in 1..((r - 1) - 1)
        BY <3>3, <1>1
      <4> QED BY <4>1, <3>1
    <3> QED BY <3>2, <3>3
  <2>4. \A q \in 1..(r - 1) : Covered(<<"manifest", q>>)'
    BY <2>3, <1>2, <1>6, CoveredLasts
  <2> QED BY <2>4, <1>5 DEF Line
<1>9. PinsHold'
  <2> SUFFICES ASSUME NEW q \in Published' PROVE PinsOf(Manifest(q))'
    BY DEF PinsHold, PinsOf
  <2>1. CASE q = r
    BY <2>1 DEF PinsOf
  <2>2. CASE q # r
    <3>1. q \in Published
      BY <2>2, <1>4
    <3>2. PICK m : m = Manifest(q)
      OBVIOUS
    <3>3. Good(m) /\ PinsOf(m)
      BY <3>1, <3>2, <1>2 DEF ManifestsGood, PinsHold, PinsOf
    <3>4. PinsOf(m)'
      BY <3>3, PinsLast
    <3> QED BY <3>1, <3>2, <3>4, <1>6 DEF PinsOf
  <2> QED BY <2>1, <2>2
<1>10. \A a \in told' : Answered(a)'
  <2> SUFFICES ASSUME NEW a \in told PROVE Answered(a)'
    OBVIOUS
  <2>1. PICK q \in Published :
          /\ Covered(<<"manifest", q>>)
          /\ \A p \in Published : p >= q => Manifest(p).result[a.node] = a.sub
    BY DEF RunInv, Answered
  <2>2. Covered(<<"manifest", q>>)'
    BY <2>1, <1>2, <1>6, CoveredLasts
  <2>3. r > 1 /\ r - 1 \in Published /\ r - 1 >= q
    BY <2>1, <1>1
  <2>4. Manifest(r - 1).result[a.node] = a.sub
    BY <2>1, <2>3
  <2>5. a.node \in Nodes /\ a.sub \in Submission
    BY <1>2 DEF RunTypeOK
  <2>6. c.result[a.node] = a.sub
    BY <2>3, <2>4, <2>5, MissingAssumption
  <2> QED BY <2>1, <2>2, <2>6, <1>4, <1>6 DEF Answered
<1>11. FirstIsPrepared'
  BY <1>1, <1>2 DEF FirstIsPrepared
<1>12. \E t \in 0..(Cardinality(Nodes) + 1) : Line(t)'
  BY <1>1, <1>8
<1> QED BY <1>7, <1>9, <1>10, <1>11, <1>12 DEF RunInv

-----------------------------------------------------------------------------
(* What a job writes *)

LEMMA StartedIs ==
  /\ DOMAIN Started = ({"task"} \X Roots) \cup {<<"manifest", 1>>}
  /\ Started[<<"manifest", 1>>] = FirstManifest
  /\ \A n \in Roots : Started[<<"task", n>>] = PlanStamp
  /\ ItemsTyped(Started)
<1>1. /\ DOMAIN Started = ({"task"} \X Roots) \cup {<<"manifest", 1>>}
      /\ Started[<<"manifest", 1>>] = FirstManifest
      /\ \A n \in Roots : Started[<<"task", n>>] = PlanStamp
  BY DEF Started
<1>2. FirstManifest \in Manifests /\ Roots \subseteq Nodes /\ PlanStamp \in Stamps
      /\ 1 \in Revisions
  BY FirstGood, RouteAssumption DEF Good
<1>3. ItemsTyped(Started)
  <2> SUFFICES ASSUME NEW ref \in DOMAIN Started
               PROVE  ref \in Refs /\ Started[ref] \in ContentOf(ref)
    BY DEF ItemsTyped
  <2>1. CASE ref = <<"manifest", 1>>
    BY <2>1, <1>1, <1>2, RefsOf DEF ContentOf
  <2>2. CASE ref \in {"task"} \X Roots
    <3>1. PICK n \in Roots : ref = <<"task", n>>
      BY <2>2
    <3> QED BY <3>1, <1>1, <1>2, RefsOf DEF ContentOf
  <2> QED BY <2>1, <2>2, <1>1
<1> QED BY <1>1, <1>3

LEMMA WritesAre ==
  ASSUME NEW m, NEW n, NEW sub, Good(m), May(m, n, sub)
  PROVE  LET w == Writes(m, n, sub) IN
           /\ DOMAIN w = Written(m, n, sub)
           /\ w[<<"result", n>>] = sub
           /\ \A k \in NewTasks(m, n, sub) : w[<<"task", k>>] = sub.at
           /\ Closes(n, sub) => w[<<"review", Producer>>] = Review(m, sub)
           /\ w[<<"manifest", m.revision + 1>>] = Advanced(m, n, sub)
           /\ ItemsTyped(w)
<1> DEFINE w == Writes(m, n, sub)
<1>1. m \in Manifests /\ n \in Nodes /\ sub \in Submission /\ m.task[n] = "queued"
  BY DEF Good, May
<1>2. /\ DOMAIN w = Written(m, n, sub)
      /\ w[<<"result", n>>] = sub
      /\ \A k \in NewTasks(m, n, sub) : w[<<"task", k>>] = sub.at
      /\ Closes(n, sub) => w[<<"review", Producer>>] = Review(m, sub)
      /\ w[<<"manifest", m.revision + 1>>] = Advanced(m, n, sub)
  BY DEF Writes, Written
<1>3. NewTasks(m, n, sub) \subseteq Nodes
  BY <1>1, NewAreReady
<1>4. Review(m, sub) \in Reviews
  BY <1>1, Constants DEF Review, Reviews, Manifests
<1>5. Advanced(m, n, sub) \in Manifests /\ m.revision + 1 \in Revisions
  BY AdvancedGood DEF Good
<1>6. sub.at \in Stamps
  BY <1>1 DEF Submission
<1> HIDE DEF w
<1>7. ASSUME NEW ref \in DOMAIN w PROVE ref \in Refs /\ w[ref] \in ContentOf(ref)
  <2>1. CASE ref = <<"result", n>>
    BY <2>1, <1>1, <1>2, RefsOf DEF ContentOf
  <2>2. CASE ref = <<"manifest", m.revision + 1>>
    BY <2>2, <1>2, <1>5, RefsOf DEF ContentOf
  <2>3. CASE ref \in {"task"} \X NewTasks(m, n, sub)
    <3>1. PICK k \in NewTasks(m, n, sub) : ref = <<"task", k>>
      BY <2>3
    <3> QED BY <3>1, <1>2, <1>3, <1>6, RefsOf DEF ContentOf
  <2>4. CASE Closes(n, sub) /\ ref = <<"review", Producer>>
    BY <2>4, <1>2, <1>4, RefsOf DEF ContentOf
  <2> QED BY <2>1, <2>2, <2>3, <2>4, <1>2 DEF Written
<1>8. ItemsTyped(w)
  BY <1>7 DEF ItemsTyped
<1> QED BY <1>2, <1>8 DEF w

LEMMA JobTyped ==
  ASSUME RunInv, job # NoJob
  PROVE  /\ ItemsTyped(job.items) /\ job.by \in Keys /\ DOMAIN receipt[job.by] = {}
         /\ job.by \in Nodes => job.sub \in Submission
<1>1. CASE Starting
  BY <1>1, StartedIs, RouteAssumption DEF Starting, Keys
<1>2. ASSUME NEW n \in Nodes, NEW sub \in Submission, NEW r \in Revisions, Advancing(n, sub, r)
      PROVE  /\ ItemsTyped(job.items) /\ job.by \in Keys /\ DOMAIN receipt[job.by] = {}
             /\ job.by \in Nodes => job.sub \in Submission
  <2>1. PICK m : m = Manifest(r)
    OBVIOUS
  <2>2. Good(m) /\ May(m, n, sub)
    BY <2>1, <1>2 DEF Advancing, RunInv, ManifestsGood
  <2>3. ItemsTyped(Writes(m, n, sub))
    BY <2>2, WritesAre
  <2> QED BY <2>1, <2>3, <1>2 DEF Advancing, Keys
<1> QED BY <1>1, <1>2 DEF RunInv, JobFits

LEMMA AtRest == NoJob.items = << >> /\ DOMAIN NoJob.items = {}
BY DEF NoJob

\* Steps of the job alone.
LEMMA JobStep ==
  ASSUME RunInv, UNCHANGED <<file, receipt, told>>, JobFits'
  PROVE  RunInv'
<1>1. RunTypeOK' /\ ReceiptsTrue'
  BY DEF RunInv, RunTypeOK, ReceiptsTrue, Covered
<1>2. Grows
  BY DEF Grows, RunInv, RunTypeOK
<1>3. \A r \in Revisions : Manifest(r)' = Manifest(r)
  BY DEF Manifest
<1>4. \A n \in Nodes : <<"manifest", 1>> \notin DOMAIN receipt'[n]
  BY DEF RunInv, FirstIsPrepared
<1> QED BY <1>1, <1>2, <1>3, <1>4, NoManifestStep

LEMMA ConflictStep ==
  ASSUME RunInv, Killed \/ \E ref \in DOMAIN job.items : Conflict(ref)
  PROVE  RunInv'
<1>1. UNCHANGED <<file, receipt, told>> /\ job' = NoJob
  BY DEF Killed, Conflict
<1>2. JobFits'
  BY <1>1 DEF JobFits
<1> QED BY <1>1, <1>2, JobStep

\* A manifest that is not there is in no receipt.
LEMMA UnlistedIs ==
  ASSUME RunInv, NEW r \in Revisions, Manifest(r) = Missing
  PROVE  Unlisted(r)
<1> SUFFICES ASSUME NEW k \in Keys, <<"manifest", r>> \in DOMAIN receipt[k] PROVE FALSE
  BY DEF Unlisted
<1>1. file[<<"manifest", r>>] = receipt[k][<<"manifest", r>>]
  BY DEF RunInv, ReceiptsTrue
<1>2. receipt[k][<<"manifest", r>>] \in ContentOf(<<"manifest", r>>)
  BY DEF RunInv, RunTypeOK, ItemsTyped
<1> QED BY <1>1, <1>2, RefsOf, NothingMissing DEF Manifest

LEMMA PrepareStep == ASSUME RunInv, Prepare PROVE RunInv'
<1>1. /\ job' = [by |-> Coordinator, sub |-> Missing, items |-> Started]
      /\ DOMAIN receipt[Coordinator] = {} /\ UNCHANGED <<file, receipt, told>>
  BY DEF Prepare, Apply
<1>2. Unlisted(1) /\ Manifest(1) \in {Missing, FirstManifest}
  BY <1>1 DEF Unlisted, RunInv, FirstIsPrepared, Keys
<1>3. Starting'
  BY <1>1, <1>2 DEF Starting, Unlisted, Manifest
<1> QED BY <1>1, <1>3, JobStep DEF JobFits

\* The manifest that a call works from.
LEMMA LatestIs ==
  ASSUME RunInv, Readable
  PROVE  \E t \in Revisions :
           /\ Published = 1..t /\ t \in Published
           /\ Latest = Manifest(t) /\ Good(Manifest(t)) /\ Manifest(t).revision = t
           /\ \A r \in Published : Covered(<<"manifest", r>>)
<1>1. PICK t \in 0..(Cardinality(Nodes) + 1) : Published = 1..t
  BY DEF RunInv, Line
<1>2. t \in Nat /\ t # 0 /\ t \in Revisions
  <2>1. t \in Nat /\ Cardinality(Nodes) \in Nat
    BY Constants
  <2>2. Published # {}
    BY DEF Readable
  <2> QED BY <2>1, <2>2, <1>1 DEF Revisions
<1>3. t \in Published
  BY <1>1, <1>2
<1>4. (CHOOSE r \in Published : \A q \in Published : q <= r) = t
  <2>1. \A q \in Published : q <= t
    BY <1>1, <1>2
  <2>2. ASSUME NEW r \in Published, \A q \in Published : q <= r PROVE r = t
    BY <2>1, <2>2, <1>1, <1>2, <1>3
  <2> QED BY <1>3, <2>1, <2>2
<1>5. Latest = Manifest(t)
  BY <1>4 DEF Latest
<1> QED BY <1>1, <1>2, <1>3, <1>5 DEF RunInv, ManifestsGood, Readable

LEMMA AcceptStep ==
  ASSUME RunInv, NEW n \in Nodes, NEW sub \in Submission, Accept(n, sub)
  PROVE  RunInv'
<1>1. Readable
  BY DEF Accept
<1>2. PICK t \in Revisions :
        /\ Published = 1..t /\ t \in Published
        /\ Latest = Manifest(t) /\ Good(Manifest(t)) /\ Manifest(t).revision = t
        /\ \A r \in Published : Covered(<<"manifest", r>>)
  BY <1>1, LatestIs
<1>3. PICK m : m = Manifest(t)
  OBVIOUS
<1>4. May(m, n, sub)
  BY <1>2, <1>3 DEF Accept, Accepts, May, MayClose
<1>5. /\ job' = [by |-> n, sub |-> sub, items |-> Writes(m, n, sub)]
      /\ DOMAIN receipt[n] = {} /\ UNCHANGED <<file, receipt, told>>
  BY <1>2, <1>3 DEF Accept, Apply
<1>6. t + 1 \in Revisions /\ Manifest(t + 1) = Missing
  <2>1. t + 1 \in Revisions
    BY <1>2, <1>3, <1>4, AdvancedGood
  <2>2. t + 1 \notin Published
    BY <1>2, RefsOf
  <2> QED BY <2>1, <2>2 DEF Published
<1>7. Unlisted(t + 1)
  BY <1>6, UnlistedIs
<1>8. Advancing(n, sub, t)'
  <2>1. Published \subseteq 1..(t + 1)
    BY <1>2, RefsOf
  <2>2. UNCHANGED <<Manifest(t), Manifest(t + 1), Published, Covered(<<"manifest", t>>), Unlisted(t + 1)>>
    BY <1>5 DEF Manifest, Published, Covered, Unlisted
  <2> QED BY <2>1, <2>2, <1>2, <1>3, <1>4, <1>5, <1>6, <1>7 DEF Advancing
<1> QED BY <1>5, <1>8, JobStep DEF JobFits

LEMMA ReplayStep ==
  ASSUME RunInv, NEW n \in Nodes, NEW sub \in Submission, Replay(n, sub)
  PROVE  RunInv'
<1>1. Readable /\ UNCHANGED <<file, receipt, job>>
      /\ told' = told \cup {[node |-> n, sub |-> sub]}
      /\ Latest.result[n] = sub
  BY DEF Replay, Replays
<1>2. PICK t \in Revisions :
        /\ Published = 1..t /\ t \in Published
        /\ Latest = Manifest(t) /\ Good(Manifest(t)) /\ Manifest(t).revision = t
        /\ \A r \in Published : Covered(<<"manifest", r>>)
  BY <1>1, LatestIs
<1>3. Answered([node |-> n, sub |-> sub])
  <2>1. \A q \in Published : q >= t => q = t
    BY <1>2, RefsOf
  <2> QED BY <2>1, <1>1, <1>2 DEF Answered
<1>4. RunTypeOK' /\ ReceiptsTrue'
  BY <1>1 DEF RunInv, RunTypeOK, ReceiptsTrue
<1>5. Grows
  BY <1>1 DEF Grows, RunInv, RunTypeOK
<1>6. Answered([node |-> n, sub |-> sub])'
  BY <1>1, <1>3 DEF Answered, Published, Manifest, Covered
<1>7. JobFits'
  BY <1>1 DEF RunInv, JobFits, Starting, Advancing, Unlisted, Manifest, Published, Covered
<1>8. \A r \in Revisions : Manifest(r)' = Manifest(r)
  BY <1>1 DEF Manifest
<1>9. \A k \in Nodes : <<"manifest", 1>> \notin DOMAIN receipt'[k]
  BY <1>1 DEF RunInv, FirstIsPrepared
<1> QED BY <1>1, <1>4, <1>5, <1>6, <1>7, <1>8, <1>9, NoManifestStep

LEMMA FinishStep == ASSUME RunInv, Finish PROVE RunInv'
<1>1. /\ job # NoJob /\ Pending = {} /\ job' = NoJob /\ UNCHANGED file
      /\ receipt' = [receipt EXCEPT ![job.by] = job.items]
      /\ told' = IF job.by \in Nodes THEN told \cup {[node |-> job.by, sub |-> job.sub]}
                 ELSE told
  BY DEF Finish
<1>2. /\ ItemsTyped(job.items) /\ job.by \in Keys /\ DOMAIN receipt[job.by] = {}
      /\ job.by \in Nodes => job.sub \in Submission
  BY <1>1, JobTyped
<1>3. \A ref \in DOMAIN job.items : file[ref] = job.items[ref]
  BY <1>1 DEF Pending
<1>4. /\ DOMAIN receipt' = Keys /\ receipt'[job.by] = job.items
      /\ \A k \in Keys : k # job.by => receipt'[k] = receipt[k]
  BY <1>1, <1>2 DEF RunInv, RunTypeOK
<1>5. RunTypeOK'
  <2>1. \A k \in Keys : ItemsTyped(receipt'[k])
    BY <1>2, <1>4 DEF RunInv, RunTypeOK
  <2>2. told' \subseteq [node : Nodes, sub : Submission]
    BY <1>1, <1>2 DEF RunInv, RunTypeOK
  <2> QED BY <2>1, <2>2, <1>1, <1>4 DEF RunInv, RunTypeOK, ItemsTyped
<1>6. ReceiptsTrue'
  BY <1>1, <1>3, <1>4 DEF RunInv, ReceiptsTrue
<1>7. Grows
  BY <1>1, <1>2, <1>4 DEF Grows, RunInv, RunTypeOK
<1>8. \A r \in Revisions : Manifest(r)' = Manifest(r)
  BY <1>1 DEF Manifest
<1>9. CASE Starting
  <2>1. job.by = Coordinator /\ Coordinator \notin Nodes
    BY <1>9, RouteAssumption DEF Starting
  <2>2. told' = told /\ \A n \in Nodes : <<"manifest", 1>> \notin DOMAIN receipt'[n]
    BY <2>1, <1>1, <1>4 DEF RunInv, FirstIsPrepared, Keys
  <2> QED BY <2>2, <1>1, <1>5, <1>6, <1>7, <1>8, NoManifestStep DEF JobFits
<1>10. ASSUME NEW n \in Nodes, NEW sub \in Submission, NEW r \in Revisions, Advancing(n, sub, r)
       PROVE  RunInv'
  <2>1. PICK m : m = Manifest(r)
    OBVIOUS
  <2>2. /\ Good(m) /\ m.revision = r /\ May(m, n, sub) /\ job.by = n /\ job.sub = sub
        /\ job.items = Writes(m, n, sub) /\ Published \subseteq 1..(r + 1)
    BY <2>1, <1>10 DEF Advancing, RunInv, ManifestsGood
  <2>3. r \in Nat /\ r # 0 /\ r + 1 \in Revisions
    BY <2>2, AdvancedGood, RefsOf
  <2>4. /\ DOMAIN job.items = Written(m, n, sub)
        /\ job.items[<<"manifest", r + 1>>] = Advanced(m, n, sub)
    <3> DEFINE w == Writes(m, n, sub)
    <3>1. /\ DOMAIN w = Written(m, n, sub)
          /\ w[<<"result", n>>] = sub
          /\ \A k \in NewTasks(m, n, sub) : w[<<"task", k>>] = sub.at
          /\ Closes(n, sub) => w[<<"review", Producer>>] = Review(m, sub)
          /\ w[<<"manifest", m.revision + 1>>] = Advanced(m, n, sub)
          /\ ItemsTyped(w)
      BY <2>2, WritesAre
    <3> QED BY <3>1, <2>2
  <2>5. <<"manifest", r + 1>> \in DOMAIN job.items
    BY <2>2, <2>4 DEF Written
  <2>6. Manifest(r + 1)' = Advanced(m, n, sub) /\ Covered(<<"manifest", r + 1>>)'
    BY <2>2, <2>4, <2>5, <1>1, <1>2, <1>3, <1>4 DEF Manifest, Covered
  <2>7. Good(Advanced(m, n, sub)) /\ Advanced(m, n, sub).result[n] = sub
    <3>1. Good(Advanced(m, n, sub))
      BY <2>2, AdvancedGood
    <3>2. Advanced(m, n, sub).result[n] = sub
      BY <2>2, NextTasks DEF Good
    <3> QED BY <3>1, <3>2
  <2>8. r + 1 \in Published' /\ Published' \subseteq 1..(r + 1)
    BY <2>2, <2>3, <2>6, <2>7, <1>8, MissingAssumption DEF Published, Good
  <2>9. Answered([node |-> n, sub |-> sub])'
    <3>1. \A q \in Published' : q >= r + 1 => q = r + 1
      BY <2>3, <2>8
    <3> QED BY <3>1, <2>6, <2>7, <2>8 DEF Answered
  <2>10. \A k \in Nodes : <<"manifest", 1>> \notin DOMAIN receipt'[k]
    <3>1. <<"manifest", 1>> \notin DOMAIN job.items
      BY <2>2, <2>3, <2>4 DEF Written
    <3> QED BY <3>1, <1>4 DEF RunInv, FirstIsPrepared, Keys
  <2>11. told' = told \cup {[node |-> n, sub |-> sub]}
    BY <2>2, <1>1
  <2> QED BY <2>9, <2>10, <2>11, <1>1, <1>5, <1>6, <1>7, <1>8, NoManifestStep DEF JobFits
<1> QED BY <1>1, <1>9, <1>10 DEF RunInv, JobFits

-----------------------------------------------------------------------------
(* One file is published *)

LEMMA PublishTypes ==
  ASSUME RunInv, NEW ref \in DOMAIN job.items, Publish(ref)
  PROVE  /\ job # NoJob /\ ref \in Refs
         /\ UNCHANGED <<receipt, job, told>>
         /\ file[ref] = Missing /\ file'[ref] = job.items[ref]
         /\ \A x \in Refs : x # ref => file'[x] = file[x]
         /\ RunTypeOK' /\ ReceiptsTrue' /\ Grows
<1>1. job # NoJob
  BY AtRest
<1>2. ref \in Refs /\ job.items[ref] \in ContentOf(ref)
  BY <1>1, JobTyped DEF ItemsTyped
<1>3. /\ file[ref] = Missing /\ file' = [file EXCEPT ![ref] = job.items[ref]]
      /\ UNCHANGED <<receipt, job, told>>
  BY DEF Publish
<1>4. DOMAIN file' = Refs /\ file'[ref] = job.items[ref] /\ \A x \in Refs : x # ref => file'[x] = file[x]
  BY <1>2, <1>3 DEF RunInv, RunTypeOK
<1>5. RunTypeOK'
  BY <1>2, <1>3, <1>4 DEF RunInv, RunTypeOK
<1>6. Grows
  BY <1>3, <1>4 DEF Grows, RunInv, RunTypeOK
<1>7. ReceiptsTrue'
  <2> SUFFICES ASSUME NEW k \in Keys, NEW x \in DOMAIN receipt[k]
               PROVE  file'[x] = receipt[k][x]
    BY <1>3 DEF ReceiptsTrue
  <2>1. x \in Refs /\ receipt[k][x] \in ContentOf(x) /\ file[x] = receipt[k][x]
    BY DEF RunInv, RunTypeOK, ItemsTyped, ReceiptsTrue
  <2>2. file[x] # Missing
    BY <2>1, NothingMissing
  <2> QED BY <2>1, <2>2, <1>6 DEF Grows
<1> QED BY <1>1, <1>2, <1>3, <1>4, <1>5, <1>6, <1>7

\* The job goes on as it was, given what became of its manifest.
LEMMA JobLasts ==
  ASSUME RunInv, Grows, UNCHANGED <<receipt, job>>,
         Starting => Manifest(1)' \in {Missing, FirstManifest},
         \A n \in Nodes, sub \in Submission, r \in Revisions :
           Advancing(n, sub, r) =>
             /\ Manifest(r + 1)' \in {Missing, Advanced(Manifest(r), n, sub)}
             /\ Published' \subseteq 1..(r + 1)
  PROVE  JobFits'
<1>1. CASE job = NoJob
  BY <1>1 DEF JobFits
<1>2. CASE Starting
  <2>1. Starting'
    BY <1>2 DEF Starting, Unlisted
  <2> QED BY <2>1 DEF JobFits
<1>3. ASSUME NEW n \in Nodes, NEW sub \in Submission, NEW r \in Revisions, Advancing(n, sub, r)
      PROVE  JobFits'
  <2>1. PICK m : m = Manifest(r)
    OBVIOUS
  <2>2. r \in Published' /\ Manifest(r)' = m
    BY <2>1, <1>3, ManifestLasts DEF Advancing
  <2>3. Covered(<<"manifest", r>>)'
    BY <1>3, CoveredLasts, RefsOf DEF Advancing, RunInv
  <2>4. Advancing(n, sub, r)'
    BY <2>1, <2>2, <2>3, <1>3 DEF Advancing, Unlisted
  <2> QED BY <2>4 DEF JobFits
<1> QED BY <1>1, <1>2, <1>3 DEF RunInv, JobFits

LEMMA PublishOther ==
  ASSUME RunInv, NEW ref \in DOMAIN job.items, Publish(ref), ref[1] # "manifest"
  PROVE  RunInv'
<1>1. /\ UNCHANGED <<receipt, job, told>> /\ RunTypeOK' /\ ReceiptsTrue' /\ Grows
      /\ \A x \in Refs : x # ref => file'[x] = file[x]
  BY PublishTypes
<1>2. \A r \in Revisions : Manifest(r)' = Manifest(r)
  <2> SUFFICES ASSUME NEW r \in Revisions PROVE file'[<<"manifest", r>>] = file[<<"manifest", r>>]
    BY DEF Manifest
  <2>1. <<"manifest", r>>[1] = "manifest" /\ <<"manifest", r>> \in Refs
    BY RefsOf
  <2> QED BY <2>1, <1>1
<1>3. Published' = Published
  BY <1>2 DEF Published
<1>4. Starting => Manifest(1)' \in {Missing, FirstManifest}
  BY <1>2, FirstGood DEF Starting
<1>5. ASSUME NEW n \in Nodes, NEW sub \in Submission, NEW r \in Revisions, Advancing(n, sub, r)
      PROVE  /\ Manifest(r + 1)' \in {Missing, Advanced(Manifest(r), n, sub)}
             /\ Published' \subseteq 1..(r + 1)
  <2>1. PICK m : m = Manifest(r)
    OBVIOUS
  <2>2. Good(m) /\ m.revision = r /\ May(m, n, sub)
    BY <2>1, <1>5 DEF Advancing, RunInv, ManifestsGood
  <2>3. r + 1 \in Revisions
    BY <2>2, AdvancedGood
  <2> QED BY <2>3, <1>2, <1>3, <1>5 DEF Advancing
<1>6. JobFits'
  BY <1>1, <1>4, <1>5, JobLasts
<1>7. \A n \in Nodes : <<"manifest", 1>> \notin DOMAIN receipt'[n]
  BY <1>1 DEF RunInv, FirstIsPrepared
<1> QED BY <1>1, <1>2, <1>6, <1>7, NoManifestStep

LEMMA PublishFirst ==
  ASSUME RunInv, NEW ref \in DOMAIN job.items, Publish(ref), ref[1] = "manifest", Starting
  PROVE  RunInv'
<1>1. /\ UNCHANGED <<receipt, job, told>> /\ RunTypeOK' /\ ReceiptsTrue' /\ Grows
      /\ file[ref] = Missing /\ file'[ref] = job.items[ref]
      /\ \A x \in Refs : x # ref => file'[x] = file[x]
  BY PublishTypes
<1>2. job.items = Started /\ Unlisted(1)
  BY DEF Starting
<1>3. ref = <<"manifest", 1>> /\ job.items[ref] = FirstManifest
  BY <1>2, StartedIs
<1>4. Good(FirstManifest) /\ FirstManifest.revision = 1 /\ 1 \in Revisions
  BY FirstGood
<1>5. Published = 1..(1 - 1)
  <2>1. PICK t \in 0..(Cardinality(Nodes) + 1) : Line(t)
    BY DEF RunInv
  <2>2. 1 \notin Published
    BY <1>1, <1>3 DEF Published, Manifest
  <2>3. t \in Nat
    BY Constants
  <2>4. Published = 1..t
    BY <2>1 DEF Line
  <2>5. t = 0
    BY <2>2, <2>3, <2>4
  <2> QED BY <2>4, <2>5
<1>6. \A n \in Roots : file[<<"task", n>>] = PlanStamp
  <2> SUFFICES ASSUME NEW n \in Roots PROVE file[<<"task", n>>] = PlanStamp
    OBVIOUS
  <2>1. <<"task", n>> \in DOMAIN job.items /\ job.items[<<"task", n>>] = PlanStamp
    BY <1>2, StartedIs
  <2>2. Turn(<<"task", n>>) < Turn(ref)
    BY <1>3, FirstGood, RouteAssumption, Constants DEF Turn
  <2>3. Turn(<<"task", n>>) \in Nat /\ Turn(ref) \in Nat
    BY <1>3, FirstGood, RouteAssumption, Constants DEF Turn
  <2>4. <<"task", n>> \notin Pending
    BY <2>2, <2>3 DEF Publish, Due
  <2> QED BY <2>1, <2>4 DEF Pending
<1>7. PinsOf(FirstManifest)'
  <2>1. \A n \in Nodes : FirstManifest.task[n] # "absent" =>
            file'[<<"task", n>>] = FirstManifest.stamp[n]
    <3> SUFFICES ASSUME NEW n \in Nodes, FirstManifest.task[n] # "absent"
                 PROVE  file'[<<"task", n>>] = FirstManifest.stamp[n]
      OBVIOUS
    <3>1. n \in Roots /\ FirstManifest.stamp[n] = PlanStamp
      BY FirstGood
    <3>2. <<"task", n>> # ref /\ <<"task", n>> \in Refs
      BY <1>3, RefsOf
    <3> QED BY <3>1, <3>2, <1>1, <1>6
  <2> QED BY <2>1, FirstGood DEF PinsOf
<1>8. /\ \A q \in Revisions \ {1} : Manifest(q)' = Manifest(q)
      /\ Manifest(1)' = FirstManifest
  BY <1>1, <1>3, RefsOf DEF Manifest
<1>9. ASSUME NEW n \in Nodes, NEW sub \in Submission, NEW r \in Revisions
      PROVE  ~Advancing(n, sub, r)
  BY <1>5 DEF Advancing
<1>10. JobFits'
  BY <1>1, <1>8, <1>9, JobLasts
<1>11. 1 > 1 => Covered(<<"manifest", 1 - 1>>)
  OBVIOUS
<1>12. \A n \in Nodes : 1 > 1 /\ Manifest(1 - 1).result[n] # Missing =>
                        FirstManifest.result[n] = Manifest(1 - 1).result[n]
  OBVIOUS
<1> HIDE DEF Manifest
<1> QED BY <1>1, <1>4, <1>5, <1>7, <1>8, <1>10, <1>11, <1>12, ManifestStep

LEMMA PublishNext ==
  ASSUME RunInv, NEW ref \in DOMAIN job.items, Publish(ref), ref[1] = "manifest",
         NEW n \in Nodes, NEW sub \in Submission, NEW r \in Revisions, Advancing(n, sub, r)
  PROVE  RunInv'
<1>1. /\ UNCHANGED <<receipt, job, told>> /\ RunTypeOK' /\ ReceiptsTrue' /\ Grows
      /\ file[ref] = Missing /\ file'[ref] = job.items[ref]
      /\ \A x \in Refs : x # ref => file'[x] = file[x]
  BY PublishTypes
<1>2. PICK m : m = Manifest(r)
  OBVIOUS
<1>3. PICK c : c = Advanced(m, n, sub)
  OBVIOUS
<1>4. /\ Good(m) /\ m.revision = r /\ May(m, n, sub) /\ m.task[n] = "queued" /\ m \in Manifests
      /\ job.items = Writes(m, n, sub) /\ Covered(<<"manifest", r>>)
      /\ r \in Published /\ Published \subseteq 1..(r + 1)
  BY <1>2 DEF Advancing, RunInv, ManifestsGood, May, Good
<1>5. Good(c) /\ r + 1 \in Revisions /\ r \in Nat /\ r # 0
  BY <1>3, <1>4, AdvancedGood, RefsOf
<1> DEFINE w == Writes(m, n, sub)
<1>6. /\ DOMAIN w = Written(m, n, sub)
      /\ w[<<"result", n>>] = sub
      /\ \A k \in NewTasks(m, n, sub) : w[<<"task", k>>] = sub.at
      /\ Closes(n, sub) => w[<<"review", Producer>>] = Review(m, sub)
      /\ w[<<"manifest", m.revision + 1>>] = Advanced(m, n, sub)
      /\ ItemsTyped(w)
  BY <1>4, WritesAre
<1> HIDE DEF w
<1>7. ref = <<"manifest", r + 1>> /\ file'[ref] = c /\ job.items = w
  <2>1. ref \in Written(m, n, sub)
    BY <1>4, <1>6 DEF w
  <2>2. ref = <<"manifest", r + 1>>
    BY <2>1, <1>4 DEF Written
  <2> QED BY <2>2, <1>1, <1>3, <1>4, <1>6 DEF w
\* All that comes before the manifest is there.
<1>8. ASSUME NEW x \in DOMAIN w, x[1] \in {"task", "result", "review"}
      PROVE  file'[x] = w[x]
  <2>1. x \in Refs /\ x # ref
    BY <1>6, <1>7, <1>8 DEF ItemsTyped
  <2>2. Turn(x) < Turn(ref) /\ Turn(x) \in Nat /\ Turn(ref) \in Nat
    <3>1. x[1] = "task" => x[2] \in Nodes /\ Place[x[2]] \in 1..Cardinality(Nodes)
      BY <2>1, RouteAssumption DEF Refs
    <3> QED BY <3>1, <1>7, <1>8, Constants DEF Turn
  <2>3. x \notin Pending
    BY <2>2 DEF Publish, Due
  <2> QED BY <2>1, <2>3, <1>1, <1>7 DEF Pending
<1>9. PinsOf(m)'
  <2>1. PinsOf(m)
    BY <1>2, <1>4 DEF RunInv, PinsHold, PinsOf
  <2> QED BY <2>1, <1>1, <1>4, PinsLast
<1>10. /\ \A k \in NewTasks(m, n, sub) : file'[<<"task", k>>] = sub.at
       /\ file'[<<"result", n>>] = sub
       /\ Closes(n, sub) => file'[<<"review", Producer>>] = Review(m, sub)
  <2>1. /\ \A k \in NewTasks(m, n, sub) : <<"task", k>> \in DOMAIN w
        /\ <<"result", n>> \in DOMAIN w
        /\ Closes(n, sub) => <<"review", Producer>> \in DOMAIN w
    BY <1>6 DEF Written
  <2> QED BY <2>1, <1>6, <1>8
<1>11. PinsOf(c)'
  <2>1. /\ \A k \in Nodes : c.task[k] =
             IF k \in NewTasks(m, n, sub) THEN "queued"
             ELSE IF k = n THEN sub.outcome ELSE m.task[k]
        /\ \A k \in Nodes : c.stamp[k] = IF k \in NewTasks(m, n, sub) THEN sub.at ELSE m.stamp[k]
        /\ \A k \in Nodes : c.result[k] = IF k = n THEN sub ELSE m.result[k]
        /\ c.review = IF Closes(n, sub) THEN Review(m, sub) ELSE m.review
    BY <1>3, <1>4, NextTasks
  <2>2. \A k \in Nodes : c.task[k] # "absent" => file'[<<"task", k>>] = c.stamp[k]
    BY <2>1, <1>4, <1>9, <1>10 DEF PinsOf
  <2>3. \A k \in Nodes : c.result[k] # Missing => file'[<<"result", k>>] = c.result[k]
    BY <2>1, <1>9, <1>10 DEF PinsOf
  <2>4. c.review # Missing => file'[<<"review", Producer>>] = c.review
    BY <2>1, <1>9, <1>10 DEF PinsOf
  <2> QED BY <2>2, <2>3, <2>4 DEF PinsOf
<1>12. Published = 1..r
  <2>1. PICK t \in 0..(Cardinality(Nodes) + 1) : Line(t)
    BY DEF RunInv
  <2>2. Published = 1..t
    BY <2>1 DEF Line
  <2>3. t \in Nat
    BY Constants
  <2>4. r + 1 \notin Published
    BY <1>1, <1>7 DEF Published, Manifest
  <2>5. r \in 1..t /\ r + 1 \notin 1..t
    BY <2>2, <2>4, <1>4
  <2>6. t = r
    BY <2>3, <2>5, <1>5
  <2> QED BY <2>2, <2>6
<1>13. /\ \A q \in Revisions \ {r + 1} : Manifest(q)' = Manifest(q)
       /\ Manifest(r + 1)' = c
  BY <1>1, <1>7, RefsOf DEF Manifest
<1>14. c.revision = r + 1 /\ \A k \in Nodes : m.result[k] # Missing => c.result[k] = m.result[k]
  <2>1. m.result[n] = Missing
    BY <1>4 DEF Good
  <2> QED BY <2>1, <1>3, <1>4, NextTasks
<1>15. JobFits'
  <2>1. Published' \subseteq 1..(r + 1)
    <3> SUFFICES ASSUME NEW q \in Published' PROVE q \in 1..(r + 1)
      OBVIOUS
    <3>1. q \in Revisions /\ Manifest(q)' # Missing
      BY DEF Published
    <3>2. CASE q = r + 1
      BY <3>2, <1>5
    <3>3. CASE q # r + 1
      <4>1. q \in Published
        BY <3>1, <3>3, <1>13 DEF Published
      <4> QED BY <4>1, <1>5, <1>12
    <3> QED BY <3>2, <3>3
  <2>2. ~Starting
    BY RouteAssumption DEF Starting, Advancing
  <2>3. ASSUME NEW k \in Nodes, NEW s \in Submission, NEW q \in Revisions, Advancing(k, s, q)
        PROVE  /\ Manifest(q + 1)' \in {Missing, Advanced(Manifest(q), k, s)}
               /\ Published' \subseteq 1..(q + 1)
    <3>1. k = n /\ s = sub
      BY <2>3 DEF Advancing
    <3>2. q = r
      <4>1. q \in Published /\ Published \subseteq 1..(q + 1)
        BY <2>3 DEF Advancing
      <4>2. q \in Nat /\ q <= r /\ q >= 1
        BY <4>1, <1>5, <1>12
      <4>3. CASE q + 1 = r
        <5>1. Unlisted(r)
          BY <2>3, <4>3 DEF Advancing
        <5> QED BY <5>1, <1>4 DEF Unlisted, Covered, RunInv, RunTypeOK
      <4>4. CASE q + 1 # r
        <5>1. r \in 1..(q + 1)
          BY <4>1, <1>4
        <5> QED BY <5>1, <4>2, <4>4, <1>5
      <4> QED BY <4>3, <4>4
    <3> QED BY <3>1, <3>2, <2>1, <1>2, <1>3, <1>13
  <2> QED BY <2>2, <2>3, <1>1, JobLasts
<1>16. PICK x : x = r + 1
  OBVIOUS
<1>17. /\ x \in Revisions /\ x - 1 = r /\ x > 1 /\ x # 1 /\ Published = 1..(x - 1)
       /\ Covered(<<"manifest", x - 1>>) /\ c.revision = x
       /\ Manifest(x)' = c /\ \A q \in Revisions \ {x} : Manifest(q)' = Manifest(q)
       /\ Manifest(x - 1) = m
  <2>1. x \in Revisions
    BY <1>5, <1>16
  <2>2. x - 1 = r /\ x > 1 /\ x # 1
    BY <1>5, <1>16
  <2>3. Published = 1..(x - 1) /\ Covered(<<"manifest", x - 1>>) /\ Manifest(x - 1) = m
    BY <2>2, <1>2, <1>4, <1>12
  <2>4. c.revision = x
    BY <1>14, <1>16
  <2>5. Manifest(x)' = c /\ \A q \in Revisions \ {x} : Manifest(q)' = Manifest(q)
    BY <1>13, <1>16
  <2> QED BY <2>1, <2>2, <2>3, <2>4, <2>5
<1> QED BY <1>1, <1>5, <1>11, <1>14, <1>15, <1>17, ManifestStep

LEMMA PublishStep ==
  ASSUME RunInv, NEW ref \in DOMAIN job.items, Publish(ref)
  PROVE  RunInv'
<1>1. job # NoJob
  BY AtRest
<1>2. CASE ref[1] # "manifest"
  BY <1>2, PublishOther
<1>3. CASE ref[1] = "manifest"
  BY <1>1, <1>3, PublishFirst, PublishNext DEF RunInv, JobFits
<1> QED BY <1>2, <1>3

LEMMA InitInv == Init => RunInv
<1> SUFFICES ASSUME Init PROVE RunInv
  OBVIOUS
<1>1. /\ file = [ref \in Refs |-> Missing] /\ job = NoJob /\ told = {}
      /\ receipt = [k \in Keys |-> << >>]
  BY DEF Init, Keys
<1>2. RunTypeOK /\ ReceiptsTrue
  BY <1>1 DEF RunTypeOK, ReceiptsTrue, ItemsTyped
<1>3. \A r \in Revisions : Manifest(r) = Missing
  BY <1>1, RefsOf DEF Manifest
<1>4. Published = {} /\ 1..0 = {}
  BY <1>3 DEF Published
<1>5. Line(0) /\ 0 \in 0..(Cardinality(Nodes) + 1)
  <2>1. \A r \in 1..(0 - 1) : FALSE
    OBVIOUS
  <2> QED BY <2>1, <1>4, Constants DEF Line
<1>6. FirstIsPrepared
  BY <1>1, <1>3, FirstGood DEF FirstIsPrepared, Keys
<1>7. ManifestsGood /\ PinsHold
  BY <1>4 DEF ManifestsGood, PinsHold
<1> QED BY <1>1, <1>2, <1>5, <1>6, <1>7 DEF RunInv, JobFits

LEMMA StepInv == RunInv /\ [Next]_vars => RunInv'
<1> SUFFICES ASSUME RunInv, [Next]_vars PROVE RunInv'
  OBVIOUS
<1>1. CASE Prepare
  BY <1>1, PrepareStep
<1>2. CASE Finish
  BY <1>2, FinishStep
<1>3. ASSUME NEW ref \in DOMAIN job.items, Publish(ref) PROVE RunInv'
  BY <1>3, PublishStep
<1>4. CASE Killed \/ \E ref \in DOMAIN job.items : Conflict(ref)
  BY <1>4, ConflictStep
<1>5. ASSUME NEW n \in Nodes, NEW sub \in Submission, Accept(n, sub) PROVE RunInv'
  BY <1>5, AcceptStep
<1>6. ASSUME NEW n \in Nodes, NEW sub \in Submission, Replay(n, sub) PROVE RunInv'
  BY <1>6, ReplayStep
<1>7. CASE UNCHANGED vars
  <2>1. UNCHANGED <<file, receipt, told, job>>
    BY <1>7 DEF vars
  <2>2. JobFits'
    BY <2>1 DEF RunInv, JobFits, Starting, Advancing, Unlisted, Manifest, Published, Covered
  <2> QED BY <2>1, <2>2, JobStep
<1> QED BY <1>1, <1>2, <1>3, <1>4, <1>5, <1>6, <1>7 DEF Next, Writer, Submit

LEMMA Invariance == Spec => []RunInv
BY InitInv, StepInv, PTL DEF Spec

-----------------------------------------------------------------------------
(* What a run promises *)

\* Files, receipts and answers hold what their names say (root_writer.py).
THEOREM FilesTyped == Spec => []RunTypeOK
<1>1. RunInv => RunTypeOK
  BY DEF RunInv
<1> QED BY <1>1, Invariance, PTL

\* A manifest is never ahead of what it points to (run_engine.py
\* accept_result, coordinator.py prepare_run), also between two writes.
THEOREM ManifestsPin == Spec => []PinsHold
<1>1. RunInv => PinsHold
  BY DEF RunInv
<1> QED BY <1>1, Invariance, PTL

\* What a caller was told is accepted stays in every later manifest, and no
\* second answer contradicts it (run_engine.py _replay_response).
THEOREM AnswersLast == Spec => []AnswersStand
<1>1. RunInv => AnswersStand
  <2> SUFFICES ASSUME RunInv, NEW a \in told
               PROVE  /\ \A b \in told : b.node = a.node => b = a
                      /\ Answered(a)
    BY DEF AnswersStand, Answered
  <2>1. ASSUME NEW b \in told, b.node = a.node PROVE b = a
    <3>1. PICK r \in Published : \A q \in Published : q >= r => Manifest(q).result[a.node] = a.sub
      BY DEF RunInv, Answered
    <3>2. PICK s \in Published : \A q \in Published : q >= s => Manifest(q).result[b.node] = b.sub
      BY DEF RunInv, Answered
    <3>3. r \in Nat /\ s \in Nat
      BY RefsOf DEF Published
    <3>4. a.sub = b.sub
      BY <3>1, <3>2, <3>3, <2>1
    <3>5. a = [node |-> a.node, sub |-> a.sub] /\ b = [node |-> b.node, sub |-> b.sub]
      BY DEF RunInv, RunTypeOK
    <3> QED BY <3>4, <3>5, <2>1
  <2> QED BY <2>1 DEF RunInv
<1> QED BY <1>1, Invariance, PTL

\* What is offered to the human reviewer was produced and passed by the run's
\* own nodes, all of which are completed (run_engine.py _final_review_writes).
THEOREM ReviewsAreEarned == Spec => []ReviewIsEarned
<1>1. RunInv => ReviewIsEarned
  BY DEF RunInv, ManifestsGood, Good, Earned, ReviewIsEarned
<1> QED BY <1>1, Invariance, PTL

-----------------------------------------------------------------------------
(* An open run goes on *)

\* Nothing is queued before what it depends on is completed, and while the run
\* is open nothing has failed.
Orderly(m) ==
  /\ \A n \in Nodes : m.task[n] # "absent" => Deps[n] \subseteq Completed(m)
  /\ TakesResults(m) =>
       /\ Over(m) = Completed(m) /\ Governance \notin Over(m)
       /\ Queued(m) # {}

LEMMA FirstOrderly == Orderly(FirstManifest)
<1>1. /\ FirstManifest.task = [n \in Nodes |-> IF n \in Roots THEN "queued" ELSE "absent"]
      /\ Roots \subseteq {n \in Nodes : Deps[n] = {}} /\ Roots # {}
  BY FirstGood, RootsThere
<1>2. Over(FirstManifest) = {} /\ Completed(FirstManifest) = {}
  BY <1>1 DEF Over, Completed
<1>3. Queued(FirstManifest) # {}
  BY <1>1 DEF Queued
<1> QED BY <1>1, <1>2, <1>3 DEF Orderly

LEMMA AdvancedOrderly ==
  ASSUME NEW m, NEW n, NEW sub, Good(m), Orderly(m), May(m, n, sub)
  PROVE  Orderly(Advanced(m, n, sub))
<1> DEFINE a == Advanced(m, n, sub)
           new == NewTasks(m, n, sub)
<1>1. m \in Manifests /\ n \in Nodes /\ sub \in Submission /\ m.task[n] = "queued"
      /\ TakesResults(m)
  BY DEF Good, May
<1>2. /\ \A k \in Nodes : a.task[k] = IF k \in new THEN "queued"
                                      ELSE IF k = n THEN sub.outcome ELSE m.task[k]
      /\ a.status = Status(n, sub)
  BY <1>1, NextTasks
<1>3. /\ new \subseteq {k \in Nodes \ {n} : m.task[k] = "absent"}
      /\ \A k \in new : Deps[k] \subseteq Completed(a)
  BY <1>1, NewAreReady
<1>4. sub.outcome \notin {"absent", "queued"}
  BY <1>1, Constants DEF Submission
<1>5. GoesOn(m, n, sub)
  BY DEF May
<1> HIDE DEF a, new
<1>6. Completed(m) \subseteq Completed(a)
  BY <1>1, <1>2, <1>3 DEF Completed
<1>7. ASSUME NEW k \in Nodes, a.task[k] # "absent"
      PROVE  Deps[k] \subseteq Completed(a)
  <2>1. CASE k \in new
    BY <2>1, <1>3
  <2>2. CASE k \notin new
    <3>1. m.task[k] # "absent"
      BY <2>2, <1>1, <1>2, <1>7
    <3> QED BY <3>1, <1>6 DEF Orderly
  <2> QED BY <2>1, <2>2
<1>8. ASSUME TakesResults(a)
      PROVE  /\ Over(a) = Completed(a) /\ Governance \notin Over(a)
             /\ Queued(a) # {}
  <2>1. sub.outcome = "completed" /\ n # Governance
    BY <1>2, <1>8 DEF TakesResults, Status, Closes
  <2>2. Over(m) = Completed(m) /\ Governance \notin Over(m)
    BY <1>1 DEF Orderly
  <2>3. Over(a) = Over(m) \cup {n} /\ Completed(a) = Completed(m) \cup {n}
    BY <2>1, <1>1, <1>2, <1>3 DEF Over, Completed
  <2>4. Queued(a) # {}
    BY <2>1, <1>5 DEF GoesOn, a
  <2> QED BY <2>1, <2>2, <2>3, <2>4
<1> QED BY <1>7, <1>8 DEF Orderly, a

\* The ready node with the least place gets a slot that is free.
LEMMA FirstInLine ==
  ASSUME NEW m, Ready(m) # {}, Queued(m) = {}
  PROVE  Unblocked(m) # {}
<1> DEFINE A == {Ahead(m, k) : k \in Ready(m)}
           O == StrictSubsetOrdering(Nodes)
<1>1. Ready(m) \subseteq Nodes /\ \A k \in Ready(m) : Ahead(m, k) \subseteq Ready(m)
  BY DEF Ready, Ahead
<1>2. A \subseteq FiniteSubsetsOf(Nodes) /\ A # {}
  BY <1>1, Constants, FS_Subset DEF FiniteSubsetsOf
<1>3. PICK T \in A : \A U \in A : <<U, T>> \notin O
  <2> HIDE DEF A
  <2> QED BY <1>2, FS_StrictSubsetOrderingWellFounded, WFMin
<1>4. PICK n \in Ready(m) : T = Ahead(m, n)
  OBVIOUS
<1>5. Ahead(m, n) = {}
  <2> SUFFICES ASSUME NEW k \in Ahead(m, n) PROVE FALSE
    OBVIOUS
  <2>1. k \in Ready(m) /\ k \in Nodes /\ n \in Nodes /\ Place[k] < Place[n]
    BY <1>1 DEF Ahead
  <2>2. Ahead(m, k) \subseteq Ahead(m, n) /\ k \notin Ahead(m, k)
    BY <1>1, <2>1, RouteAssumption, Constants DEF Ahead
  <2>3. <<Ahead(m, k), Ahead(m, n)>> \in O
    BY <1>1, <2>1, <2>2 DEF StrictSubsetOrdering
  <2> QED BY <1>3, <1>4, <2>1, <2>3
<1>6. Cardinality(Ahead(m, n)) + Cardinality(Queued(m)) < Cap
  BY <1>5, FS_EmptySet, Constants
<1> QED BY <1>4, <1>6 DEF Unblocked

\* While governance has not ended, a queued node is left or a slot can be filled:
\* of the nodes that are absent, one depends on none of the others.
LEMMA RouteGoesOn ==
  ASSUME NEW m, NEW n, NEW sub, Good(m), Orderly(m), TakesResults(m),
         n \in Queued(m), sub \in Submission
  PROVE  GoesOn(m, n, sub)
<1> SUFFICES ASSUME sub.outcome = "completed", n # Governance, Queued(Advanced(m, n, sub)) = {}
             PROVE  FALSE
  BY DEF GoesOn
<1> DEFINE a == Advanced(m, n, sub)
           e == Entered(m, n, sub)
           new == NewTasks(m, n, sub)
           S == {k \in Nodes : e.task[k] = "absent"}
<1>1. m \in Manifests /\ n \in Nodes /\ m.task[n] = "queued" /\ Governance \in Nodes
  BY Constants DEF Good, Queued
<1>2. /\ \A k \in Nodes : a.task[k] = IF k \in new THEN "queued"
                                      ELSE IF k = n THEN sub.outcome ELSE m.task[k]
      /\ new \subseteq Nodes \ {n}
  BY <1>1, NextTasks, NewAreReady
<1>3. \A k \in Nodes : e.task[k] = IF k = n THEN "completed" ELSE m.task[k]
  BY <1>1 DEF Entered, Manifests
<1>4. new = Unblocked(e)
  BY DEF NewTasks
<1>5. new = {} /\ Queued(a) = {}
  <2> HIDE DEF a, new
  <2>1. Queued(a) = {}
    BY DEF a
  <2> QED BY <2>1, <1>2 DEF Queued
<1> HIDE DEF a, e, new
<1>6. Queued(e) = {}
  BY <1>2, <1>3, <1>5 DEF Queued
<1>7. Over(m) = Completed(m) /\ Governance \notin Over(m)
  BY DEF Orderly
<1>8. \A k \in Nodes : e.task[k] \in {"absent", "completed"}
  BY <1>3, <1>6, <1>7 DEF Queued, Over, Completed
<1>9. Governance \in S
  BY <1>1, <1>3, <1>7, <1>8 DEF Over
<1>10. PICK k \in S : Deps[k] \cap S = {}
  BY <1>9, GovernanceIsLast DEF Acyclic
<1>11. Deps[k] \subseteq Completed(e)
  BY <1>8, <1>10, RouteAssumption DEF Completed
<1>12. k \in Ready(e)
  BY <1>10, <1>11 DEF Ready
<1> QED BY <1>4, <1>5, <1>6, <1>12, FirstInLine

\* When governance is queued, all it depends on is completed, and that is all.
LEMMA GovernanceComesLast ==
  ASSUME NEW m, NEW n, NEW sub, Good(m), Orderly(m),
         n \in Queued(m), sub \in Submission, Closes(n, sub)
  PROVE  Completed(Advanced(m, n, sub)) = Nodes
<1> DEFINE S == Completed(m) \cup {Governance}
           a == Advanced(m, n, sub)
           new == NewTasks(m, n, sub)
<1>1. /\ m \in Manifests /\ n \in Nodes /\ m.task[n] = "queued" /\ n = Governance
      /\ sub.outcome = "completed"
  BY DEF Good, Queued, Closes
<1>2. \A k \in S : Deps[k] \subseteq S
  BY <1>1 DEF Orderly, Completed
<1>3. Governance \in S /\ S \in SUBSET Nodes
  BY <1>1 DEF Completed
<1>4. S = Nodes
  BY <1>2, <1>3, GovernanceIsLast
<1>5. /\ \A k \in Nodes : a.task[k] = IF k \in new THEN "queued"
                                      ELSE IF k = n THEN sub.outcome ELSE m.task[k]
      /\ new \subseteq {k \in Nodes \ {n} : m.task[k] = "absent"}
  BY <1>1, NextTasks, NewAreReady
<1> HIDE DEF a, new
<1>6. \A k \in Nodes : a.task[k] = "completed"
  BY <1>1, <1>4, <1>5 DEF Completed
<1> QED BY <1>6 DEF Completed, a

-----------------------------------------------------------------------------
(* Nothing is in the way *)

Listed(ref) == \E k \in Keys : ref \in DOMAIN receipt[k]

Orders == \A r \in Published : Orderly(Manifest(r))

\* What was queued once is in every later manifest.
Chained ==
  \A r, q \in Published : r <= q =>
    \A n \in Nodes : Manifest(r).task[n] # "absent" => Manifest(q).task[n] # "absent"

\* What a receipted manifest pins is receipted.
PinsListed ==
  \A r \in Published : Listed(<<"manifest", r>>) =>
    \A n \in Nodes :
      /\ Manifest(r).task[n] # "absent" => Listed(<<"task", n>>)
      /\ Manifest(r).result[n] # Missing => Listed(<<"result", n>>)

\* A receipt was answered, and lists what its own call wrote.
ReceiptsOwn ==
  /\ \A n \in Nodes : DOMAIN receipt[n] # {} => \E a \in told : a.node = n
  /\ DOMAIN receipt[Coordinator] # {} => <<"manifest", 1>> \in DOMAIN receipt[Coordinator]
  /\ \A k \in Keys : \A ref \in DOMAIN receipt[k] :
       /\ ref[1] = "result" => ref[2] = k
       /\ ref[1] = "review" => k = Governance
       /\ ref[1] = "task" => \E r \in Published : Manifest(r).task[ref[2]] # "absent"

\* Without kills, a file is receipted or the call at work wrote it.
NoLeftovers ==
  kills = 0 =>
    /\ \A ref \in Refs : file[ref] # Missing =>
         Listed(ref) \/ (ref \in DOMAIN job.items /\ file[ref] = job.items[ref])
    /\ \A ref \in DOMAIN job.items : file[ref] \in {Missing, job.items[ref]}

FlowInv ==
  /\ kills \in Nat
  /\ Orders /\ Chained /\ PinsListed /\ ReceiptsOwn /\ NoLeftovers

LEMMA CoveredIsListed ==
  ASSUME RunInv, NEW ref
  PROVE  Covered(ref) <=> Listed(ref)
BY DEF RunInv, RunTypeOK, ReceiptsTrue, Covered, Listed

\* No manifest and no receipt is new.
LEMMA SameManifests ==
  ASSUME RunInv, FlowInv, UNCHANGED receipt, told \subseteq told',
         \A r \in Revisions : Manifest(r)' = Manifest(r)
  PROVE  /\ (Orders /\ Chained /\ PinsListed /\ ReceiptsOwn)'
         /\ Published' = Published /\ \A ref : Listed(ref)' = Listed(ref)
<1>1. Published' = Published /\ Published \subseteq Revisions
  BY DEF Published
<1>2. \A ref : Listed(ref)' = Listed(ref)
  BY DEF Listed
<1>3. Orders' /\ Chained'
  BY <1>1 DEF FlowInv, Orders, Chained
<1>4. PinsListed'
  BY <1>1, <1>2 DEF FlowInv, PinsListed
<1>5. ReceiptsOwn'
  BY <1>1 DEF FlowInv, ReceiptsOwn
<1> QED BY <1>1, <1>2, <1>3, <1>4, <1>5

LEMMA FlowInit == Init => FlowInv
<1> SUFFICES ASSUME Init PROVE FlowInv
  OBVIOUS
<1>1. /\ file = [ref \in Refs |-> Missing] /\ job = NoJob /\ kills = 0
      /\ receipt = [k \in Keys |-> << >>]
  BY DEF Init, Keys
<1>2. Published = {}
  BY <1>1, RefsOf DEF Published, Manifest
<1>3. \A k \in Keys : DOMAIN receipt[k] = {}
  BY <1>1
<1>4. ReceiptsOwn
  BY <1>3 DEF ReceiptsOwn, Keys
<1>5. NoLeftovers
  BY <1>1, AtRest DEF NoLeftovers
<1> QED BY <1>1, <1>2, <1>4, <1>5 DEF FlowInv, Orders, Chained, PinsListed

LEMMA FlowPrepare == ASSUME RunInv, FlowInv, Prepare PROVE FlowInv'
<1>1. /\ job = NoJob /\ job' = [by |-> Coordinator, sub |-> Missing, items |-> Started]
      /\ DOMAIN receipt[Coordinator] = {} /\ UNCHANGED <<file, receipt, kills, told>>
  BY DEF Prepare, Apply
<1>2. \A r \in Revisions : Manifest(r)' = Manifest(r)
  BY <1>1 DEF Manifest
<1>3. NoLeftovers'
  <2> SUFFICES ASSUME kills = 0 PROVE NoLeftovers'
    BY <1>1 DEF NoLeftovers
  <2>1. \A ref \in Refs : file[ref] # Missing => Listed(ref)
    BY <1>1, AtRest DEF FlowInv, NoLeftovers
  <2>2. Published = {}
    <3> SUFFICES ASSUME Published # {} PROVE FALSE
      OBVIOUS
    <3>1. 1 \in Published
      <4>1. PICK t \in 0..(Cardinality(Nodes) + 1) : Published = 1..t
        BY DEF RunInv, Line
      <4>2. t \in Nat
        BY Constants
      <4> QED BY <4>1, <4>2
    <3>2. Listed(<<"manifest", 1>>)
      BY <2>1, <3>1, RefsOf DEF Published, Manifest
    <3>3. \A n \in Nodes : <<"manifest", 1>> \notin DOMAIN receipt[n]
      BY DEF RunInv, FirstIsPrepared
    <3> QED BY <3>2, <3>3, <1>1 DEF Listed, Keys
  <2>3. told = {}
    BY <2>2 DEF RunInv, Answered
  <2>4. \A ref \in Refs : file[ref] = Missing
    <3>1. \A n \in Nodes : DOMAIN receipt[n] = {}
      BY <2>3 DEF FlowInv, ReceiptsOwn
    <3> QED BY <3>1, <2>1, <1>1 DEF Listed, Keys
  <2>5. DOMAIN Started \subseteq Refs
    BY StartedIs DEF ItemsTyped
  <2> QED BY <2>4, <2>5, <1>1 DEF NoLeftovers
<1>4. told \subseteq told' /\ kills' \in Nat /\ UNCHANGED receipt
  BY <1>1 DEF FlowInv
<1> QED BY <1>2, <1>3, <1>4, SameManifests DEF FlowInv

\* The writes of a call, without the abbreviation.
LEMMA WritesOf ==
  ASSUME NEW m, NEW n, NEW sub, Good(m), May(m, n, sub)
  PROVE  /\ DOMAIN Writes(m, n, sub) = Written(m, n, sub)
         /\ DOMAIN Writes(m, n, sub) \subseteq Refs
         /\ Writes(m, n, sub)[<<"manifest", m.revision + 1>>] = Advanced(m, n, sub)
<1> DEFINE w == Writes(m, n, sub)
<1>1. /\ DOMAIN w = Written(m, n, sub)
      /\ w[<<"result", n>>] = sub
      /\ \A k \in NewTasks(m, n, sub) : w[<<"task", k>>] = sub.at
      /\ Closes(n, sub) => w[<<"review", Producer>>] = Review(m, sub)
      /\ w[<<"manifest", m.revision + 1>>] = Advanced(m, n, sub)
      /\ ItemsTyped(w)
  BY WritesAre
<1> QED BY <1>1 DEF ItemsTyped

LEMMA FlowAccept ==
  ASSUME RunInv, FlowInv, NEW n \in Nodes, NEW sub \in Submission, Accept(n, sub)
  PROVE  FlowInv'
<1>1. Readable
  BY DEF Accept
<1>2. PICK t \in Revisions :
        /\ Published = 1..t /\ t \in Published
        /\ Latest = Manifest(t) /\ Good(Manifest(t)) /\ Manifest(t).revision = t
        /\ \A r \in Published : Covered(<<"manifest", r>>)
  BY <1>1, LatestIs
<1>3. PICK m : m = Manifest(t)
  OBVIOUS
<1>4. May(m, n, sub)
  BY <1>2, <1>3 DEF Accept, Accepts, May, MayClose
<1>5. /\ job = NoJob /\ job' = [by |-> n, sub |-> sub, items |-> Writes(m, n, sub)]
      /\ DOMAIN receipt[n] = {} /\ UNCHANGED <<file, receipt, kills, told>>
  BY <1>2, <1>3 DEF Accept, Apply
<1>6. \A r \in Revisions : Manifest(r)' = Manifest(r)
  BY <1>5 DEF Manifest
<1>7. NoLeftovers'
  <2> SUFFICES ASSUME kills = 0 PROVE NoLeftovers'
    BY <1>5 DEF NoLeftovers
  <2>1. \A ref \in Refs : file[ref] # Missing => Listed(ref)
    BY <1>5, AtRest DEF FlowInv, NoLeftovers
  <2>2. DOMAIN Writes(m, n, sub) = Written(m, n, sub) /\ DOMAIN Writes(m, n, sub) \subseteq Refs
    BY <1>2, <1>3, <1>4, WritesOf
  <2>3. \A ref \in Written(m, n, sub) : file[ref] = Missing
    <3> SUFFICES ASSUME NEW ref \in Written(m, n, sub), file[ref] # Missing PROVE FALSE
      OBVIOUS
    <3>1. PICK k \in Keys : ref \in DOMAIN receipt[k]
      BY <2>1, <2>2 DEF Listed
    <3>2. /\ ref[1] = "result" => ref[2] = k
          /\ ref[1] = "review" => k = Governance
          /\ ref[1] = "task" => \E r \in Published : Manifest(r).task[ref[2]] # "absent"
      BY <3>1 DEF FlowInv, ReceiptsOwn
    <3>3. CASE ref = <<"result", n>>
      BY <3>1, <3>2, <3>3, <1>5
    <3>4. CASE ref = <<"manifest", m.revision + 1>>
      <4>1. t + 1 \in Revisions
        BY <1>2, <1>3, <1>4, AdvancedGood
      <4>2. t + 1 \notin Published
        BY <1>2, RefsOf
      <4>3. Manifest(t + 1) = Missing
        BY <4>1, <4>2 DEF Published
      <4>4. ref = <<"manifest", t + 1>>
        BY <3>4, <1>2, <1>3
      <4> QED BY <4>3, <4>4 DEF Manifest
    <3>5. CASE ref \in {"task"} \X NewTasks(m, n, sub)
      <4>1. PICK w \in NewTasks(m, n, sub) : ref = <<"task", w>>
        BY <3>5
      <4>2. w \in Nodes /\ m.task[w] = "absent"
        <5>1. m \in Manifests /\ m.task[n] = "queued"
          BY <1>2, <1>3, <1>4 DEF Good, May
        <5> QED BY <4>1, <5>1, NewAreReady
      <4>3. PICK r \in Published : Manifest(r).task[w] # "absent"
        BY <3>2, <4>1
      <4>4. r <= t
        BY <1>2, RefsOf
      <4> QED BY <4>2, <4>3, <4>4, <1>2, <1>3 DEF FlowInv, Chained
    <3>6. CASE Closes(n, sub) /\ ref = <<"review", Producer>>
      BY <3>1, <3>2, <3>6, <1>5 DEF Closes
    <3> QED BY <3>3, <3>4, <3>5, <3>6 DEF Written
  <2> QED BY <2>1, <2>2, <2>3, <1>5 DEF NoLeftovers, Listed
<1>8. told \subseteq told' /\ kills' \in Nat /\ UNCHANGED receipt
  BY <1>5 DEF FlowInv
<1> QED BY <1>6, <1>7, <1>8, SameManifests DEF FlowInv

LEMMA FlowReplay ==
  ASSUME RunInv, FlowInv, NEW n \in Nodes, NEW sub \in Submission, Replay(n, sub)
  PROVE  FlowInv'
<1>1. UNCHANGED <<file, receipt, job, kills>> /\ told \subseteq told'
  BY DEF Replay
<1>2. \A r \in Revisions : Manifest(r)' = Manifest(r)
  BY <1>1 DEF Manifest
<1>3. NoLeftovers'
  BY <1>1 DEF FlowInv, NoLeftovers, Listed
<1> QED BY <1>1, <1>2, <1>3, SameManifests DEF FlowInv

\* Other bytes are met, or the call is killed, only once a kill has been.
LEMMA FlowEnd ==
  ASSUME RunInv, FlowInv, Killed \/ \E ref \in DOMAIN job.items : Conflict(ref)
  PROVE  FlowInv'
<1>1. UNCHANGED <<file, receipt, told>> /\ kills' \in Nat
  BY DEF Killed, Conflict, FlowInv
<1>2. \A r \in Revisions : Manifest(r)' = Manifest(r)
  BY <1>1 DEF Manifest
<1>3. kills' # 0
  <2>1. CASE Killed
    BY <2>1 DEF Killed, FlowInv
  <2>2. ASSUME NEW ref \in DOMAIN job.items, Conflict(ref) PROVE kills' # 0
    <3>1. file[ref] # job.items[ref] /\ file[ref] # Missing /\ kills' = kills
      BY <2>2 DEF Conflict, Due, Pending
    <3> QED BY <3>1 DEF FlowInv, NoLeftovers
  <2> QED BY <2>1, <2>2
<1> QED BY <1>1, <1>2, <1>3, SameManifests DEF FlowInv, NoLeftovers

LEMMA FlowFinish == ASSUME RunInv, RunInv', FlowInv, Finish PROVE FlowInv'
<1>1. /\ job # NoJob /\ Pending = {} /\ job' = NoJob /\ UNCHANGED <<file, kills>>
      /\ receipt' = [receipt EXCEPT ![job.by] = job.items]
      /\ told' = IF job.by \in Nodes THEN told \cup {[node |-> job.by, sub |-> job.sub]}
                 ELSE told
  BY DEF Finish
<1>2. job.by \in Keys /\ DOMAIN receipt[job.by] = {}
  BY <1>1, JobTyped
<1>3. \A ref \in DOMAIN job.items : file[ref] = job.items[ref]
  BY <1>1 DEF Pending
<1>4. /\ receipt'[job.by] = job.items
      /\ \A k \in Keys : k # job.by => receipt'[k] = receipt[k]
  BY <1>1, <1>2 DEF RunInv, RunTypeOK
<1>5. \A ref : Listed(ref)' <=> Listed(ref) \/ ref \in DOMAIN job.items
  BY <1>2, <1>4 DEF Listed
<1>6. /\ \A r \in Revisions : Manifest(r)' = Manifest(r)
      /\ Published' = Published /\ Published \subseteq Revisions
  BY <1>1 DEF Manifest, Published
<1>7. Orders' /\ Chained'
  BY <1>6 DEF FlowInv, Orders, Chained
<1>8. NoLeftovers'
  <2> SUFFICES ASSUME kills = 0 PROVE NoLeftovers'
    BY <1>1 DEF NoLeftovers
  <2>1. \A ref \in Refs : file[ref] # Missing => Listed(ref)'
    BY <1>5 DEF FlowInv, NoLeftovers
  <2> QED BY <2>1, <1>1, AtRest DEF NoLeftovers
<1>9. kills' \in Nat
  BY <1>1 DEF FlowInv
<1>10. CASE Starting
  <2>1. /\ job.by = Coordinator /\ Coordinator \notin Nodes /\ job.items = Started
        /\ DOMAIN job.items = ({"task"} \X Roots) \cup {<<"manifest", 1>>}
    BY <1>10, StartedIs, RouteAssumption DEF Starting
  <2>2. Manifest(1) = FirstManifest /\ 1 \in Published
    <3>1. <<"manifest", 1>> \in DOMAIN job.items /\ job.items[<<"manifest", 1>>] = FirstManifest
      BY <2>1, StartedIs
    <3> QED BY <3>1, <1>3, FirstGood, MissingAssumption DEF Manifest, Published, Good
  <2>3. PinsListed'
    <3> SUFFICES ASSUME NEW r \in Published, Listed(<<"manifest", r>>)', NEW n \in Nodes
                 PROVE  /\ Manifest(r).task[n] # "absent" => Listed(<<"task", n>>)'
                        /\ Manifest(r).result[n] # Missing => Listed(<<"result", n>>)'
      BY <1>6 DEF PinsListed
    <3>1. CASE Listed(<<"manifest", r>>)
      BY <3>1, <1>5 DEF FlowInv, PinsListed
    <3>2. CASE <<"manifest", r>> \in DOMAIN job.items
      <4>1. r = 1
        BY <3>2, <2>1
      <4>2. Manifest(r).task[n] # "absent" => n \in Roots
        BY <4>1, <2>2, FirstGood
      <4>3. Manifest(r).result[n] = Missing
        BY <4>1, <2>2, FirstGood
      <4> QED BY <4>2, <4>3, <2>1, <1>5
    <3> QED BY <3>1, <3>2, <1>5
  <2>4. ReceiptsOwn'
    <3>1. told' = told /\ \A n \in Nodes : receipt'[n] = receipt[n]
      BY <2>1, <1>1, <1>4 DEF Keys
    <3>2. <<"manifest", 1>> \in DOMAIN receipt'[Coordinator]
      BY <2>1, <1>4
    <3>3. ASSUME NEW k \in Keys, NEW ref \in DOMAIN receipt'[k]
          PROVE  /\ ref[1] = "result" => ref[2] = k
                 /\ ref[1] = "review" => k = Governance
                 /\ ref[1] = "task" => \E r \in Published : Manifest(r).task[ref[2]] # "absent"
      <4>1. CASE k # job.by
        BY <4>1, <3>3, <1>4 DEF FlowInv, ReceiptsOwn
      <4>2. CASE k = job.by
        <5>1. ref \in DOMAIN job.items
          BY <4>2, <3>3, <1>4
        <5>2. CASE ref = <<"manifest", 1>>
          BY <5>2
        <5>3. CASE ref \in {"task"} \X Roots
          <6>1. ref[1] = "task" /\ ref[2] \in Roots /\ Roots \subseteq Nodes
            BY <5>3, FirstGood
          <6>2. Manifest(1).task[ref[2]] = "queued"
            BY <6>1, <2>2, FirstGood
          <6> QED BY <6>1, <6>2, <2>2
        <5> QED BY <5>1, <5>2, <5>3, <2>1
      <4> QED BY <4>1, <4>2
    <3> QED BY <3>1, <3>2, <3>3, <1>6 DEF FlowInv, ReceiptsOwn
  <2> QED BY <2>3, <2>4, <1>7, <1>8, <1>9 DEF FlowInv
<1>11. ASSUME NEW n \in Nodes, NEW sub \in Submission, NEW r \in Revisions, Advancing(n, sub, r)
       PROVE  FlowInv'
  <2>1. PICK m : m = Manifest(r)
    OBVIOUS
  <2>2. /\ Good(m) /\ m.revision = r /\ May(m, n, sub) /\ job.by = n /\ job.sub = sub
        /\ job.items = Writes(m, n, sub) /\ r \in Published /\ Covered(<<"manifest", r>>)
    BY <2>1, <1>11 DEF Advancing, RunInv, ManifestsGood
  <2>3. PICK a : a = Advanced(m, n, sub)
    OBVIOUS
  <2>4. /\ DOMAIN job.items = Written(m, n, sub) /\ r + 1 \in Revisions
        /\ job.items[<<"manifest", r + 1>>] = a /\ Good(a)
    BY <2>2, <2>3, WritesOf, AdvancedGood
  <2>5. Manifest(r + 1) = a /\ r + 1 \in Published
    <3>1. <<"manifest", r + 1>> \in DOMAIN job.items
      BY <2>2, <2>4 DEF Written
    <3> QED BY <3>1, <2>4, <1>3, MissingAssumption DEF Manifest, Published, Good
  <2>6. /\ \A k \in Nodes : a.task[k] = IF k \in NewTasks(m, n, sub) THEN "queued"
                                         ELSE IF k = n THEN sub.outcome ELSE m.task[k]
        /\ \A k \in Nodes : a.result[k] = IF k = n THEN sub ELSE m.result[k]
        /\ NewTasks(m, n, sub) \subseteq Nodes /\ m.task[n] = "queued"
    <3>1. m \in Manifests /\ m.task[n] = "queued"
      BY <2>2 DEF Good, May
    <3> QED BY <3>1, <2>3, NextTasks, NewAreReady
  <2>7. PinsListed'
    <3> SUFFICES ASSUME NEW q \in Published, Listed(<<"manifest", q>>)', NEW k \in Nodes
                 PROVE  /\ Manifest(q).task[k] # "absent" => Listed(<<"task", k>>)'
                        /\ Manifest(q).result[k] # Missing => Listed(<<"result", k>>)'
      BY <1>6 DEF PinsListed
    <3>1. CASE Listed(<<"manifest", q>>)
      BY <3>1, <1>5 DEF FlowInv, PinsListed
    <3>2. CASE <<"manifest", q>> \in DOMAIN job.items
      <4>1. q = r + 1
        BY <3>2, <2>2, <2>4 DEF Written
      <4>2. /\ m.task[k] # "absent" => Listed(<<"task", k>>)
            /\ m.result[k] # Missing => Listed(<<"result", k>>)
        <5>1. Listed(<<"manifest", r>>)
          BY <2>2, CoveredIsListed
        <5> QED BY <5>1, <2>1, <2>2 DEF FlowInv, PinsListed
      <4>3. /\ k \in NewTasks(m, n, sub) => <<"task", k>> \in DOMAIN job.items
            /\ <<"result", n>> \in DOMAIN job.items
        BY <2>4 DEF Written
      <4> QED BY <4>1, <4>2, <4>3, <2>5, <2>6, <1>5
    <3> QED BY <3>1, <3>2, <1>5
  <2>8. ReceiptsOwn'
    <3>1. Coordinator # n /\ told' = told \cup {[node |-> n, sub |-> sub]}
      BY <2>2, <1>1, RouteAssumption
    <3>2. \A k \in Nodes : DOMAIN receipt'[k] # {} => \E x \in told' : x.node = k
      <4> SUFFICES ASSUME NEW k \in Nodes, DOMAIN receipt'[k] # {}
                   PROVE  \E x \in told' : x.node = k
        OBVIOUS
      <4>1. CASE k = n
        <5>1. [node |-> n, sub |-> sub] \in told' /\ [node |-> n, sub |-> sub].node = k
          BY <4>1, <3>1
        <5> QED BY <5>1
      <4>2. CASE k # n
        <5>1. receipt'[k] = receipt[k]
          BY <4>2, <2>2, <1>4 DEF Keys
        <5> QED BY <5>1, <3>1 DEF FlowInv, ReceiptsOwn
      <4> QED BY <4>1, <4>2
    <3>3. DOMAIN receipt'[Coordinator] # {} => <<"manifest", 1>> \in DOMAIN receipt'[Coordinator]
      BY <3>1, <2>2, <1>4 DEF FlowInv, ReceiptsOwn, Keys
    <3>4. ASSUME NEW k \in Keys, NEW ref \in DOMAIN receipt'[k]
          PROVE  /\ ref[1] = "result" => ref[2] = k
                 /\ ref[1] = "review" => k = Governance
                 /\ ref[1] = "task" => \E q \in Published : Manifest(q).task[ref[2]] # "absent"
      <4>1. CASE k # job.by
        BY <4>1, <3>4, <1>4 DEF FlowInv, ReceiptsOwn
      <4>2. CASE k = job.by
        <5>1. ref \in Written(m, n, sub) /\ k = n
          BY <4>2, <3>4, <2>2, <2>4, <1>4
        <5>2. CASE ref = <<"manifest", m.revision + 1>>
          BY <5>2
        <5>3. CASE ref = <<"result", n>>
          BY <5>1, <5>3
        <5>4. CASE ref \in {"task"} \X NewTasks(m, n, sub)
          <6>1. ref[1] = "task" /\ ref[2] \in NewTasks(m, n, sub)
            BY <5>4
          <6>2. Manifest(r + 1).task[ref[2]] = "queued"
            BY <6>1, <2>5, <2>6
          <6> QED BY <6>1, <6>2, <2>5
        <5>5. CASE Closes(n, sub) /\ ref = <<"review", Producer>>
          BY <5>1, <5>5 DEF Closes
        <5> QED BY <5>1, <5>2, <5>3, <5>4, <5>5 DEF Written
      <4> QED BY <4>1, <4>2
    <3> QED BY <3>2, <3>3, <3>4, <1>6 DEF ReceiptsOwn
  <2> QED BY <2>7, <2>8, <1>7, <1>8, <1>9 DEF FlowInv
<1> QED BY <1>1, <1>10, <1>11 DEF RunInv, JobFits

\* The next manifest is in order, and keeps what was queued before.
LEMMA FlowManifest ==
  ASSUME RunInv, FlowInv, UNCHANGED <<receipt, told>>,
         NEW r \in Revisions, NEW c, Orderly(c), Manifest(r) = Missing, Manifest(r)' = c,
         c # Missing,
         \A q \in Revisions \ {r} : Manifest(q)' = Manifest(q),
         \A q \in Published : q <= r /\ \A n \in Nodes :
           Manifest(q).task[n] # "absent" => c.task[n] # "absent"
  PROVE  (Orders /\ Chained /\ PinsListed /\ ReceiptsOwn)'
<1>1. Published' = Published \cup {r} /\ r \notin Published /\ Published \subseteq Revisions
  BY DEF Published
<1>2. \A q \in Published : Manifest(q)' = Manifest(q)
  BY <1>1
<1>3. \A ref : Listed(ref)' = Listed(ref)
  BY DEF Listed
<1>4. Orders'
  BY <1>1, <1>2 DEF FlowInv, Orders
<1>5. Chained'
  <2> SUFFICES ASSUME NEW p \in Published', NEW q \in Published', p <= q, NEW n \in Nodes,
                      Manifest(p)'.task[n] # "absent"
               PROVE  Manifest(q)'.task[n] # "absent"
    BY DEF Chained
  <2>1. CASE p = q
    BY <2>1
  <2>2. CASE p # q /\ p = r
    BY <2>2, <1>1, RefsOf
  <2>3. CASE p # q /\ p # r /\ q = r
    BY <2>3, <1>1, <1>2
  <2>4. CASE p # r /\ q # r
    BY <2>4, <1>1, <1>2 DEF FlowInv, Chained
  <2> QED BY <2>1, <2>2, <2>3, <2>4
<1>6. PinsListed'
  <2>1. ~Listed(<<"manifest", r>>)
    BY UnlistedIs DEF Unlisted, Listed
  <2> QED BY <2>1, <1>1, <1>2, <1>3 DEF FlowInv, PinsListed
<1>7. ReceiptsOwn'
  BY <1>1, <1>2 DEF FlowInv, ReceiptsOwn
<1> QED BY <1>4, <1>5, <1>6, <1>7

LEMMA FlowPublish ==
  ASSUME RunInv, FlowInv, NEW ref \in DOMAIN job.items, Publish(ref)
  PROVE  FlowInv'
<1>1. /\ job # NoJob /\ ref \in Refs /\ UNCHANGED <<receipt, job, told, kills>>
      /\ file[ref] = Missing /\ file'[ref] = job.items[ref]
      /\ \A x \in Refs : x # ref => file'[x] = file[x]
  BY PublishTypes DEF Publish
<1>2. NoLeftovers'
  <2> SUFFICES ASSUME kills = 0 PROVE NoLeftovers'
    BY <1>1 DEF NoLeftovers
  <2>1. \A x \in Refs : file'[x] # Missing =>
          Listed(x)' \/ (x \in DOMAIN job.items /\ file'[x] = job.items[x])
    BY <1>1 DEF FlowInv, NoLeftovers, Listed
  <2>2. ASSUME NEW x \in DOMAIN job.items PROVE file'[x] \in {Missing, job.items[x]}
    <3>1. x \in Refs
      BY <1>1, JobTyped DEF ItemsTyped
    <3> QED BY <3>1, <1>1 DEF FlowInv, NoLeftovers
  <2> QED BY <2>1, <2>2, <1>1 DEF NoLeftovers
<1>3. kills' \in Nat
  BY <1>1 DEF FlowInv
<1>4. CASE ref[1] # "manifest"
  <2>1. \A r \in Revisions : Manifest(r)' = Manifest(r)
    <3> SUFFICES ASSUME NEW r \in Revisions PROVE file'[<<"manifest", r>>] = file[<<"manifest", r>>]
      BY DEF Manifest
    <3>1. <<"manifest", r>>[1] = "manifest" /\ <<"manifest", r>> \in Refs
      BY RefsOf
    <3> QED BY <3>1, <1>1, <1>4
  <2>2. told \subseteq told'
    BY <1>1
  <2> QED BY <2>1, <2>2, <1>1, <1>2, <1>3, SameManifests DEF FlowInv
<1>5. CASE ref[1] = "manifest" /\ Starting
  <2>1. ref = <<"manifest", 1>> /\ job.items[ref] = FirstManifest /\ 1 \in Revisions
    BY <1>5, StartedIs, FirstGood DEF Starting
  <2>2. /\ Manifest(1) = Missing /\ Manifest(1)' = FirstManifest
        /\ \A q \in Revisions \ {1} : Manifest(q)' = Manifest(q)
    BY <2>1, <1>1, RefsOf DEF Manifest
  <2>3. Published = {}
    <3>1. PICK t \in 0..(Cardinality(Nodes) + 1) : Published = 1..t
      BY DEF RunInv, Line
    <3>2. 1 \notin Published /\ t \in Nat
      BY <2>2, Constants DEF Published
    <3> QED BY <3>1, <3>2
  <2>4. FirstManifest # Missing
    BY FirstGood, MissingAssumption DEF Good
  <2>5. (Orders /\ Chained /\ PinsListed /\ ReceiptsOwn)'
    <3> HIDE DEF Manifest
    <3> QED BY <2>1, <2>2, <2>3, <2>4, <1>1, FirstOrderly, FlowManifest
  <2> QED BY <2>5, <1>2, <1>3 DEF FlowInv
<1>6. ASSUME ref[1] = "manifest",
             NEW n \in Nodes, NEW sub \in Submission, NEW r \in Revisions, Advancing(n, sub, r)
      PROVE  FlowInv'
  <2>1. PICK m : m = Manifest(r)
    OBVIOUS
  <2>2. /\ Good(m) /\ m.revision = r /\ May(m, n, sub) /\ job.items = Writes(m, n, sub)
        /\ r \in Published /\ Published \subseteq 1..(r + 1)
    BY <2>1, <1>6 DEF Advancing, RunInv, ManifestsGood
  <2>3. PICK a : a = Advanced(m, n, sub)
    OBVIOUS
  <2>4. Orderly(m)
    BY <2>1, <2>2 DEF FlowInv, Orders
  <2>5. PICK x : x = r + 1
    OBVIOUS
  <2>6. /\ DOMAIN job.items = Written(m, n, sub) /\ x \in Revisions
        /\ job.items[<<"manifest", x>>] = a /\ Good(a) /\ Orderly(a)
    BY <2>2, <2>3, <2>4, <2>5, WritesOf, AdvancedGood, AdvancedOrderly
  <2>7. ref = <<"manifest", x>>
    BY <1>6, <2>2, <2>5, <2>6 DEF Written
  <2>8. /\ Manifest(x) = Missing /\ Manifest(x)' = a /\ a # Missing
        /\ \A q \in Revisions \ {x} : Manifest(q)' = Manifest(q)
    BY <2>6, <2>7, <1>1, RefsOf, MissingAssumption DEF Manifest, Good
  <2>9. ASSUME NEW q \in Published
        PROVE  q <= x /\ \A k \in Nodes : Manifest(q).task[k] # "absent" => a.task[k] # "absent"
    <3>1. q \in Nat /\ r \in Nat /\ q <= x /\ q # x
      BY <2>2, <2>5, <2>8, RefsOf DEF Published
    <3>2. q <= r
      BY <3>1, <2>5
    <3>3. \A k \in Nodes : Manifest(q).task[k] # "absent" => m.task[k] # "absent"
      BY <3>2, <2>1, <2>2 DEF FlowInv, Chained
    <3>4. \A k \in Nodes : m.task[k] # "absent" => a.task[k] # "absent"
      <4>1. m \in Manifests /\ sub.outcome # "absent"
        BY <2>2, Constants DEF Good, May, Submission
      <4>2. \A k \in Nodes : a.task[k] = IF k \in NewTasks(m, n, sub) THEN "queued"
                                          ELSE IF k = n THEN sub.outcome ELSE m.task[k]
        BY <4>1, <2>3, NextTasks
      <4> QED BY <4>1, <4>2
    <3> QED BY <3>1, <3>3, <3>4
  <2>10. (Orders /\ Chained /\ PinsListed /\ ReceiptsOwn)'
    <3> HIDE DEF Manifest
    <3> QED BY <2>6, <2>8, <2>9, <1>1, FlowManifest
  <2> QED BY <2>10, <1>2, <1>3 DEF FlowInv
<1> QED BY <1>1, <1>4, <1>5, <1>6 DEF RunInv, JobFits

LEMMA FlowStep == RunInv /\ RunInv' /\ FlowInv /\ [Next]_vars => FlowInv'
<1> SUFFICES ASSUME RunInv, RunInv', FlowInv, [Next]_vars PROVE FlowInv'
  OBVIOUS
<1>1. CASE Prepare
  BY <1>1, FlowPrepare
<1>2. CASE Finish
  BY <1>2, FlowFinish
<1>3. ASSUME NEW ref \in DOMAIN job.items, Publish(ref) PROVE FlowInv'
  BY <1>3, FlowPublish
<1>4. CASE Killed \/ \E ref \in DOMAIN job.items : Conflict(ref)
  BY <1>4, FlowEnd
<1>5. ASSUME NEW n \in Nodes, NEW sub \in Submission, Accept(n, sub) PROVE FlowInv'
  BY <1>5, FlowAccept
<1>6. ASSUME NEW n \in Nodes, NEW sub \in Submission, Replay(n, sub) PROVE FlowInv'
  BY <1>6, FlowReplay
<1>7. CASE UNCHANGED vars
  <2>1. UNCHANGED <<file, receipt, told, job, kills>>
    BY <1>7 DEF vars
  <2>2. \A r \in Revisions : Manifest(r)' = Manifest(r)
    BY <2>1 DEF Manifest
  <2>3. NoLeftovers' /\ told \subseteq told' /\ kills' \in Nat
    BY <2>1 DEF FlowInv, NoLeftovers, Listed
  <2> QED BY <2>1, <2>2, <2>3, SameManifests DEF FlowInv
<1> QED BY <1>1, <1>2, <1>3, <1>4, <1>5, <1>6, <1>7 DEF Next, Writer, Submit

LEMMA FlowInvariance == Spec => [](RunInv /\ FlowInv)
BY Invariance, FlowInit, FlowStep, PTL DEF Spec

\* What is in hand is accepted.
LEMMA OpenGoesOn ==
  ASSUME RunInv, FlowInv, job = NoJob, Readable, TakesResults(Latest)
  PROVE  /\ Queued(Latest) # {}
         /\ \A n \in Queued(Latest), sub \in Submission :
              Accepts(Latest, n, sub) /\ DOMAIN receipt[n] = {}
<1>1. PICK t \in Revisions :
        /\ Published = 1..t /\ t \in Published
        /\ Latest = Manifest(t) /\ Good(Manifest(t)) /\ Manifest(t).revision = t
        /\ \A r \in Published : Covered(<<"manifest", r>>)
  BY LatestIs
<1>2. PICK m : m = Latest
  OBVIOUS
<1>3. Good(m) /\ Orderly(m) /\ TakesResults(m) /\ m = Manifest(t)
  BY <1>1, <1>2 DEF FlowInv, Orders
<1>4. /\ \A k \in Nodes : m.task[k] # "absent" => file[<<"task", k>>] = m.stamp[k]
      /\ \A k \in Nodes : m.result[k] # Missing => file[<<"result", k>>] = m.result[k]
  BY <1>1, <1>3 DEF RunInv, PinsHold
<1>5. /\ \A k \in Nodes : m.task[k] # "absent" => Covered(<<"task", k>>)
      /\ \A k \in Nodes : m.result[k] # Missing => Covered(<<"result", k>>)
  BY <1>1, <1>3, CoveredIsListed DEF FlowInv, PinsListed
<1>6. \A k \in Completed(m) : ResultLoads(m, k)
  BY <1>3, <1>4, <1>5 DEF ResultLoads, Completed, Good
<1>7. Queued(m) # {}
  BY <1>3 DEF Orderly
<1>8. ASSUME NEW n \in Queued(m), NEW sub \in Submission
      PROVE  Accepts(m, n, sub) /\ DOMAIN receipt[n] = {}
  <2>1. n \in Nodes /\ m.task[n] = "queued" /\ m \in Manifests
    BY <1>3 DEF Queued, Good
  <2>2. TaskLoads(m, n)
    BY <2>1, <1>4, <1>5 DEF TaskLoads
  <2>3. ASSUME NEW w \in NewTasks(m, n, sub), NEW d \in Inputs(w, n) PROVE ResultLoads(m, d)
    <3> DEFINE a == Advanced(m, n, sub)
    <3>1. /\ \A k \in Nodes : a.task[k] = IF k \in NewTasks(m, n, sub) THEN "queued"
                                           ELSE IF k = n THEN sub.outcome ELSE m.task[k]
          /\ Deps[w] \subseteq Completed(a)
      BY <2>1, NextTasks, NewAreReady
    <3>2. d \in Completed(a) /\ d # n
      BY <3>1, <2>3 DEF Inputs
    <3> HIDE DEF a
    <3>3. d \in Completed(m)
      BY <3>1, <3>2 DEF Completed
    <3> QED BY <3>3, <1>6
  <2>4. GoesOn(m, n, sub)
    BY <1>3, RouteGoesOn
  <2>5. MayClose(m, n, sub)
    <3> SUFFICES ASSUME Closes(n, sub)
                 PROVE  Completed(Advanced(m, n, sub)) = Nodes /\ ResultLoads(m, Producer)
      BY DEF MayClose
    <3>1. Completed(Advanced(m, n, sub)) = Nodes
      BY <1>3, GovernanceComesLast
    <3>2. Producer \in Completed(m)
      BY <2>1, <1>3, RouteAssumption DEF Closes, Orderly
    <3> QED BY <3>1, <3>2, <1>6
  <2>6. DOMAIN receipt[n] = {}
    <3> SUFFICES ASSUME DOMAIN receipt[n] # {} PROVE FALSE
      OBVIOUS
    <3>1. PICK a \in told : a.node = n
      BY <2>1 DEF FlowInv, ReceiptsOwn
    <3>2. PICK r \in Published : \A q \in Published : q >= r => Manifest(q).result[n] = a.sub
      BY <3>1 DEF RunInv, Answered
    <3>3. t >= r
      BY <1>1, RefsOf
    <3>4. m.result[n] = a.sub /\ a.sub \in Submission
      BY <3>2, <3>3, <1>1, <1>3 DEF RunInv, RunTypeOK
    <3> QED BY <3>4, <2>1, <1>3, MissingAssumption DEF Good
  <2> QED BY <2>1, <2>2, <2>3, <2>4, <2>5, <2>6, <1>3 DEF Accepts
<1> QED BY <1>2, <1>7, <1>8

\* A run that nothing has killed always has somewhere to go (run_engine.py,
\* coordinator.py): the checks that refuse to advance or to close never fire,
\* and no earlier write is in the way.
THEOREM RunsNeverStall == Spec => []NeverStalls
<1>1. ASSUME RunInv, FlowInv PROVE NeverStalls
  <2>1. ASSUME kills = 0, job = NoJob, DOMAIN receipt[Coordinator] # {} PROVE Readable
    <3>1. \A ref \in Refs : file[ref] # Missing => Covered(ref)
      BY <1>1, <2>1, AtRest, CoveredIsListed DEF FlowInv, NoLeftovers
    <3>2. PICK t \in 0..(Cardinality(Nodes) + 1) : Published = 1..t
      BY <1>1 DEF RunInv, Line
    <3>3. \A r \in Published : Covered(<<"manifest", r>>)
      BY <3>1, RefsOf DEF Published, Manifest
    <3>4. 1 \in Published
      <4>1. <<"manifest", 1>> \in DOMAIN receipt[Coordinator]
        BY <1>1, <2>1 DEF FlowInv, ReceiptsOwn
      <4>2. ~Unlisted(1) /\ 1 \in Revisions
        BY <4>1, FirstGood DEF Unlisted, Keys
      <4> QED BY <4>2, <1>1, UnlistedIs DEF Published
    <3>5. \A r \in Published : r > 1 => r - 1 \in Published
      BY <3>2, Constants
    <3> QED BY <3>3, <3>4, <3>5 DEF Readable
  <2>2. ASSUME kills = 0, NEW ref \in Pending PROVE file[ref] = Missing
    BY <1>1, <2>2 DEF FlowInv, NoLeftovers, Pending
  <2> QED BY <1>1, <2>1, <2>2, OpenGoesOn DEF NeverStalls, LeftoversInert
<1> QED BY <1>1, FlowInvariance, PTL

-----------------------------------------------------------------------------
(* A run is a RouteRun *)

LEMMA ShownIs ==
  ASSUME NEW s \in Nat, Receipted = 1..s
  PROVE  /\ s = 0 => Shown = [status |-> "absent", task |-> NoTasks]
         /\ s > 0 => Shown = Manifest(s)
<1>1. CASE s = 0
  BY <1>1 DEF Shown
<1>2. CASE s > 0
  <2>1. s \in Receipted /\ Receipted # {} /\ \A q \in Receipted : q <= s
    BY <1>2
  <2>2. ASSUME NEW r \in Receipted, \A q \in Receipted : q <= r PROVE r = s
    <3>1. r \in 1..s /\ s <= r
      BY <2>1, <2>2
    <3> QED BY <3>1
  <2>3. (CHOOSE r \in Receipted : \A q \in Receipted : q <= r) = s
    BY <2>1, <2>2
  <2>4. Shown = Manifest(CHOOSE r \in Receipted : \A q \in Receipted : q <= r)
    BY <2>1 DEF Shown
  <2> QED BY <1>2, <2>3, <2>4
<1> QED BY <1>1, <1>2

\* Only a receipt changes what is seen.
LEMMA ShownKept ==
  ASSUME RunInv, Grows, UNCHANGED receipt
  PROVE  Shown' = Shown
<1>1. \A r \in Published : r \in Published' /\ Manifest(r)' = Manifest(r) /\ r \in Revisions
  BY ManifestLasts DEF Published
<1>2. ASSUME NEW r \in Receipted PROVE r \in Receipted' /\ Manifest(r)' = Manifest(r)
  BY <1>1, RefsOf, CoveredLasts DEF Receipted, RunInv
<1>3. ASSUME NEW r \in Receipted' PROVE r \in Receipted
  <2>1. r \in Revisions /\ Covered(<<"manifest", r>>)'
    BY DEF Receipted, Published
  <2>2. PICK k \in Keys : <<"manifest", r>> \in DOMAIN receipt[k]
    BY <2>1 DEF Covered, RunInv, RunTypeOK
  <2>3. Manifest(r) # Missing
    BY <2>1, <2>2, UnlistedIs DEF Unlisted
  <2>4. Covered(<<"manifest", r>>)
    BY <2>2 DEF Covered, RunInv, RunTypeOK, ReceiptsTrue
  <2> QED BY <2>1, <2>3, <2>4 DEF Receipted, Published
<1>4. Receipted' = Receipted /\ \A r \in Receipted : Manifest(r)' = Manifest(r)
  BY <1>2, <1>3
<1>5. CASE Receipted = {}
  BY <1>4, <1>5 DEF Shown
<1>6. CASE Receipted # {}
  <2>1. PICK t \in 0..(Cardinality(Nodes) + 1) : Line(t)
    BY DEF RunInv
  <2>2. \E s \in Nat : Receipted = 1..s
    <3>1. t \in Nat
      BY Constants
    <3>2. Receipted \subseteq 1..t
      BY <2>1 DEF Line, Receipted
    <3>3. 1..(t - 1) \subseteq Receipted
      <4>1. \A r \in 1..(t - 1) : Covered(<<"manifest", r>>)
        BY <2>1 DEF Line
      <4>2. \A r \in 1..(t - 1) : r \in 1..t
        BY <3>1
      <4>3. Published = 1..t
        BY <2>1 DEF Line
      <4> QED BY <4>1, <4>2, <4>3 DEF Receipted
    <3>4. CASE t \in Receipted
      <4>1. \A r \in 1..t : r = t \/ r \in 1..(t - 1)
        BY <3>1
      <4>2. Receipted = 1..t
        BY <3>2, <3>3, <3>4, <4>1
      <4> QED BY <4>2, <3>1
    <3>5. CASE t \notin Receipted
      <4>1. t # 0
        <5>1. 1..0 = {}
          OBVIOUS
        <5> QED BY <5>1, <3>2, <1>6
      <4>2. t - 1 \in Nat /\ \A r \in 1..t : r = t \/ r \in 1..(t - 1)
        BY <4>1, <3>1
      <4>3. Receipted = 1..(t - 1)
        BY <3>2, <3>3, <3>5, <4>2
      <4> QED BY <4>2, <4>3
    <3> QED BY <3>4, <3>5
  <2>3. PICK s \in Nat : Receipted = 1..s
    BY <2>2
  <2>4. s > 0 /\ s \in Receipted
    BY <2>3, <1>6
  <2>5. Shown = Manifest(s)
    BY <2>3, <2>4, ShownIs
  <2>6. (CHOOSE r \in Receipted : \A q \in Receipted : q <= r) \in Receipted
    <3>1. \A q \in Receipted : q <= s
      BY <2>3
    <3> QED BY <3>1, <2>4
  <2> QED BY <1>4, <1>6, <2>6 DEF Shown
<1> QED BY <1>5, <1>6

LEMMA SameCount == \A S : Seen!Cardinality(S) = Cardinality(S)
BY DEF Seen!Cardinality, Cardinality

\* The receipt of prepare_run begins the run.
LEMMA BeginSeen ==
  ASSUME Shown = [status |-> "absent", task |-> NoTasks], Shown' = FirstManifest
  PROVE  Seen!Begin
<1>1. /\ Good(FirstManifest) /\ Roots \subseteq {n \in Nodes : Deps[n] = {}}
      /\ FirstManifest.task = [n \in Nodes |-> IF n \in Roots THEN "queued" ELSE "absent"]
      /\ FirstManifest.status = "queued"
  BY FirstGood
<1>2. PICK f : f = FirstManifest
  OBVIOUS
<1>3. Shown.task = NoTasks /\ Shown.status = "absent" /\ Shown'.task = f.task /\ Shown'.status = "queued"
  BY <1>1, <1>2
<1>4. Phase(Shown.status) = "absent" /\ Phase(Shown.status)' = "open"
  BY <1>3 DEF Phase
<1>5. f.task \in [Nodes -> {"absent", "queued"}]
  BY <1>1, <1>2
<1>6. Seen!Open(f.task) = Queued(f)
  BY DEF Seen!Open, Queued
<1>7. Seen!Open(f.task) # {} /\ Cardinality(Seen!Open(f.task)) <= Cap
  <2>1. PICK n \in Roots : TRUE
    BY RootsThere
  <2>2. n \in Queued(f)
    BY <2>1, <1>1, <1>2 DEF Queued
  <2> QED BY <2>2, <1>1, <1>2, <1>6 DEF Good
<1>8. Seen!Queues(NoTasks, f.task)
  <2>1. ASSUME NEW n \in Nodes
        PROVE  f.task[n] = "absent" \/ (f.task[n] = "queued" /\ Deps[n] \subseteq Seen!Done(f.task))
    BY <1>1, <1>2
  <2> QED BY <2>1, <1>7, SameCount DEF Seen!Queues
<1> QED BY <1>3, <1>4, <1>5, <1>7, <1>8 DEF Seen!Begin

\* The receipt of an accepted submission ends its node.
LEMMA AdvanceSeen ==
  ASSUME NEW m, NEW n, NEW sub, Good(m), May(m, n, sub),
         Shown = m, Shown' = Advanced(m, n, sub)
  PROVE  Seen!RunNext
<1>1. PICK c : c = Advanced(m, n, sub)
  OBVIOUS
<1>2. /\ n \in Nodes /\ sub \in Submission /\ m.task[n] = "queued" /\ m \in Manifests
      /\ TakesResults(m)
      /\ Closes(n, sub) => Completed(c) = Nodes
      /\ sub.outcome = "completed" /\ n # Governance => Queued(c) # {}
  BY <1>1 DEF May, Good, GoesOn
<1>3. Good(c)
  BY <1>1, AdvancedGood
<1> DEFINE new == NewTasks(m, n, sub)
<1>4. /\ \A k \in Nodes : c.task[k] = IF k \in new THEN "queued"
                                     ELSE IF k = n THEN sub.outcome ELSE m.task[k]
      /\ c.status = Status(n, sub)
  BY <1>1, <1>2, NextTasks
<1>5. /\ new \subseteq {k \in Nodes \ {n} : m.task[k] = "absent"}
      /\ new # {} => sub.outcome = "completed"
      /\ \A k \in new : Deps[k] \subseteq Completed(c)
  BY <1>1, <1>2, NewAreReady
<1> HIDE DEF new
<1>6. /\ sub.outcome \in {"completed", "blocked", "needs_attention", "failed"}
      /\ c.task[n] = sub.outcome
  BY <1>2, <1>4, <1>5, RouteAssumption DEF Submission
<1>7. Seen!Open(c.task) = Queued(c) /\ Seen!Done(c.task) = Completed(c) /\ Seen!Open(m.task) = Queued(m)
  BY DEF Seen!Open, Seen!Done, Queued, Completed
<1>8. Seen!Queues(m.task, c.task)
  <2>1. ASSUME NEW k \in Nodes, m.task[k] = "absent"
        PROVE  c.task[k] = "absent" \/ (c.task[k] = "queued" /\ Deps[k] \subseteq Completed(c))
    BY <2>1, <1>2, <1>4, <1>5
  <2> QED BY <2>1, <1>3, <1>7, SameCount DEF Seen!Queues, Good
<1>9. /\ Shown.task = m.task /\ (Shown.task)' = c.task
      /\ Phase(Shown.status) = Phase(m.status) /\ Phase(Shown.status)' = Phase(c.status)
  BY <1>1 DEF Phase
<1>10. Phase(m.status) = "open"
  <2>1. m.status = "queued" \/ m.status = "running"
    BY <1>2 DEF TakesResults
  <2> QED BY <2>1 DEF Phase
<1>11. Seen!Ends(n)
  BY <1>2, <1>4, <1>5, <1>6, <1>8, <1>9 DEF Seen!Ends, Seen!Ended
<1>12. n \in Seen!Open(Shown.task) \ Seen!Open((Shown.task)')
  BY <1>2, <1>6, <1>7, <1>9 DEF Queued
<1>13. CASE Closes(n, sub)
  <2>1. Phase(c.status) = "awaiting_review"
    BY <1>4, <1>13 DEF Status, Closes, Phase
  <2>2. n = Governance
    BY <1>13 DEF Closes
  <2>3. Seen!Close
    BY <1>2, <1>7, <1>9, <1>10, <1>11, <1>13, <2>1, <2>2 DEF Seen!Close
  <2> QED BY <2>3 DEF Seen!RunNext
<1>14. CASE ~Closes(n, sub) /\ sub.outcome = "completed"
  <2>1. Phase(c.status) = "open"
    BY <1>4, <1>14 DEF Status, Phase
  <2>2. Queued(c) # {}
    BY <1>2, <1>14 DEF Closes
  <2>3. Seen!Advance(n)
    BY <1>6, <1>7, <1>9, <1>10, <1>11, <1>14, <2>1, <2>2 DEF Seen!Advance
  <2> QED BY <2>3, <1>12 DEF Seen!RunNext
<1>15. CASE sub.outcome # "completed"
  <2>1. Phase(c.status) = "closed"
    BY <1>4, <1>6, <1>15 DEF Status, Phase, Closes
  <2>2. \A k \in Nodes : m.task[k] = "absent" => c.task[k] = "absent"
    BY <1>2, <1>4, <1>5, <1>15
  <2>3. Seen!Stop(n)
    BY <1>6, <1>9, <1>10, <1>11, <1>15, <2>1, <2>2 DEF Seen!Stop
  <2> QED BY <2>3, <1>12 DEF Seen!RunNext
<1> QED BY <1>13, <1>14, <1>15

LEMMA FinishSeen == ASSUME RunInv, Finish PROVE Seen!RunNext
<1>1. RunInv'
  BY FinishStep
<1>2. /\ job # NoJob /\ UNCHANGED file
      /\ receipt' = [receipt EXCEPT ![job.by] = job.items]
      /\ \A ref \in DOMAIN job.items : file[ref] = job.items[ref]
  BY DEF Finish, Pending
<1>3. /\ job.by \in Keys /\ DOMAIN receipt[job.by] = {}
      /\ DOMAIN receipt = Keys
  BY <1>2, JobTyped DEF RunInv, RunTypeOK
<1>4. /\ DOMAIN receipt' = Keys /\ receipt'[job.by] = job.items
      /\ \A k \in Keys : k # job.by => receipt'[k] = receipt[k]
  BY <1>2, <1>3
<1>5. Published' = Published /\ \A r \in Revisions : Manifest(r)' = Manifest(r)
  BY <1>2 DEF Published, Manifest
<1>6. ASSUME NEW ref \in Refs
      PROVE  Covered(ref)' <=> Covered(ref) \/ ref \in DOMAIN job.items
  BY <1>2, <1>3, <1>4 DEF Covered
<1>7. PICK t \in 0..(Cardinality(Nodes) + 1) : Line(t)
  BY DEF RunInv
<1>8. t \in Nat /\ Published = 1..t
  BY <1>7, Constants DEF Line
<1>9. \A r \in Published : <<"manifest", r>> \in Refs /\ r \in Revisions
  BY RefsOf DEF Published
<1>10. CASE Starting
  <2>1. job.items = Started /\ Unlisted(1)
    BY <1>10 DEF Starting
  <2>2. <<"manifest", 1>> \in DOMAIN job.items /\ job.items[<<"manifest", 1>>] = FirstManifest
        /\ \A r : <<"manifest", r>> \in DOMAIN job.items => r = 1
    BY <2>1, StartedIs
  <2>3. Manifest(1) = FirstManifest /\ 1 \in Published
    BY <2>2, <1>2, FirstGood, MissingAssumption DEF Manifest, Published, Good
  <2>4. ~Covered(<<"manifest", 1>>)
    BY <2>1, <1>3 DEF Unlisted, Covered
  <2>5. t = 1
    <3>1. t >= 1
      BY <2>3, <1>8
    <3>2. ASSUME t > 1 PROVE FALSE
      <4>1. 1 \in 1..(t - 1)
        BY <3>2, <1>8
      <4> QED BY <4>1, <1>7, <2>4 DEF Line
    <3> QED BY <3>1, <3>2, <1>8
  <2>6. Published = {1}
    BY <2>5, <1>8
  <2>7. Receipted = 1..0
    BY <2>4, <2>6 DEF Receipted
  <2>8. Receipted' = 1..1
    BY <2>2, <2>6, <1>5, <1>6, <1>9 DEF Receipted
  <2>9. Shown = [status |-> "absent", task |-> NoTasks]
    BY <2>7, ShownIs
  <2>10. Shown' = FirstManifest
    <3>1. Shown' = Manifest(1)'
      <4>1. Receipted' # {} /\ Receipted' = {1}
        BY <2>8
      <4>2. (CHOOSE r \in {1} : \A q \in {1} : q <= r) = 1
        OBVIOUS
      <4> QED BY <4>1, <4>2 DEF Shown
    <3> QED BY <3>1, <2>3, <1>5, FirstGood
  <2>11. Seen!Begin
    BY <2>9, <2>10, BeginSeen
  <2> QED BY <2>11 DEF Seen!RunNext
<1>11. ASSUME NEW n \in Nodes, NEW sub \in Submission, NEW r \in Revisions, Advancing(n, sub, r)
       PROVE  Seen!RunNext
  <2>1. PICK m : m = Manifest(r)
    OBVIOUS
  <2>2. /\ Good(m) /\ m.revision = r /\ May(m, n, sub)
        /\ job.items = Writes(m, n, sub) /\ Published \subseteq 1..(r + 1)
        /\ r \in Published /\ Covered(<<"manifest", r>>) /\ Unlisted(r + 1)
    BY <2>1, <1>11 DEF Advancing, RunInv, ManifestsGood
  <2>3. r \in Nat /\ r # 0 /\ r + 1 \in Revisions
    BY <2>2, AdvancedGood, RefsOf
  <2> DEFINE w == Writes(m, n, sub)
  <2>4. /\ DOMAIN w = Written(m, n, sub)
        /\ w[<<"result", n>>] = sub
        /\ \A k \in NewTasks(m, n, sub) : w[<<"task", k>>] = sub.at
        /\ Closes(n, sub) => w[<<"review", Producer>>] = Review(m, sub)
        /\ w[<<"manifest", m.revision + 1>>] = Advanced(m, n, sub)
        /\ ItemsTyped(w)
    BY <2>2, WritesAre
  <2>5. /\ <<"manifest", r + 1>> \in DOMAIN job.items
        /\ job.items[<<"manifest", r + 1>>] = Advanced(m, n, sub)
        /\ \A q : <<"manifest", q>> \in DOMAIN job.items => q = r + 1
    BY <2>2, <2>4 DEF Written
  <2>6. Manifest(r + 1) = Advanced(m, n, sub) /\ r + 1 \in Published
    <3>1. Manifest(r + 1) = Advanced(m, n, sub)
      BY <2>5, <1>2 DEF Manifest
    <3>2. Advanced(m, n, sub) # Missing
      BY <2>2, AdvancedGood, MissingAssumption DEF Good
    <3> QED BY <3>1, <3>2, <2>3 DEF Published
  <2>7. Published = 1..(r + 1) /\ t = r + 1
    <3>1. r + 1 \in 1..t /\ \A q \in 1..t : q <= r + 1
      BY <2>2, <2>3, <2>6, <1>8
    <3>2. t = r + 1
      <4>1. t \in 1..t
        BY <3>1, <1>8
      <4> QED BY <3>1, <4>1, <1>8, <2>3
    <3> QED BY <3>2, <1>8
  <2>8. ~Covered(<<"manifest", r + 1>>)
    BY <2>2, <1>3 DEF Unlisted, Covered
  <2>9. \A q \in 1..r : Covered(<<"manifest", q>>)
    <3>1. \A q \in 1..(t - 1) : Covered(<<"manifest", q>>)
      BY <1>7 DEF Line
    <3>2. t - 1 = r
      BY <2>7, <2>3
    <3> QED BY <3>1, <3>2
  <2>10. \A q \in 1..(r + 1) : q = r + 1 \/ q \in 1..r
    BY <2>3
  <2>11. 1..r \subseteq 1..(r + 1) /\ r + 1 \notin 1..r
    BY <2>3
  <2>12. Receipted = 1..r
    BY <2>7, <2>8, <2>9, <2>10, <2>11 DEF Receipted
  <2>13. Receipted' = 1..(r + 1)
    <3>1. \A q \in Published : Covered(<<"manifest", q>>)'
      BY <2>5, <2>7, <2>9, <2>10, <1>6, <1>9
    <3> QED BY <3>1, <2>7, <1>5 DEF Receipted
  <2>14. Shown = m
    BY <2>1, <2>3, <2>12, ShownIs
  <2>15. Shown' = Advanced(m, n, sub)
    <3>1. PICK s : s = r + 1
      OBVIOUS
    <3>2. s \in Nat /\ s > 0 /\ s \in 1..s /\ Receipted' = 1..s
      BY <3>1, <2>3, <2>13
    <3>3. ASSUME NEW p \in 1..s, \A q \in 1..s : q <= p PROVE p = s
      <4>1. s <= p /\ p \in Nat /\ p <= s
        BY <3>2, <3>3
      <4> QED BY <4>1, <3>2
    <3>4. \A q \in 1..s : q <= s
      BY <3>2
    <3>5. (CHOOSE p \in 1..s : \A q \in 1..s : q <= p) = s
      BY <3>2, <3>3, <3>4
    <3>6. Receipted' # {}
      BY <3>2
    <3>7. Shown' = Manifest(s)'
      BY <3>2, <3>5, <3>6 DEF Shown
    <3> QED BY <3>1, <3>7, <2>3, <2>6, <1>5
  <2> QED BY <2>2, <2>14, <2>15, AdvanceSeen
<1> QED BY <1>2, <1>10, <1>11 DEF RunInv, JobFits

LEMMA RouteInit == Init => Seen!RunInit
<1> SUFFICES ASSUME Init PROVE Seen!RunInit
  OBVIOUS
<1>1. Receipted = 1..0
  <2>1. DOMAIN receipt = Keys /\ \A k \in Keys : DOMAIN receipt[k] = {}
    BY DEF Init, Keys
  <2> QED BY <2>1 DEF Receipted, Covered
<1>2. Shown = [status |-> "absent", task |-> NoTasks]
  BY <1>1, ShownIs
<1> QED BY <1>2 DEF Seen!RunInit, Phase, NoTasks

LEMMA RouteStep == RunInv /\ [Next]_vars => [Seen!RunNext]_(Seen!runVars)
<1> SUFFICES ASSUME RunInv, [Next]_vars
             PROVE  Seen!RunNext \/ Shown' = Shown
  BY DEF Seen!runVars, Phase
<1>1. CASE Finish
  BY <1>1, FinishSeen
<1>2. CASE UNCHANGED <<file, receipt>>
  <2>1. Grows
    BY <1>2 DEF Grows, RunInv, RunTypeOK
  <2> QED BY <1>2, <2>1, ShownKept
<1>3. ASSUME NEW ref \in DOMAIN job.items, Publish(ref) PROVE Shown' = Shown
  BY <1>3, PublishTypes, ShownKept
<1>4. CASE \/ Prepare \/ Killed \/ UNCHANGED vars
           \/ \E ref \in DOMAIN job.items : Conflict(ref)
           \/ \E n \in Nodes, sub \in Submission : Accept(n, sub) \/ Replay(n, sub)
  <2>1. UNCHANGED <<file, receipt>>
    BY <1>4 DEF Prepare, Killed, vars, Conflict, Accept, Replay
  <2> QED BY <2>1, <1>2
<1> QED BY <1>1, <1>3, <1>4 DEF Next, Writer, Submit

\* Seen through its receipts, a run of any route is a RouteRun: submissions
\* take effect at once, slots and dependencies are respected, an open run has
\* a queued task, and its end is final (run_engine.py accept_result).
THEOREM RunsAreRouteRuns == Spec => ImplementsRouteRun
BY RouteInit, RouteStep, Invariance, PTL DEF Spec, ImplementsRouteRun, Seen!Spec

-----------------------------------------------------------------------------
(* What a reader of the run can rely on at any time *)

SeenTask == Shown.task
SeenRun == Phase(Shown.status)

Unended == {"absent", "queued", "completed"}

\* Nothing is queued, let alone ended, before all it depends on is completed;
\* no more tasks are queued than the cap allows; an open run has a task to
\* work on and none that ended badly; a closed run has exactly one that did;
\* and a run that awaits its review has completed every node of its route.
SeenOrderly ==
  /\ \A n \in Nodes : SeenTask[n] \in Unended \cup Seen!Ended
  /\ \A n \in Nodes : SeenTask[n] # "absent" => Deps[n] \subseteq Seen!Done(SeenTask)
  /\ Cardinality(Seen!Open(SeenTask)) <= Cap
  /\ SeenRun = "absent" => \A n \in Nodes : SeenTask[n] = "absent"
  /\ SeenRun = "open" =>
       Seen!Open(SeenTask) # {} /\ \A n \in Nodes : SeenTask[n] \in Unended
  /\ SeenRun = "closed" =>
       \E n \in Nodes : /\ SeenTask[n] \notin Unended
                        /\ \A m \in Nodes \ {n} : SeenTask[m] \in Unended
  /\ SeenRun = "awaiting_review" => Seen!Done(SeenTask) = Nodes

\* What was queued stays queued until it ends, what ended stays as it ended,
\* and a run that is over is never taken up again.
SeenMoves ==
  /\ \A n \in Nodes : SeenTask[n] = "queued" => SeenTask'[n] # "absent"
  /\ \A n \in Nodes : SeenTask[n] \in Seen!Ended => SeenTask'[n] = SeenTask[n]
  /\ SeenRun \in {"closed", "awaiting_review"} =>
       SeenTask' = SeenTask /\ SeenRun' = SeenRun

\* An end of one node disturbs neither the others nor the order.
LEMMA EndKeepsOrder ==
  ASSUME SeenOrderly, NEW n \in Nodes, Seen!Ends(n)
  PROVE  /\ \A m \in Nodes : SeenTask'[m] \in Unended \cup Seen!Ended
         /\ \A m \in Nodes \ {n} : SeenTask[m] \in Unended => SeenTask'[m] \in Unended
         /\ \A m \in Nodes : SeenTask'[m] # "absent" =>
              Deps[m] \subseteq Seen!Done(SeenTask')
         /\ Cardinality(Seen!Open(SeenTask')) <= Cap
         /\ \A m \in Nodes : SeenTask[m] = "queued" => SeenTask'[m] # "absent"
         /\ \A m \in Nodes : SeenTask[m] \in Seen!Ended => SeenTask'[m] = SeenTask[m]
<1>1. /\ SeenTask[n] = "queued" /\ SeenTask'[n] \in Seen!Ended
      /\ \A m \in Nodes \ {n} : SeenTask[m] # "absent" => SeenTask'[m] = SeenTask[m]
      /\ \A m \in Nodes : SeenTask[m] = "absent" =>
           \/ SeenTask'[m] = "absent"
           \/ SeenTask'[m] = "queued" /\ Deps[m] \subseteq Seen!Done(SeenTask')
      /\ Cardinality(Seen!Open(SeenTask')) <= Cap
  BY SameCount DEF Seen!Ends, Seen!Queues, SeenTask
<1>2. \A m \in Nodes : SeenTask[m] \in Seen!Ended => SeenTask'[m] = SeenTask[m]
  BY <1>1 DEF Seen!Ended
<1>3. Seen!Done(SeenTask) \subseteq Seen!Done(SeenTask')
  BY <1>2 DEF Seen!Done, Seen!Ended
<1>4. \A m \in Nodes : SeenTask[m] # "absent" => Deps[m] \subseteq Seen!Done(SeenTask')
  BY <1>3 DEF SeenOrderly
<1>5. \A m \in Nodes : SeenTask[m] \in Unended \cup Seen!Ended
  BY DEF SeenOrderly
<1> QED BY <1>1, <1>2, <1>4, <1>5 DEF Unended, Seen!Ended

LEMMA OrderlyStep ==
  ASSUME SeenOrderly, [Seen!RunNext]_(Seen!runVars)
  PROVE  SeenOrderly' /\ SeenMoves
<1>1. CASE Seen!Begin
  <2>1. /\ SeenRun = "absent" /\ SeenRun' = "open"
        /\ \A n \in Nodes : SeenTask'[n] \in {"absent", "queued"}
        /\ Seen!Open(SeenTask') # {}
        /\ \A n \in Nodes : SeenTask[n] = "absent" =>
             \/ SeenTask'[n] = "absent"
             \/ SeenTask'[n] = "queued" /\ Deps[n] \subseteq Seen!Done(SeenTask')
        /\ Cardinality(Seen!Open(SeenTask')) <= Cap
    BY <1>1, SameCount DEF Seen!Begin, Seen!Queues, SeenTask, SeenRun
  <2>2. \A n \in Nodes : SeenTask[n] = "absent"
    BY <2>1 DEF SeenOrderly
  <2>3. SeenOrderly'
    BY <2>1, <2>2 DEF SeenOrderly, Unended
  <2>4. SeenMoves
    BY <2>1, <2>2 DEF SeenMoves, Seen!Ended
  <2> QED BY <2>3, <2>4
<1>2. ASSUME NEW n \in Nodes, Seen!Advance(n) PROVE SeenOrderly' /\ SeenMoves
  <2>1. /\ SeenRun = "open" /\ SeenRun' = "open" /\ Seen!Ends(n)
        /\ SeenTask'[n] = "completed" /\ Seen!Open(SeenTask') # {}
    BY <1>2 DEF Seen!Advance, SeenTask, SeenRun
  <2>2. \A m \in Nodes : SeenTask'[m] \in Unended
    BY <2>1, EndKeepsOrder DEF SeenOrderly, Unended
  <2> QED BY <2>1, <2>2, EndKeepsOrder DEF SeenOrderly, SeenMoves
<1>3. ASSUME NEW n \in Nodes, Seen!Stop(n) PROVE SeenOrderly' /\ SeenMoves
  <2>1. /\ SeenRun = "open" /\ SeenRun' = "closed" /\ Seen!Ends(n)
        /\ SeenTask'[n] # "completed" /\ SeenTask'[n] \in Seen!Ended
    BY <1>3 DEF Seen!Stop, Seen!Ends, SeenTask, SeenRun
  <2>2. SeenTask'[n] \notin Unended
    BY <2>1 DEF Unended, Seen!Ended
  <2>3. \A m \in Nodes \ {n} : SeenTask'[m] \in Unended
    BY <2>1, EndKeepsOrder DEF SeenOrderly
  <2> QED BY <2>1, <2>2, <2>3, EndKeepsOrder DEF SeenOrderly, SeenMoves
<1>4. CASE Seen!Close
  <2>1. /\ SeenRun = "open" /\ SeenRun' = "awaiting_review" /\ Seen!Ends(Governance)
        /\ Seen!Done(SeenTask') = Nodes
    BY <1>4 DEF Seen!Close, SeenTask, SeenRun
  <2>2. Governance \in Nodes
    BY RouteAssumption
  <2> QED BY <2>1, <2>2, EndKeepsOrder DEF SeenOrderly, SeenMoves
<1>5. CASE UNCHANGED Seen!runVars
  <2>1. SeenTask' = SeenTask /\ SeenRun' = SeenRun
    BY <1>5 DEF Seen!runVars, SeenTask, SeenRun
  <2>2. SeenMoves
    BY <2>1 DEF SeenMoves
  <2> QED BY <2>1, <2>2 DEF SeenOrderly
<1> QED BY <1>1, <1>2, <1>3, <1>4, <1>5 DEF Seen!RunNext, Seen!Open

LEMMA OrderlyInit == Seen!RunInit => SeenOrderly
<1> SUFFICES ASSUME Seen!RunInit PROVE SeenOrderly
  OBVIOUS
<1>1. SeenRun = "absent" /\ \A n \in Nodes : SeenTask[n] = "absent"
  BY DEF Seen!RunInit, SeenTask, SeenRun
<1>2. Seen!Open(SeenTask) = {} /\ Cap \in Nat
  BY <1>1, RouteAssumption DEF Seen!Open
<1> QED BY <1>1, <1>2, FS_EmptySet DEF SeenOrderly, Unended

\* At every moment, in the middle of a write and after any kill too, a reader
\* that trusts receipts sees a run in order (run_engine.py accept_result,
\* agent_registry.py concurrency cap).
THEOREM RunsLookOrderly == Spec => []SeenOrderly
BY RouteInit, RouteStep, OrderlyInit, OrderlyStep, Invariance, PTL DEF Spec

\* What a reader has seen end stays as it ended, and a run that is over stays
\* over (run_engine.py accept_result refuses it).
THEOREM EndsAreFinal == Spec => [][SeenMoves]_vars
BY RouteInit, RouteStep, OrderlyInit, OrderlyStep, Invariance, PTL DEF Spec

=============================================================================
