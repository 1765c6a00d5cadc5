------------------------- MODULE WorkerChainProofs --------------------------
(***************************************************************************)
(* What holds of WorkerChain for any number of servers, any outputs of the *)
(* models and any number of kills.                                         *)
(***************************************************************************)
EXTENDS WorkerChain, SequenceTheorems, TLAPS

-----------------------------------------------------------------------------
(* Queues *)

Work == Research..MaveryQA

LEMMA TailFacts ==
  ASSUME NEW q \in Seq(Work), q # << >>, IsInjective(q)
  PROVE  /\ Tail(q) \in Seq(Work) /\ IsInjective(Tail(q))
         /\ Head(q) \in ToSet(q) /\ Head(q) \in Work
         /\ \A i \in ToSet(q) : i # Head(q) => i \in ToSet(Tail(q))
<1>1. /\ Len(q) \in Nat \ {0} /\ DOMAIN q = 1..Len(q) /\ Head(q) = q[1]
      /\ Tail(q) \in Seq(Work) /\ Len(Tail(q)) = Len(q) - 1
      /\ \A k \in 1..(Len(q) - 1) : Tail(q)[k] = q[k + 1]
      /\ DOMAIN Tail(q) = 1..(Len(q) - 1)
  OBVIOUS
<1>2. IsInjective(Tail(q))
  BY <1>1 DEF IsInjective
<1>3. ASSUME NEW i \in ToSet(q), i # Head(q) PROVE i \in ToSet(Tail(q))
  <2>1. PICK k \in 1..Len(q) : q[k] = i
    BY <1>1, <1>3 DEF ToSet
  <2>2. k # 1 /\ k - 1 \in 1..(Len(q) - 1) /\ (k - 1) + 1 = k
    BY <1>1, <1>3, <2>1
  <2>3. Tail(q)[k - 1] = i
    BY <1>1, <2>1, <2>2
  <2> QED BY <1>1, <2>2, <2>3 DEF ToSet
<1>4. Head(q) \in ToSet(q) /\ Head(q) \in Work
  BY <1>1 DEF ToSet
<1> QED BY <1>1, <1>2, <1>3, <1>4

LEMMA AppendFacts ==
  ASSUME NEW q \in Seq(Work), IsInjective(q), NEW i \in Work, i \notin ToSet(q)
  PROVE  /\ Append(q, i) \in Seq(Work) /\ IsInjective(Append(q, i))
         /\ Append(q, i) # << >>
         /\ q # << >> => Head(Append(q, i)) = Head(q)
         /\ i \in ToSet(Append(q, i)) /\ ToSet(q) \subseteq ToSet(Append(q, i))
<1> DEFINE r == Append(q, i)
<1>1. /\ Len(q) \in Nat /\ DOMAIN q = 1..Len(q)
      /\ r \in Seq(Work) /\ Len(r) = Len(q) + 1 /\ DOMAIN r = 1..(Len(q) + 1)
      /\ \A k \in 1..Len(q) : r[k] = q[k]
      /\ r[Len(q) + 1] = i
  OBVIOUS
<1>2. \A k \in 1..Len(q) : q[k] # i
  BY <1>1 DEF ToSet
<1>3. IsInjective(r)
  BY <1>1, <1>2 DEF IsInjective
<1>4. i \in ToSet(r) /\ ToSet(q) \subseteq ToSet(r)
  BY <1>1 DEF ToSet
<1>5. r # << >> /\ (q # << >> => Head(r) = Head(q))
  <2>1. q # << >> => Len(q) >= 1 /\ Head(q) = q[1]
    OBVIOUS
  <2>2. Head(r) = r[1] /\ r # << >>
    OBVIOUS
  <2> QED BY <1>1, <2>1, <2>2
<1> QED BY <1>1, <1>3, <1>4, <1>5

\* What the start of a task makes of a queue.
LEMMA StartedFacts ==
  ASSUME NEW q \in Seq(Work), IsInjective(q), NEW i \in Work, NEW s
  PROVE  LET r == Started(s, i, q) IN
         /\ r \in Seq(Work) /\ IsInjective(r)
         /\ q # << >> => r # << >> /\ Head(r) = Head(q)
         /\ ToSet(q) \subseteq ToSet(r)
         /\ up[s] /\ Claimable(i) => i \in ToSet(r)
<1>1. CASE up[s] /\ i \notin ToSet(q) /\ Claimable(i)
  BY <1>1, AppendFacts DEF Started
<1>2. CASE ~(up[s] /\ i \notin ToSet(q) /\ Claimable(i))
  BY <1>2 DEF Started
<1> QED BY <1>1, <1>2

-----------------------------------------------------------------------------
(* Threads *)

LEMMA ThreadFacts ==
  ASSUME NEW s \in Servers, NEW r \in Servers
  PROVE  /\ Desk(s) \in Threads /\ Lane(s) \in Threads
         /\ Desk(s) # Lane(r)
         /\ Desk(s) = Desk(r) => s = r
         /\ Lane(s) = Lane(r) => s = r
BY DEF Desk, Lane, Threads

\* A desk's step leaves every lane and every other desk where it was.
LEMMA DeskMoves ==
  ASSUME ChainTypeOK, NEW s \in Servers, NEW place, Goes(Desk(s), place)
  PROVE  /\ pc'[Desk(s)] = place
         /\ \A r \in Servers : pc'[Lane(r)] = pc[Lane(r)]
         /\ \A r \in Servers : r # s => pc'[Desk(r)] = pc[Desk(r)]
         /\ place \in DeskPlaces => pc' \in [Threads -> DeskPlaces \cup LanePlaces]
<1> USE DEF Goes, ChainTypeOK
<1>1. Desk(s) \in Threads
  BY ThreadFacts
<1>2. \A t \in Threads : t # Desk(s) => pc'[t] = pc[t]
  OBVIOUS
<1>3. \A r \in Servers : Lane(r) \in Threads /\ Lane(r) # Desk(s)
  BY ThreadFacts
<1>4. \A r \in Servers : r # s => Desk(r) \in Threads /\ Desk(r) # Desk(s)
  BY ThreadFacts
<1> QED BY <1>1, <1>2, <1>3, <1>4

LEMMA LaneMoves ==
  ASSUME ChainTypeOK, NEW s \in Servers, NEW place, Goes(Lane(s), place)
  PROVE  /\ pc'[Lane(s)] = place
         /\ \A r \in Servers : pc'[Desk(r)] = pc[Desk(r)]
         /\ \A r \in Servers : r # s => pc'[Lane(r)] = pc[Lane(r)]
         /\ place \in LanePlaces => pc' \in [Threads -> DeskPlaces \cup LanePlaces]
<1> USE DEF Goes, ChainTypeOK
<1>1. Lane(s) \in Threads
  BY ThreadFacts
<1>2. \A t \in Threads : t # Lane(s) => pc'[t] = pc[t]
  OBVIOUS
<1>3. \A r \in Servers : Desk(r) \in Threads /\ Desk(r) # Lane(s)
  BY ThreadFacts
<1>4. \A r \in Servers : r # s => Lane(r) \in Threads /\ Lane(r) # Lane(s)
  BY ThreadFacts
<1> QED BY <1>1, <1>2, <1>3, <1>4

-----------------------------------------------------------------------------
(* Types *)

LaneOK(s) ==
  /\ pc[Desk(s)] \in DeskPlaces /\ pc[Lane(s)] \in LanePlaces
  /\ IsInjective(queue[s])
  /\ queue[s] = << >> => At(s, "idle")

\* The part of the type invariant that threads disturb.
ThreadsOK ==
  /\ pc \in [Threads -> DeskPlaces \cup LanePlaces]
  /\ queue \in [Servers -> Seq(Work)]
  /\ \A s \in Servers : LaneOK(s)

LEMMA DeskTypes ==
  ASSUME ChainTypeOK, NEW s \in Servers, NEW place \in DeskPlaces,
         Goes(Desk(s), place), UNCHANGED queue
  PROVE  ThreadsOK'
<1>1. \A r \in Servers : LaneOK(r)'
  BY DeskMoves DEF ChainTypeOK, LaneOK, At
<1> QED BY <1>1, DeskMoves DEF ThreadsOK, ChainTypeOK, Work

LEMMA LaneTypes ==
  ASSUME ChainTypeOK, NEW s \in Servers, NEW place \in LanePlaces,
         Goes(Lane(s), place), UNCHANGED queue, queue[s] # << >>
  PROVE  ThreadsOK'
<1>1. \A r \in Servers : LaneOK(r)'
  BY LaneMoves DEF ChainTypeOK, LaneOK, At
<1> QED BY <1>1, LaneMoves DEF ThreadsOK, ChainTypeOK, Work

\* A desk that starts a task.
LEMMA StartTypes ==
  ASSUME ChainTypeOK, NEW s \in Servers, NEW i \in Work, Goes(Desk(s), "idle"),
         queue' = [queue EXCEPT ![s] = Started(s, i, @)]
  PROVE  ThreadsOK'
<1> DEFINE q == Started(s, i, queue[s])
<1>1. queue[s] \in Seq(Work) /\ IsInjective(queue[s])
  BY DEF ChainTypeOK, Work
<1>2. q \in Seq(Work) /\ IsInjective(q) /\ (q = << >> => queue[s] = << >>)
  BY <1>1, StartedFacts
<1>3. queue' \in [Servers -> Seq(Work)] /\ queue'[s] = q
      /\ \A r \in Servers : r # s => queue'[r] = queue[r]
  BY <1>2 DEF ChainTypeOK, Work
<1>4. "idle" \in DeskPlaces
  BY DEF DeskPlaces
<1>5. \A r \in Servers : LaneOK(r)'
  BY <1>2, <1>3, <1>4, DeskMoves DEF ChainTypeOK, LaneOK, At
<1> QED BY <1>3, <1>4, <1>5, DeskMoves DEF ThreadsOK

\* A future that ends.
LEMMA DoneTypes ==
  ASSUME ChainTypeOK, NEW s \in Servers, NEW q \in Seq(Work), IsInjective(q),
         Done(s, q)
  PROVE  ThreadsOK'
<1> USE DEF Done
<1>1. queue' \in [Servers -> Seq(Work)] /\ queue'[s] = q
      /\ \A r \in Servers : r # s => queue'[r] = queue[r]
  BY DEF ChainTypeOK, Work
<1>2. "idle" \in LanePlaces
  BY DEF LanePlaces
<1>3. \A r \in Servers : LaneOK(r)'
  BY <1>1, <1>2, LaneMoves DEF ChainTypeOK, LaneOK, At
<1> QED BY <1>1, <1>2, <1>3, LaneMoves DEF ThreadsOK

\* What the lane of a server works on.
LEMMA CurrentFacts ==
  ASSUME ChainTypeOK, NEW s \in Servers, queue[s] # << >>
  PROVE  /\ Current(s) \in Work /\ Work \subseteq Tasks
         /\ Current(s) = Head(queue[s])
         /\ Tail(queue[s]) \in Seq(Work) /\ IsInjective(Tail(queue[s]))
BY TailFacts DEF ChainTypeOK, Current, Work, Tasks, Agents, Research, MaveryQA

\* The rest of it.
DataOK ==
  /\ status \in [Tasks -> {"absent", "queued", "running", "awaiting_review",
                           "completed", "failed"}]
  /\ lessee \in [Tasks -> Threads \cup {NoThread}]
  /\ input \in [1..(Len(Agents) + 1) -> Bytes \cup {NoBytes}]
  /\ file \in [Tasks -> Bytes \cup {NoBytes}]
  /\ covered \subseteq Tasks /\ granted \subseteq Tasks
  /\ up \in [Servers -> BOOLEAN]
  /\ made \in [Servers -> Bytes \cup {NoBytes}]
  /\ runs \in [Tasks -> Nat] /\ kills \in 0..MaxKills

LEMMA TypeParts ==
  /\ ChainTypeOK <=> DataOK /\ ThreadsOK
  /\ ChainTypeOK' <=> DataOK' /\ ThreadsOK'
BY DEF ChainTypeOK, DataOK, ThreadsOK, LaneOK, Work

LEMMA TypeInit == Init => ChainTypeOK
<1> SUFFICES ASSUME Init PROVE DataOK /\ ThreadsOK
  BY TypeParts
<1>1. DataOK
  BY ChainAssumption DEF Init, DataOK, Tasks
<1>2. ThreadsOK
  <2>1. \A s \in Servers : LaneOK(s)
    BY ThreadFacts DEF Init, LaneOK, At, DeskPlaces, LanePlaces, IsInjective
  <2> QED BY <2>1 DEF Init, ThreadsOK, DeskPlaces, Work
<1> QED BY <1>1, <1>2

LEMMA TaskFacts ==
  /\ Tasks = 1..4 /\ Len(Agents) = 4 /\ Work = 2..4
  /\ Inbox = 1 /\ Research = 2 /\ MaveryQA = 4
BY DEF Tasks, Agents, Work, Inbox, Research, MaveryQA

\* Each operator on the broker and on files keeps their types.
LEMMA BrokerTypes ==
  ASSUME DataOK, NEW t \in Threads, NEW i \in Tasks, NEW b \in Bytes \cup {NoBytes}
  PROVE  LET BrokerOK ==
               /\ status \in [Tasks -> {"absent", "queued", "running",
                                        "awaiting_review", "completed", "failed"}]
               /\ lessee \in [Tasks -> Threads \cup {NoThread}]
               /\ input \in [1..(Len(Agents) + 1) -> Bytes \cup {NoBytes}]
             FilesOK == /\ file \in [Tasks -> Bytes \cup {NoBytes}]
                        /\ covered \subseteq Tasks IN
         /\ Claim(t, i) => BrokerOK'
         /\ Delegate(t, i, b) => BrokerOK'
         /\ AcceptResult(t, i, b) => BrokerOK'
         /\ Fail(t, i) => BrokerOK'
         /\ Link(i, b) => FilesOK'
         /\ Cover(i) => FilesOK'
<1> USE TaskFacts DEF DataOK
<1>1. Claim(t, i) => status' \in [Tasks -> {"absent", "queued", "running",
        "awaiting_review", "completed", "failed"}] /\ lessee' \in [Tasks -> Threads \cup {NoThread}]
  BY DEF Claim
<1>2. Claim(t, i) => input' = input
  BY DEF Claim
<1>3. ASSUME Delegate(t, i, b)
      PROVE  /\ status' \in [Tasks -> {"absent", "queued", "running",
                                       "awaiting_review", "completed", "failed"}]
             /\ lessee' \in [Tasks -> Threads \cup {NoThread}]
             /\ input' \in [1..(Len(Agents) + 1) -> Bytes \cup {NoBytes}]
  BY <1>3 DEF Delegate, HandedOn
<1>4. ASSUME AcceptResult(t, i, b)
      PROVE  /\ status' \in [Tasks -> {"absent", "queued", "running",
                                       "awaiting_review", "completed", "failed"}]
             /\ lessee' \in [Tasks -> Threads \cup {NoThread}]
             /\ input' \in [1..(Len(Agents) + 1) -> Bytes \cup {NoBytes}]
  BY <1>4 DEF AcceptResult
<1>5. ASSUME Fail(t, i)
      PROVE  /\ status' \in [Tasks -> {"absent", "queued", "running",
                                       "awaiting_review", "completed", "failed"}]
             /\ lessee' \in [Tasks -> Threads \cup {NoThread}]
             /\ input' = input
  BY <1>5 DEF Fail
<1>6. Link(i, b) => file' \in [Tasks -> Bytes \cup {NoBytes}] /\ covered' = covered
  BY DEF Link
<1>7. Cover(i) => file' = file /\ covered' \subseteq Tasks
  BY DEF Cover
<1> QED BY <1>1, <1>2, <1>3, <1>4, <1>5, <1>6, <1>7

\* QA hands nothing on.
HandedInv == \A s \in Servers : At(s, "handed") => Current(s) # MaveryQA

LEMMA TypeStep == ChainTypeOK /\ HandedInv /\ [Next]_vars => ChainTypeOK'
<1> SUFFICES ASSUME ChainTypeOK, HandedInv, [Next]_vars PROVE (DataOK /\ ThreadsOK)'
  BY TypeParts
<1> USE DEF broker, files, memory
<1>0. DataOK /\ ThreadsOK /\ Proposal \in Bytes
  BY TypeParts, ChainAssumption
<1>a. /\ \A s \in Servers : Desk(s) \in Threads /\ Lane(s) \in Threads
      /\ Inbox \in Tasks /\ Research \in Work /\ Work \subseteq Tasks
  BY ThreadFacts, TaskFacts
<1>b. \A s \in Servers : pc[Lane(s)] # "idle" => queue[s] # << >>
  BY DEF ChainTypeOK, At
<1>c. DeskPlaces = {"idle", "admitted", "rejoining", "routing", "linked", "written",
                    "claimed", "handed"}
      /\ LanePlaces = {"idle", "ready", "generating", "writing", "linked", "written",
                       "handed", "failing", "raised"}
  BY DEF DeskPlaces, LanePlaces
<1>d. \A s \in Servers : made[s] \in Bytes \cup {NoBytes}
  BY <1>0 DEF DataOK
<1>1. ASSUME NEW s \in Servers, Submit(s) PROVE (DataOK /\ ThreadsOK)'
  <2>1. ThreadsOK'
    <3>1. CASE Goes(Desk(s), "admitted")
      BY <1>1, <3>1, <1>c, DeskTypes DEF Submit
    <3>2. CASE Goes(Desk(s), "rejoining")
      BY <1>1, <3>2, <1>c, DeskTypes DEF Submit
    <3> QED BY <1>1, <3>1, <3>2 DEF Submit
  <2>2. DataOK'
    BY <1>1, <1>0, TaskFacts DEF Submit, DataOK
  <2> QED BY <2>1, <2>2
<1>2. ASSUME NEW s \in Servers, Route(s) PROVE (DataOK /\ ThreadsOK)'
  <2>1. ThreadsOK'
    BY <1>2, <1>c, DeskTypes DEF Route
  <2>2. DataOK'
    BY <1>2, <1>0, <1>a, BrokerTypes DEF Route, DataOK
  <2> QED BY <2>1, <2>2
<1>3. ASSUME NEW s \in Servers, LinkHandoff(s) PROVE (DataOK /\ ThreadsOK)'
  <2>1. ThreadsOK'
    BY <1>3, <1>c, DeskTypes DEF LinkHandoff
  <2>2. DataOK'
    BY <1>3, <1>0, <1>a, BrokerTypes DEF LinkHandoff, DataOK
  <2> QED BY <2>1, <2>2
<1>4. ASSUME NEW s \in Servers, CoverHandoff(s) PROVE (DataOK /\ ThreadsOK)'
  <2>1. ThreadsOK'
    BY <1>4, <1>c, DeskTypes DEF CoverHandoff
  <2>2. DataOK'
    BY <1>4, <1>0, <1>a, BrokerTypes DEF CoverHandoff, DataOK
  <2> QED BY <2>1, <2>2
<1>5. ASSUME NEW s \in Servers, ClaimInbox(s) PROVE (DataOK /\ ThreadsOK)'
  <2>1. ThreadsOK'
    BY <1>5, <1>c, DeskTypes DEF ClaimInbox
  <2>2. DataOK'
    BY <1>5, <1>0, <1>a, BrokerTypes DEF ClaimInbox, DataOK
  <2> QED BY <2>1, <2>2
<1>6. ASSUME NEW s \in Servers, DelegateInbox(s) PROVE (DataOK /\ ThreadsOK)'
  <2>1. ThreadsOK'
    BY <1>6, <1>c, DeskTypes DEF DelegateInbox
  <2>2. DataOK'
    BY <1>6, <1>0, <1>a, BrokerTypes DEF DelegateInbox, DataOK
  <2> QED BY <2>1, <2>2
<1>7. ASSUME NEW s \in Servers, Rejoin(s) \/ StartResearch(s) PROVE (DataOK /\ ThreadsOK)'
  <2>1. PICK i \in Work : /\ Goes(Desk(s), "idle")
                          /\ queue' = [queue EXCEPT ![s] = Started(s, i, @)]
    BY <1>7, <1>a DEF Rejoin, StartResearch, Work
  <2>2. ThreadsOK'
    BY <2>1, StartTypes
  <2>3. DataOK'
    BY <1>7, <1>0 DEF Rejoin, StartResearch, DataOK
  <2> QED BY <2>2, <2>3
<1>8. ASSUME NEW s \in Servers, TurnAway(s) PROVE (DataOK /\ ThreadsOK)'
  <2>1. ThreadsOK'
    BY <1>8, <1>c, DeskTypes DEF TurnAway
  <2>2. DataOK'
    BY <1>8, <1>0, <1>a, BrokerTypes DEF TurnAway, DataOK
  <2> QED BY <2>1, <2>2
<1>9. ASSUME NEW s \in Servers, Preflight(s) PROVE (DataOK /\ ThreadsOK)'
  <2>1. queue[s] # << >>
    BY <1>9, <1>b DEF Preflight, At
  <2>2. Current(s) \in Tasks
    BY <2>1, <1>a, CurrentFacts
  <2>3. ThreadsOK'
    BY <1>9, <2>1, <1>c, LaneTypes DEF Preflight
  <2>4. DataOK'
    BY <1>9, <1>0, <1>a, <1>d, <2>2, BrokerTypes DEF Preflight, DataOK
  <2> QED BY <2>3, <2>4
<1>10. ASSUME NEW s \in Servers, PreflightFails(s) PROVE (DataOK /\ ThreadsOK)'
  <2>1. queue[s] # << >>
    BY <1>10, <1>b DEF PreflightFails, At
  <2>2. Current(s) \in Tasks
    BY <2>1, <1>a, CurrentFacts
  <2>3. ThreadsOK'
    BY <1>10, <2>1, <1>c, LaneTypes DEF PreflightFails
  <2>4. DataOK'
    BY <1>10, <1>0, <1>a, <1>d, <2>2, BrokerTypes DEF PreflightFails, DataOK
  <2> QED BY <2>3, <2>4
<1>11. ASSUME NEW s \in Servers, ClaimTask(s) PROVE (DataOK /\ ThreadsOK)'
  <2>1. queue[s] # << >>
    BY <1>11, <1>b DEF ClaimTask, At
  <2>2. Current(s) \in Tasks
    BY <2>1, <1>a, CurrentFacts
  <2>3. ThreadsOK'
    BY <1>11, <2>1, <1>c, LaneTypes DEF ClaimTask
  <2>4. DataOK'
    BY <1>11, <1>0, <1>a, <1>d, <2>2, BrokerTypes DEF ClaimTask, DataOK
  <2> QED BY <2>3, <2>4
<1>12. ASSUME NEW s \in Servers, ClaimRefused(s) PROVE (DataOK /\ ThreadsOK)'
  <2>1. queue[s] # << >>
    BY <1>12, <1>b DEF ClaimRefused, At
  <2>2. Current(s) \in Tasks
    BY <2>1, <1>a, CurrentFacts
  <2>3. ThreadsOK'
    BY <1>12, <2>1, <1>c, LaneTypes DEF ClaimRefused
  <2>4. DataOK'
    BY <1>12, <1>0, <1>a, <1>d, <2>2, BrokerTypes DEF ClaimRefused, DataOK
  <2> QED BY <2>3, <2>4
<1>13. ASSUME NEW s \in Servers, NEW b \in Bytes, Generate(s, b) PROVE (DataOK /\ ThreadsOK)'
  <2>1. queue[s] # << >>
    BY <1>13, <1>b DEF Generate, At
  <2>2. Current(s) \in Tasks
    BY <2>1, <1>a, CurrentFacts
  <2>3. ThreadsOK'
    BY <1>13, <2>1, <1>c, LaneTypes DEF Generate
  <2>4. DataOK'
    BY <1>13, <1>0, <1>a, <1>d, <2>2, BrokerTypes DEF Generate, DataOK
  <2> QED BY <2>3, <2>4
<1>14. ASSUME NEW s \in Servers, LinkOutput(s) PROVE (DataOK /\ ThreadsOK)'
  <2>1. queue[s] # << >>
    BY <1>14, <1>b DEF LinkOutput, At
  <2>2. Current(s) \in Tasks
    BY <2>1, <1>a, CurrentFacts
  <2>3. ThreadsOK'
    BY <1>14, <2>1, <1>c, LaneTypes DEF LinkOutput
  <2>4. DataOK'
    BY <1>14, <1>0, <1>a, <1>d, <2>2, BrokerTypes DEF LinkOutput, DataOK
  <2> QED BY <2>3, <2>4
<1>15. ASSUME NEW s \in Servers, CoverOutput(s) PROVE (DataOK /\ ThreadsOK)'
  <2>1. queue[s] # << >>
    BY <1>15, <1>b DEF CoverOutput, At
  <2>2. Current(s) \in Tasks
    BY <2>1, <1>a, CurrentFacts
  <2>3. ThreadsOK'
    BY <1>15, <2>1, <1>c, LaneTypes DEF CoverOutput
  <2>4. DataOK'
    BY <1>15, <1>0, <1>a, <1>d, <2>2, BrokerTypes DEF CoverOutput, DataOK
  <2> QED BY <2>3, <2>4
<1>16. ASSUME NEW s \in Servers, HandOn(s) PROVE (DataOK /\ ThreadsOK)'
  <2>1. queue[s] # << >>
    BY <1>16, <1>b DEF HandOn, At, Written
  <2>2. Current(s) \in Tasks
    BY <2>1, <1>a, CurrentFacts
  <2>3. ThreadsOK'
    BY <1>16, <2>1, <1>c, LaneTypes DEF HandOn
  <2>4. DataOK'
    BY <1>16, <1>0, <1>a, <1>d, <2>2, BrokerTypes DEF HandOn, DataOK
  <2> QED BY <2>3, <2>4
<1>17. ASSUME NEW s \in Servers, WorkFails(s) PROVE (DataOK /\ ThreadsOK)'
  <2>1. queue[s] # << >>
    BY <1>17, <1>b DEF WorkFails, At
  <2>2. Current(s) \in Tasks
    BY <2>1, <1>a, CurrentFacts
  <2>3. ThreadsOK'
    BY <1>17, <2>1, <1>c, LaneTypes DEF WorkFails
  <2>4. DataOK'
    BY <1>17, <1>0, <1>a, <1>d, <2>2, BrokerTypes DEF WorkFails, DataOK
  <2> QED BY <2>3, <2>4
<1>18. ASSUME NEW s \in Servers, ReportFailure(s) PROVE (DataOK /\ ThreadsOK)'
  <2>1. queue[s] # << >>
    BY <1>18, <1>b DEF ReportFailure, At
  <2>2. Current(s) \in Tasks
    BY <2>1, <1>a, CurrentFacts
  <2>3. ThreadsOK'
    BY <1>18, <2>1, <1>c, LaneTypes DEF ReportFailure
  <2>4. DataOK'
    BY <1>18, <1>0, <1>a, <1>d, <2>2, BrokerTypes DEF ReportFailure, DataOK
  <2> QED BY <2>3, <2>4
<1>19. ASSUME NEW s \in Servers, ClaimToFail(s) PROVE (DataOK /\ ThreadsOK)'
  <2>1. queue[s] # << >>
    BY <1>19, <1>b DEF ClaimToFail, At
  <2>2. Current(s) \in Tasks
    BY <2>1, <1>a, CurrentFacts
  <2>3. ThreadsOK'
    BY <1>19, <2>1, <1>c, LaneTypes DEF ClaimToFail
  <2>4. DataOK'
    BY <1>19, <1>0, <1>a, <1>d, <2>2, BrokerTypes DEF ClaimToFail, DataOK
  <2> QED BY <2>3, <2>4
<1>20. ASSUME NEW s \in Servers, SubmitForReview(s) PROVE (DataOK /\ ThreadsOK)'
  <2>1. queue[s] # << >>
    BY <1>20, <1>b DEF SubmitForReview, At, Written
  <2>2. Current(s) \in Work /\ Current(s) \in Tasks
        /\ Tail(queue[s]) \in Seq(Work) /\ IsInjective(Tail(queue[s]))
    BY <2>1, <1>a, CurrentFacts
  <2>3. Done(s, Tail(queue[s])) /\ made' = [made EXCEPT ![s] = NoBytes]
    BY <1>20 DEF SubmitForReview, Done
  <2>4. ThreadsOK'
    BY <2>2, <2>3, DoneTypes
  <2>5. DataOK'
    BY <1>20, <1>0, <1>a, <1>d, <2>2, <2>3, TaskFacts, BrokerTypes DEF SubmitForReview, DataOK
  <2> QED BY <2>4, <2>5
<1>21. ASSUME NEW s \in Servers, Abandon(s) PROVE (DataOK /\ ThreadsOK)'
  <2>1. queue[s] # << >>
    BY <1>21, <1>b DEF Abandon, At, Written
  <2>2. Current(s) \in Work /\ Current(s) \in Tasks
        /\ Tail(queue[s]) \in Seq(Work) /\ IsInjective(Tail(queue[s]))
    BY <2>1, <1>a, CurrentFacts
  <2>3. Done(s, Tail(queue[s])) /\ made' = [made EXCEPT ![s] = NoBytes]
    BY <1>21 DEF Abandon, Done
  <2>4. ThreadsOK'
    BY <2>2, <2>3, DoneTypes
  <2>5. DataOK'
    BY <1>21, <1>0, <1>a, <1>d, <2>2, <2>3, TaskFacts, BrokerTypes DEF Abandon, DataOK
  <2> QED BY <2>4, <2>5
<1>22. ASSUME NEW s \in Servers, StartNext(s) PROVE (DataOK /\ ThreadsOK)'
  <2> DEFINE q == Started(s, Current(s) + 1, queue[s])
  <2>1. queue[s] # << >> /\ queue[s] \in Seq(Work) /\ IsInjective(queue[s])
    BY <1>22, <1>b DEF StartNext, At, ChainTypeOK, Work
  <2>2. Current(s) + 1 \in Work
    BY <1>22, <2>1, CurrentFacts, TaskFacts DEF StartNext, HandedInv
  <2>9. q \in Seq(Work) /\ IsInjective(q) /\ q # << >>
    BY <2>1, <2>2, StartedFacts
  <2>3. Tail(q) \in Seq(Work) /\ IsInjective(Tail(q))
    BY <2>9, TailFacts
  <2>4. Done(s, Tail(q)) /\ made' = [made EXCEPT ![s] = NoBytes]
    BY <1>22 DEF StartNext, Done
  <2>5. ThreadsOK'
    BY <2>3, <2>4, DoneTypes
  <2>6. DataOK'
    BY <1>22, <1>0, <2>4 DEF StartNext, DataOK
  <2> QED BY <2>5, <2>6
<1>23. ASSUME NEW s \in Servers, Close(s) PROVE (DataOK /\ ThreadsOK)'
  BY <1>23, <1>0 DEF Close, DataOK, ThreadsOK, LaneOK, At
<1>24. ASSUME NEW s \in Servers, Kill(s) PROVE (DataOK /\ ThreadsOK)'
  <2> USE <1>24 DEF Kill
  <2>1. kills' \in 0..MaxKills
    BY <1>0, ChainAssumption DEF DataOK
  <2>2. DataOK'
    BY <1>0, <2>1 DEF DataOK
  <2>3. \A t \in Threads : pc'[t] = IF t \in {Desk(s), Lane(s)} THEN "idle" ELSE pc[t]
    BY <1>0, <1>a DEF ThreadsOK
  <2>4. pc' \in [Threads -> DeskPlaces \cup LanePlaces]
    BY <1>0, <1>c DEF ThreadsOK
  <2>5. queue' \in [Servers -> Seq(Work)]
    BY <1>0 DEF ThreadsOK
  <2>6. ASSUME NEW r \in Servers PROVE LaneOK(r)'
    <3>1. CASE r = s
      BY <1>0, <1>a, <1>c, <2>3, <3>1 DEF ThreadsOK, LaneOK, At, IsInjective
    <3>2. CASE r # s
      <4>1. pc'[Desk(r)] = pc[Desk(r)] /\ pc'[Lane(r)] = pc[Lane(r)]
        <5>1. {Desk(r), Lane(r)} \cap {Desk(s), Lane(s)} = {}
          <6>1. Desk(r) # Desk(s) /\ Lane(r) # Lane(s)
            BY <3>2, ThreadFacts
          <6>2. Desk(r) # Lane(s) /\ Lane(r) # Desk(s)
            BY ThreadFacts
          <6> QED BY <6>1, <6>2
        <5> QED BY <1>a, <2>3, <5>1
      <4>2. queue'[r] = queue[r]
        BY <1>0, <3>2 DEF ThreadsOK
      <4> QED BY <1>0, <4>1, <4>2 DEF ThreadsOK, LaneOK, At
    <3> QED BY <3>1, <3>2
  <2> QED BY <2>2, <2>4, <2>5, <2>6 DEF ThreadsOK
<1>25. ASSUME NEW s \in Servers, Restart(s) PROVE (DataOK /\ ThreadsOK)'
  <2> USE <1>25 DEF Restart
  <2>1. PICK q \in BoundedSeq(Work, Cardinality(Queued)) :
          IsInjective(q) /\ queue' = [queue EXCEPT ![s] = q]
    BY DEF Work
  <2>2. q \in Seq(Work)
    BY DEF BoundedSeq, SeqOf
  <2>3. DataOK'
    BY <1>0 DEF DataOK
  <2>4. /\ queue' \in [Servers -> Seq(Work)] /\ queue'[s] = q
        /\ \A r \in Servers : r # s => queue'[r] = queue[r]
    BY <1>0, <2>1, <2>2 DEF ThreadsOK
  <2>5. \A r \in Servers : LaneOK(r)'
    BY <1>0, <2>1, <2>4 DEF ThreadsOK, LaneOK, At
  <2> QED BY <1>0, <2>3, <2>4, <2>5 DEF ThreadsOK
<1>26. ASSUME NEW i \in Tasks, Lapse(i) PROVE (DataOK /\ ThreadsOK)'
  BY <1>26, <1>0 DEF Lapse, DataOK, ThreadsOK, LaneOK, At
<1>27. ASSUME NEW i \in Tasks, PermissionEdited(i) PROVE (DataOK /\ ThreadsOK)'
  BY <1>27, <1>0 DEF PermissionEdited, DataOK, ThreadsOK, LaneOK, At
<1>28. CASE UNCHANGED vars
  BY <1>28, <1>0 DEF vars, DataOK, ThreadsOK, LaneOK, At
<1> QED
  BY <1>1, <1>2, <1>3, <1>4, <1>5, <1>6, <1>7, <1>8, <1>9, <1>10, <1>11, <1>12, <1>13, <1>14, <1>15, <1>16, <1>17, <1>18, <1>19, <1>20, <1>21, <1>22, <1>23, <1>24, <1>25, <1>26, <1>27, <1>28, ChainAssumption
     DEF Next, DeskStep, LaneStep

-----------------------------------------------------------------------------
(* What threads know of their files, and what steps do to tasks *)

\* A lane past its model call has made its output; past the link it is what
\* the file holds; past the receipt it is covered.
LaneInv(s) ==
  /\ pc[Lane(s)] \in {"writing", "linked", "written"} => made[s] \in Bytes
  /\ pc[Lane(s)] \in {"linked", "written"} => file[Current(s)] = made[s]
  /\ At(s, "written") => Current(s) \in covered
  /\ At(s, "handed") => status[Current(s)] = "completed"

DeskInv(s) ==
  /\ pc[Desk(s)] \in {"linked", "written", "claimed"} => file[Inbox] = Proposal
  /\ pc[Desk(s)] \in {"written", "claimed"} => Inbox \in covered
  /\ pc[Desk(s)] = "rejoining" => status[Inbox] = "completed"

WorkInv == HandedInv /\ \A s \in Servers : LaneInv(s) /\ DeskInv(s)

\* The steps of a task, with what they need.
Rests == UNCHANGED <<status, input, runs>>

Admits ==
  /\ status[Inbox] = "absent"
  /\ status' = [status EXCEPT ![Inbox] = "queued"]
  /\ input' = [input EXCEPT ![Inbox] = Proposal]
  /\ UNCHANGED runs

Starts(i) ==
  /\ status[i] = "queued"
  /\ status' = [status EXCEPT ![i] = "running"]
  /\ runs' = runs \/ runs' = [runs EXCEPT ![i] = @ + 1]
  /\ UNCHANGED input

Hands(i, b) ==
  /\ i # MaveryQA /\ status[i] = "running"
  /\ i \in covered /\ file[i] = b
  /\ status' = HandedOn(i)
  /\ input' = [input EXCEPT ![i + 1] = b]
  /\ UNCHANGED runs

Publishes(b) ==
  /\ status[MaveryQA] = "running"
  /\ MaveryQA \in covered /\ file[MaveryQA] = b
  /\ status' = [status EXCEPT ![MaveryQA] = "awaiting_review"]
  /\ input' = [input EXCEPT ![MaveryQA + 1] = b]
  /\ UNCHANGED runs

GivesUp(i) ==
  /\ status[i] = "running"
  /\ status' = [status EXCEPT ![i] = "failed"]
  /\ UNCHANGED <<input, runs>>

\* Published files never change and receipts stay.
FilesGrow ==
  /\ \A i \in Tasks : file[i] # NoBytes => file'[i] = file[i]
  /\ covered \subseteq covered'

LEMMA GrowLemma ==
  ASSUME ChainTypeOK, [Next]_vars
  PROVE  FilesGrow
<1> USE DEF FilesGrow, files
<1>1. ASSUME NEW i \in Tasks, NEW b, Link(i, b) PROVE FilesGrow
  BY <1>1 DEF Link, ChainTypeOK
<1>2. \A i \in Tasks : Cover(i) => FilesGrow
  BY DEF Cover
<1>3. UNCHANGED <<file, covered>> => FilesGrow
  OBVIOUS
<1>4. \A s \in Servers : LinkHandoff(s) \/ CoverHandoff(s) => FilesGrow
  BY <1>1, <1>2, TaskFacts DEF LinkHandoff, CoverHandoff
<1>5. ASSUME NEW s \in Servers, LinkOutput(s) \/ CoverOutput(s) PROVE FilesGrow
  <2>1. Current(s) \in Tasks
    BY <1>5, CurrentFacts DEF LinkOutput, CoverOutput, ChainTypeOK, At
  <2> QED BY <1>1, <1>2, <1>5, <2>1 DEF LinkOutput, CoverOutput
<1>6. ASSUME NEW s \in Servers, DeskStep(s) PROVE FilesGrow
  BY <1>3, <1>4, <1>6
     DEF DeskStep, Route, Rejoin, ClaimInbox, DelegateInbox, StartResearch, TurnAway
<1>7. ASSUME NEW s \in Servers, LaneStep(s) PROVE FilesGrow
  BY <1>3, <1>5, <1>7
     DEF LaneStep, Preflight, PreflightFails, ClaimTask, ClaimRefused, Generate, HandOn,
         StartNext, SubmitForReview, WorkFails, ReportFailure, ClaimToFail, Abandon
<1>8. ASSUME NEW s \in Servers, Submit(s) \/ Close(s) \/ Kill(s) \/ Restart(s)
      PROVE  FilesGrow
  BY <1>3, <1>8 DEF Submit, Close, Kill, Restart
<1>9. ASSUME NEW i \in Tasks, Lapse(i) \/ PermissionEdited(i) PROVE FilesGrow
  BY <1>3, <1>9 DEF Lapse, PermissionEdited
<1>10. UNCHANGED vars => FilesGrow
  BY <1>3 DEF vars
<1> QED BY <1>6, <1>7, <1>8, <1>9, <1>10, ChainAssumption DEF Next

LEMMA MovesLemma ==
  ASSUME ChainTypeOK, WorkInv, [Next]_vars
  PROVE  \/ Rests \/ Admits
         \/ \E i \in Tasks : Starts(i) \/ GivesUp(i) \/ \E b \in Bytes : Hands(i, b)
         \/ \E b \in Bytes : Publishes(b)
<1> DEFINE Moves == \/ Rests \/ Admits
                    \/ \E i \in Tasks : Starts(i) \/ GivesUp(i)
                                       \/ \E b \in Bytes : Hands(i, b)
                    \/ \E b \in Bytes : Publishes(b)
<1> USE DEF broker
<1>1. \A s \in Servers : pc[Lane(s)] # "idle" => Current(s) \in Tasks
  BY CurrentFacts DEF ChainTypeOK, At
<1>2. \A t \in Threads, i \in Tasks : Claim(t, i) /\ runs' = runs => Moves
  BY DEF Claim, Claimable, Starts
<1>3. \A t \in Threads, i \in Tasks : Fail(t, i) /\ runs' = runs => Moves
  BY DEF Fail, Holds, GivesUp, Rests
<1>4. \A s \in Servers : Desk(s) \in Threads /\ Lane(s) \in Threads
  BY ThreadFacts
<1>5. Inbox \in Tasks /\ Inbox # MaveryQA /\ Proposal \in Bytes
  BY TaskFacts, ChainAssumption
<1>6. ASSUME NEW s \in Servers, Submit(s) PROVE Moves
  BY <1>6 DEF Submit, Admits, Rests
<1>7. ASSUME NEW s \in Servers, DelegateInbox(s) PROVE Moves
  <2>1. Hands(Inbox, Proposal)
    BY <1>5, <1>7 DEF DelegateInbox, Delegate, Holds, Hands, WorkInv, DeskInv
  <2> QED BY <1>5, <2>1
<1>8. ASSUME NEW s \in Servers, DeskStep(s) PROVE Moves
  BY <1>2, <1>3, <1>4, <1>5, <1>7, <1>8
     DEF DeskStep, Route, Rejoin, LinkHandoff, CoverHandoff, ClaimInbox, StartResearch,
         TurnAway, Rests
<1>9. ASSUME NEW s \in Servers, HandOn(s) PROVE Moves
  <2>1. Current(s) \in Tasks /\ made[s] \in Bytes
        /\ file[Current(s)] = made[s] /\ Current(s) \in covered
    BY <1>1, <1>9 DEF HandOn, Written, At, WorkInv, LaneInv
  <2>2. Hands(Current(s), made[s])
    BY <1>9, <2>1 DEF HandOn, Delegate, Holds, Hands
  <2> QED BY <2>1, <2>2
<1>10. ASSUME NEW s \in Servers, SubmitForReview(s) PROVE Moves
  <2>1. made[s] \in Bytes
    BY <1>10 DEF SubmitForReview, Written, At, WorkInv, LaneInv
  <2>2. Publishes(made[s])
    BY <1>10 DEF SubmitForReview, AcceptResult, Holds, Publishes
  <2> QED BY <2>1, <2>2
<1>11. ASSUME NEW s \in Servers, ClaimTask(s) PROVE Moves
  <2>1. Current(s) \in Tasks
    BY <1>1, <1>11 DEF ClaimTask, At
  <2>2. Starts(Current(s))
    BY <1>11 DEF ClaimTask, Claim, Claimable, Starts
  <2> QED BY <2>1, <2>2
<1>12. ASSUME NEW s \in Servers, ReportFailure(s) \/ ClaimToFail(s) PROVE Moves
  <2>1. Current(s) \in Tasks
    BY <1>1, <1>12 DEF ReportFailure, ClaimToFail, At
  <2> QED BY <1>2, <1>3, <1>4, <1>12, <2>1 DEF ReportFailure, ClaimToFail
<1>13. ASSUME NEW s \in Servers, LaneStep(s) PROVE Moves
  BY <1>9, <1>10, <1>11, <1>12, <1>13
     DEF LaneStep, Preflight, PreflightFails, ClaimRefused, Generate, LinkOutput,
         CoverOutput, StartNext, WorkFails, Abandon, Rests
<1>14. ASSUME NEW s \in Servers, Close(s) \/ Kill(s) \/ Restart(s) PROVE Moves
  BY <1>14 DEF Close, Kill, Restart, Rests
<1>15. ASSUME NEW i \in Tasks, Lapse(i) \/ PermissionEdited(i) PROVE Moves
  BY <1>15 DEF Lapse, PermissionEdited, Rests
<1>16. UNCHANGED vars => Moves
  BY DEF vars, Rests
<1> QED BY <1>6, <1>8, <1>13, <1>14, <1>15, <1>16, ChainAssumption DEF Next

-----------------------------------------------------------------------------
(* The life of the chain's tasks *)

\* A published output is what the parent's receipt covers, and it is published
\* by the step that ends the task.
OutputInv ==
  \A i \in Tasks : input[i + 1] # NoBytes => status[i] \in {"completed", "awaiting_review"}

\* A task that did not start has called no model.
RunsInv ==
  \A i \in Tasks : runs[i] <= 1 /\ (status[i] \in {"absent", "queued"} => runs[i] = 0)

ChainInv == ChainUnbroken /\ HandoffsHold /\ OutputInv /\ RunsInv

LEMMA ChainInit == Init => ChainInv /\ WorkInv
<1> SUFFICES ASSUME Init PROVE ChainInv /\ WorkInv
  OBVIOUS
<1>1. ChainInv
  BY TaskFacts DEF Init, ChainInv, ChainUnbroken, HandoffsHold, OutputInv, RunsInv
<1>2. WorkInv
  BY ThreadFacts DEF Init, WorkInv, HandedInv, LaneInv, DeskInv, At
<1> QED BY <1>1, <1>2

LEMMA UnbrokenStep ==
  ASSUME ChainTypeOK, WorkInv, ChainInv, [Next]_vars
  PROVE  ChainUnbroken'
<1> USE TaskFacts DEF ChainUnbroken, ChainInv
<1>1. status \in [Tasks -> {"absent", "queued", "running", "awaiting_review",
                           "completed", "failed"}]
  BY DEF ChainTypeOK
<1>2. CASE Rests
  BY <1>2 DEF Rests
<1>3. CASE Admits
  BY <1>1, <1>3 DEF Admits
<1>4. ASSUME NEW i \in Tasks, Starts(i) \/ GivesUp(i) PROVE ChainUnbroken'
  BY <1>1, <1>4 DEF Starts, GivesUp
<1>5. ASSUME NEW i \in Tasks, NEW b, Hands(i, b) PROVE ChainUnbroken'
  BY <1>1, <1>5 DEF Hands, HandedOn
<1>6. ASSUME NEW b, Publishes(b) PROVE ChainUnbroken'
  BY <1>1, <1>6 DEF Publishes
<1> QED BY <1>2, <1>3, <1>4, <1>5, <1>6, MovesLemma

LEMMA OutputStep ==
  ASSUME ChainTypeOK, WorkInv, ChainInv, [Next]_vars
  PROVE  HandoffsHold' /\ OutputInv'
<1> USE TaskFacts DEF ChainInv
<1>1. /\ status \in [Tasks -> {"absent", "queued", "running", "awaiting_review",
                              "completed", "failed"}]
      /\ input \in [1..5 -> Bytes \cup {NoBytes}]
      /\ NoBytes \notin Bytes
  BY ChainAssumption DEF ChainTypeOK
<1>2. \A i \in Tasks : file[i] # NoBytes => file'[i] = file[i]
  BY GrowLemma DEF FilesGrow
<1>3. covered \subseteq covered'
  BY GrowLemma DEF FilesGrow
<1>4. ASSUME NEW i \in Tasks, input'[i + 1] = input[i + 1],
             status[i] \in {"completed", "awaiting_review"} => status'[i] = status[i]
      PROVE  input'[i + 1] # NoBytes =>
               /\ i \in covered' /\ file'[i] = input'[i + 1]
               /\ status'[i] \in {"completed", "awaiting_review"}
  BY <1>2, <1>3, <1>4 DEF HandoffsHold, OutputInv
<1>5. ASSUME NEW i \in Tasks, NEW b \in Bytes, file[i] = b, i \in covered,
             input'[i + 1] = b, status'[i] \in {"completed", "awaiting_review"}
      PROVE  input'[i + 1] # NoBytes =>
               /\ i \in covered' /\ file'[i] = input'[i + 1]
               /\ status'[i] \in {"completed", "awaiting_review"}
  BY <1>1, <1>2, <1>3, <1>5
<1> SUFFICES ASSUME NEW i \in Tasks
             PROVE  input'[i + 1] # NoBytes =>
                      /\ i \in covered' /\ file'[i] = input'[i + 1]
                      /\ status'[i] \in {"completed", "awaiting_review"}
  BY DEF HandoffsHold, OutputInv
<1>6. CASE Rests
  BY <1>4, <1>6 DEF Rests
<1>7. CASE Admits
  BY <1>1, <1>4, <1>7 DEF Admits
<1>8. CASE \E j \in Tasks : Starts(j) \/ GivesUp(j)
  BY <1>1, <1>4, <1>8 DEF Starts, GivesUp
<1>9. CASE \E j \in Tasks, b \in Bytes : Hands(j, b)
  <2>1. PICK j \in Tasks, b \in Bytes : Hands(j, b)
    BY <1>9
  <2>2. CASE i = j
    <3>1. input'[i + 1] = b /\ status'[i] = "completed"
      BY <1>1, <2>1, <2>2 DEF Hands, HandedOn
    <3> QED BY <1>5, <2>1, <2>2, <3>1 DEF Hands
  <2>3. CASE i # j
    <3>1. input'[i + 1] = input[i + 1]
      BY <1>1, <2>1, <2>3 DEF Hands
    <3>2. status[j + 1] = "absent"
      BY <1>1, <2>1 DEF Hands, ChainUnbroken
    <3>3. status[i] \in {"completed", "awaiting_review"} => status'[i] = status[i]
      BY <1>1, <2>1, <2>3, <3>2 DEF Hands, HandedOn
    <3> QED BY <1>4, <3>1, <3>3
  <2> QED BY <2>2, <2>3
<1>10. CASE \E b \in Bytes : Publishes(b)
  <2>1. PICK b \in Bytes : Publishes(b)
    BY <1>10
  <2>2. CASE i = MaveryQA
    <3>1. input'[i + 1] = b /\ status'[i] = "awaiting_review"
      BY <1>1, <2>1, <2>2 DEF Publishes
    <3> QED BY <1>5, <2>1, <2>2, <3>1 DEF Publishes
  <2>3. CASE i # MaveryQA
    BY <1>1, <1>4, <2>1, <2>3 DEF Publishes
  <2> QED BY <2>2, <2>3
<1> QED BY <1>6, <1>7, <1>8, <1>9, <1>10, MovesLemma

LEMMA RunsStep ==
  ASSUME ChainTypeOK, WorkInv, ChainInv, [Next]_vars
  PROVE  RunsInv'
<1> USE TaskFacts DEF RunsInv, ChainInv
<1>1. /\ status \in [Tasks -> {"absent", "queued", "running", "awaiting_review",
                              "completed", "failed"}]
      /\ runs \in [Tasks -> Nat]
  BY DEF ChainTypeOK
<1>2. CASE Rests
  BY <1>2 DEF Rests
<1>3. CASE Admits
  BY <1>1, <1>3 DEF Admits
<1>4. ASSUME NEW i \in Tasks, Starts(i) PROVE RunsInv'
  BY <1>1, <1>4 DEF Starts
<1>5. ASSUME NEW i \in Tasks, GivesUp(i) PROVE RunsInv'
  BY <1>1, <1>5 DEF GivesUp
<1>6. ASSUME NEW i \in Tasks, NEW b, Hands(i, b) PROVE RunsInv'
  BY <1>1, <1>6 DEF Hands, HandedOn, ChainUnbroken
<1>7. ASSUME NEW b, Publishes(b) PROVE RunsInv'
  BY <1>1, <1>7 DEF Publishes
<1> QED BY <1>2, <1>3, <1>4, <1>5, <1>6, <1>7, MovesLemma

-----------------------------------------------------------------------------
(* What threads know stays true *)

LEMMA CompletedStays ==
  ASSUME ChainTypeOK, WorkInv, ChainInv, [Next]_vars,
         NEW i \in Tasks, status[i] = "completed"
  PROVE  status'[i] = "completed"
<1> USE TaskFacts
<1>1. status \in [Tasks -> {"absent", "queued", "running", "awaiting_review",
                           "completed", "failed"}]
  BY DEF ChainTypeOK
<1>2. ASSUME NEW j \in Tasks, Starts(j) \/ GivesUp(j) PROVE status'[i] = "completed"
  BY <1>1, <1>2 DEF Starts, GivesUp
<1>3. ASSUME NEW j \in Tasks, NEW b, Hands(j, b) PROVE status'[i] = "completed"
  BY <1>1, <1>3 DEF Hands, HandedOn, ChainInv, ChainUnbroken
<1>4. ASSUME NEW b, Publishes(b) PROVE status'[i] = "completed"
  BY <1>1, <1>4 DEF Publishes
<1>5. Rests \/ Admits => status'[i] = "completed"
  BY <1>1 DEF Rests, Admits
<1> QED BY <1>2, <1>3, <1>4, <1>5, MovesLemma

LaneGood(s) == LaneInv(s) /\ (At(s, "handed") => Current(s) # MaveryQA)

LEMMA LaneKeeps ==
  ASSUME ChainTypeOK, WorkInv, ChainInv, [Next]_vars, NEW s \in Servers,
         pc'[Lane(s)] = pc[Lane(s)], made'[s] = made[s],
         queue[s] # << >> => Head(queue'[s]) = Head(queue[s])
  PROVE  LaneGood(s)'
<1>1. CASE pc[Lane(s)] = "idle"
  BY <1>1 DEF LaneGood, LaneInv, At
<1>2. CASE pc[Lane(s)] # "idle"
  <2>1. Current(s)' = Current(s) /\ Current(s) \in Tasks
    BY <1>2, CurrentFacts DEF ChainTypeOK, At, Current
  <2>2. LaneInv(s) /\ (At(s, "handed") => Current(s) # MaveryQA)
    BY DEF WorkInv, HandedInv
  <2>3. At(s, "handed") => status'[Current(s)] = "completed"
    BY <2>1, <2>2, CompletedStays DEF LaneInv
  <2>4. pc[Lane(s)] \in {"linked", "written"} => file'[Current(s)] = made[s]
    BY <2>1, <2>2, GrowLemma, ChainAssumption DEF LaneInv, FilesGrow
  <2>5. At(s, "written") => Current(s) \in covered'
    BY <2>2, GrowLemma DEF LaneInv, FilesGrow
  <2> QED BY <2>1, <2>2, <2>3, <2>4, <2>5 DEF LaneGood, LaneInv, At
<1> QED BY <1>1, <1>2

LEMMA DeskKeeps ==
  ASSUME ChainTypeOK, WorkInv, ChainInv, [Next]_vars, NEW s \in Servers,
         pc'[Desk(s)] = pc[Desk(s)]
  PROVE  DeskInv(s)'
<1>1. DeskInv(s) /\ Inbox \in Tasks /\ Proposal # NoBytes
  BY TaskFacts, ChainAssumption DEF WorkInv
<1>2. FilesGrow
  BY GrowLemma
<1>3. status[Inbox] = "completed" => status'[Inbox] = "completed"
  BY <1>1, CompletedStays
<1> QED BY <1>1, <1>2, <1>3 DEF DeskInv, FilesGrow

LEMMA WorkParts ==
  /\ WorkInv <=> \A s \in Servers : LaneGood(s) /\ DeskInv(s)
  /\ WorkInv' <=> \A s \in Servers : LaneGood(s)' /\ DeskInv(s)'
BY DEF WorkInv, HandedInv, LaneGood, At

\* A desk's step need only show what its own desk knows, a lane's what its
\* own lane knows.
LEMMA DeskWork ==
  ASSUME ChainTypeOK, WorkInv, ChainInv, [Next]_vars, NEW s \in Servers,
         NEW place, Goes(Desk(s), place), UNCHANGED <<queue, made>>, DeskInv(s)'
  PROVE  WorkInv'
<1>1. \A r \in Servers : LaneGood(r)'
  BY DeskMoves, LaneKeeps
<1>2. \A r \in Servers : DeskInv(r)'
  BY DeskMoves, DeskKeeps
<1> QED BY <1>1, <1>2, WorkParts

LEMMA LaneWork ==
  ASSUME ChainTypeOK, WorkInv, ChainInv, [Next]_vars, NEW s \in Servers,
         NEW place, Goes(Lane(s), place), LaneGood(s)',
         \A r \in Servers : r # s => queue'[r] = queue[r] /\ made'[r] = made[r]
  PROVE  WorkInv'
<1>1. \A r \in Servers : r # s => LaneGood(r)'
  BY LaneMoves, LaneKeeps
<1>2. \A r \in Servers : DeskInv(r)'
  BY LaneMoves, DeskKeeps
<1> QED BY <1>1, <1>2, WorkParts

\* A lane at a place where it knows nothing.
LEMMA LaneIdles ==
  ASSUME NEW s \in Servers, NEW place, pc'[Lane(s)] = place,
         place \notin {"writing", "linked", "written", "handed"}
  PROVE  LaneGood(s)'
BY DEF LaneGood, LaneInv, At

LEMMA WorkStep ==
  ASSUME ChainTypeOK, WorkInv, ChainInv, [Next]_vars
  PROVE  WorkInv'
<1> USE DEF broker, files, memory
<1>a. \A s \in Servers : pc[Lane(s)] # "idle" => Current(s) \in Tasks
  BY CurrentFacts DEF ChainTypeOK, At
<1>b. /\ status \in [Tasks -> {"absent", "queued", "running", "awaiting_review",
                              "completed", "failed"}]
      /\ file \in [Tasks -> Bytes \cup {NoBytes}] /\ made \in [Servers -> Bytes \cup {NoBytes}]
      /\ queue \in [Servers -> Seq(Work)]
  BY DEF ChainTypeOK, Work
<1>c. Inbox \in Tasks /\ Inbox = 1 /\ Inbox + 1 \in Tasks
  BY TaskFacts
<1>d. \A s \in Servers : DeskInv(s) /\ LaneGood(s)
  BY WorkParts
<1>1. ASSUME NEW s \in Servers, Submit(s) PROVE WorkInv'
  <2>1. PICK place \in {"admitted", "rejoining"} :
          /\ Goes(Desk(s), place)
          /\ place = "rejoining" => status'[Inbox] = "completed"
    BY <1>1, <1>b DEF Submit
  <2>2. DeskInv(s)'
    BY <2>1, DeskMoves DEF DeskInv
  <2> QED BY <1>1, <2>1, <2>2, DeskWork DEF Submit
<1>2. ASSUME NEW s \in Servers, Route(s) \/ DelegateInbox(s) \/ TurnAway(s) PROVE WorkInv'
  <2>1. PICK place \in {"routing", "handed", "idle"} : Goes(Desk(s), place)
    BY <1>2 DEF Route, DelegateInbox, TurnAway
  <2>2. DeskInv(s)'
    BY <2>1, DeskMoves DEF DeskInv
  <2> QED BY <1>2, <2>1, <2>2, DeskWork DEF Route, DelegateInbox, TurnAway
<1>3. ASSUME NEW s \in Servers, LinkHandoff(s) PROVE WorkInv'
  <2>1. Goes(Desk(s), "linked") /\ file'[Inbox] = Proposal
    BY <1>3, <1>b, <1>c DEF LinkHandoff, Link
  <2>2. DeskInv(s)'
    BY <2>1, DeskMoves DEF DeskInv
  <2> QED BY <1>3, <2>1, <2>2, DeskWork DEF LinkHandoff
<1>4. ASSUME NEW s \in Servers, CoverHandoff(s) \/ ClaimInbox(s) PROVE WorkInv'
  <2>1. file[Inbox] = Proposal /\ file' = file /\ Inbox \in covered'
    BY <1>4, <1>d DEF CoverHandoff, ClaimInbox, Cover, DeskInv
  <2>2. PICK place \in {"written", "claimed"} : Goes(Desk(s), place)
    BY <1>4 DEF CoverHandoff, ClaimInbox
  <2>3. DeskInv(s)'
    BY <2>1, <2>2, DeskMoves DEF DeskInv
  <2> QED BY <1>4, <2>2, <2>3, DeskWork DEF CoverHandoff, ClaimInbox
<1>5. ASSUME NEW s \in Servers, Rejoin(s) \/ StartResearch(s) PROVE WorkInv'
  <2>1. PICK i \in Work : /\ Goes(Desk(s), "idle")
                          /\ queue' = [queue EXCEPT ![s] = Started(s, i, @)]
    BY <1>5, TaskFacts DEF Rejoin, StartResearch, Work
  <2>2. queue[s] \in Seq(Work) /\ IsInjective(queue[s])
    BY DEF ChainTypeOK, Work
  <2>3. \A r \in Servers : queue[r] # << >> => Head(queue'[r]) = Head(queue[r])
    BY <1>b, <2>1, <2>2, StartedFacts
  <2>4. \A r \in Servers : LaneGood(r)'
    BY <1>5, <2>1, <2>3, DeskMoves, LaneKeeps DEF Rejoin, StartResearch
  <2>5. DeskInv(s)'
    BY <2>1, DeskMoves DEF DeskInv
  <2>6. \A r \in Servers : r # s => DeskInv(r)'
    BY <2>1, DeskMoves, DeskKeeps
  <2> QED BY <2>4, <2>5, <2>6, WorkParts
<1>6. ASSUME NEW s \in Servers,
             \/ Preflight(s) \/ PreflightFails(s) \/ ClaimTask(s) \/ ClaimRefused(s)
             \/ WorkFails(s) \/ ReportFailure(s) \/ ClaimToFail(s)
      PROVE  WorkInv'
  <2>1. PICK place \in {"ready", "raised", "generating", "failing"} : Goes(Lane(s), place)
    BY <1>6 DEF Preflight, PreflightFails, ClaimTask, ClaimRefused, WorkFails,
                ReportFailure, ClaimToFail
  <2>2. LaneGood(s)'
    BY <2>1, LaneMoves, LaneIdles
  <2>3. UNCHANGED <<queue, made>>
    BY <1>6 DEF Preflight, PreflightFails, ClaimTask, ClaimRefused, WorkFails,
                ReportFailure, ClaimToFail
  <2> QED BY <2>1, <2>2, <2>3, LaneWork
<1>7. ASSUME NEW s \in Servers, NEW b \in Bytes, Generate(s, b) PROVE WorkInv'
  <2>1. Goes(Lane(s), "writing") /\ made'[s] = b
        /\ \A r \in Servers : r # s => queue'[r] = queue[r] /\ made'[r] = made[r]
    BY <1>7, <1>b DEF Generate
  <2>2. LaneGood(s)'
    BY <2>1, LaneMoves DEF LaneGood, LaneInv, At
  <2> QED BY <2>1, <2>2, LaneWork
<1>8. ASSUME NEW s \in Servers, LinkOutput(s) PROVE WorkInv'
  <2>1. Goes(Lane(s), "linked") /\ UNCHANGED <<queue, made>> /\ made[s] \in Bytes
        /\ Current(s) \in Tasks
    BY <1>8, <1>a, <1>d DEF LinkOutput, LaneGood, LaneInv, At
  <2>2. file'[Current(s)] = made[s]
    BY <1>8, <1>b, <2>1 DEF LinkOutput, Link
  <2>3. LaneGood(s)'
    BY <2>1, <2>2, LaneMoves DEF LaneGood, LaneInv, At, Current
  <2> QED BY <2>1, <2>3, LaneWork
<1>9. ASSUME NEW s \in Servers, CoverOutput(s) PROVE WorkInv'
  <2>1. Goes(Lane(s), "written") /\ UNCHANGED <<queue, made>> /\ made[s] \in Bytes
        /\ file'[Current(s)] = made[s] /\ Current(s) \in covered'
    BY <1>9, <1>d DEF CoverOutput, Cover, LaneGood, LaneInv, At
  <2>2. LaneGood(s)'
    BY <2>1, LaneMoves DEF LaneGood, LaneInv, At, Current
  <2> QED BY <2>1, <2>2, LaneWork
<1>10. ASSUME NEW s \in Servers, HandOn(s) PROVE WorkInv'
  <2>1. Goes(Lane(s), "handed") /\ UNCHANGED <<queue, made>>
        /\ Current(s) \in Tasks /\ Current(s) # MaveryQA
    BY <1>10, <1>a DEF HandOn, Written, At
  <2>2. status'[Current(s)] = "completed"
    BY <1>10, <1>b, <2>1, TaskFacts DEF HandOn, Delegate, HandedOn
  <2>3. LaneGood(s)'
    BY <2>1, <2>2, LaneMoves DEF LaneGood, LaneInv, At, Current
  <2> QED BY <2>1, <2>3, LaneWork
<1>11. ASSUME NEW s \in Servers, StartNext(s) \/ SubmitForReview(s) \/ Abandon(s)
       PROVE  WorkInv'
  <2>1. /\ Goes(Lane(s), "idle")
        /\ \A r \in Servers : r # s => queue'[r] = queue[r] /\ made'[r] = made[r]
    BY <1>11, <1>b DEF StartNext, SubmitForReview, Abandon, Done
  <2>2. LaneGood(s)'
    BY <2>1, LaneMoves, LaneIdles
  <2> QED BY <2>1, <2>2, LaneWork
<1>12. ASSUME UNCHANGED <<pc, queue, made>> PROVE WorkInv'
  BY <1>12, LaneKeeps, DeskKeeps, WorkParts
<1>13. ASSUME NEW s \in Servers, Close(s) PROVE WorkInv'
  BY <1>12, <1>13 DEF Close
<1>14. ASSUME NEW s \in Servers, Kill(s) PROVE WorkInv'
  <2>1. pc'[Desk(s)] = "idle" /\ pc'[Lane(s)] = "idle"
    BY <1>14, ThreadFacts DEF Kill, ChainTypeOK
  <2>2. ASSUME NEW r \in Servers, r # s
        PROVE  /\ pc'[Desk(r)] = pc[Desk(r)] /\ pc'[Lane(r)] = pc[Lane(r)]
               /\ queue'[r] = queue[r] /\ made'[r] = made[r]
    <3>1. Desk(r) # Desk(s) /\ Lane(r) # Lane(s)
      BY <2>2, ThreadFacts
    <3>2. Desk(r) # Lane(s) /\ Lane(r) # Desk(s)
      BY ThreadFacts
    <3>3. Desk(r) \in Threads /\ Lane(r) \in Threads
      BY ThreadFacts
    <3> QED BY <1>14, <1>b, <2>2, <3>1, <3>2, <3>3 DEF Kill, ChainTypeOK
  <2>3. LaneGood(s)' /\ DeskInv(s)'
    BY <2>1, LaneIdles DEF DeskInv
  <2>4. \A r \in Servers : r # s => LaneGood(r)' /\ DeskInv(r)'
    BY <2>2, LaneKeeps, DeskKeeps
  <2> QED BY <2>3, <2>4, WorkParts
<1>15. ASSUME NEW s \in Servers, Restart(s) PROVE WorkInv'
  <2>1. \A r \in Servers : queue[r] # << >> => queue'[r] = queue[r]
    BY <1>15, <1>b DEF Restart
  <2>2. UNCHANGED <<pc, made>>
    BY <1>15 DEF Restart
  <2> QED BY <2>1, <2>2, LaneKeeps, DeskKeeps, WorkParts
<1>16. ASSUME NEW i \in Tasks, Lapse(i) \/ PermissionEdited(i) PROVE WorkInv'
  BY <1>12, <1>16 DEF Lapse, PermissionEdited
<1>17. CASE UNCHANGED vars
  BY <1>12, <1>17 DEF vars
<1> QED
  BY <1>1, <1>2, <1>3, <1>4, <1>5, <1>6, <1>7, <1>8, <1>9, <1>10, <1>11, <1>13, <1>14,
     <1>15, <1>16, <1>17, ChainAssumption
     DEF Next, DeskStep, LaneStep

-----------------------------------------------------------------------------
(* The theorems *)

IInv == ChainTypeOK /\ WorkInv /\ ChainInv

LEMMA Inductive == Spec => []IInv
<1>1. Init => IInv
  BY TypeInit, ChainInit DEF IInv
<1>2. IInv /\ [Next]_vars => IInv'
  <2> SUFFICES ASSUME IInv, [Next]_vars PROVE IInv'
    OBVIOUS
  <2>1. ChainTypeOK'
    BY TypeStep DEF IInv, WorkInv
  <2>2. WorkInv'
    BY WorkStep DEF IInv
  <2>3. ChainInv'
    BY UnbrokenStep, OutputStep, RunsStep DEF IInv, ChainInv
  <2> QED BY <2>1, <2>2, <2>3 DEF IInv
<1> QED BY <1>1, <1>2, PTL DEF Spec

\* Every thread is at a place of its code, and no lane has a task twice.
THEOREM TypeCorrect == Spec => []ChainTypeOK
<1>1. IInv => ChainTypeOK
  BY DEF IInv
<1> QED BY <1>1, Inductive, PTL

\* No task's model is called twice, on any number of servers and through any
\* number of kills (broker_automation.py, task_broker.py claim).
THEOREM ModelsRunOnce == Spec => []RanOnce
<1>1. IInv => RanOnce
  BY DEF IInv, ChainInv, RunsInv, RanOnce
<1> QED BY <1>1, Inductive, PTL

\* What a task is handed is its parent's receipted output, for good.
THEOREM HandoffsAreOutputs == Spec => []HandoffsHold
<1>1. IInv => HandoffsHold
  BY DEF IInv, ChainInv
<1> QED BY <1>1, Inductive, PTL

\* A task is completed exactly when its child exists.
THEOREM ChainsAreUnbroken == Spec => []ChainUnbroken
<1>1. IInv => ChainUnbroken
  BY DEF IInv, ChainInv
<1> QED BY <1>1, Inductive, PTL

-----------------------------------------------------------------------------
(* The life of each task *)

LEMMA LifeStep ==
  ASSUME IInv, [Next]_vars, NEW i \in Tasks
  PROVE  \/ Life!Appear(i) \/ Life!Start(i) \/ Life!GiveUp(i)
         \/ Life!Publish(i) \/ Life!Rest(i)
<1> DEFINE Lives == \/ Life!Appear(i) \/ Life!Start(i) \/ Life!GiveUp(i)
                    \/ Life!Publish(i) \/ Life!Rest(i)
<1> USE TaskFacts DEF Life!Moves, Life!Unpublished, Life!Appear, Life!Start, Life!GiveUp,
                      Life!Publish, Life!Rest
<1>1. /\ status \in [Tasks -> {"absent", "queued", "running", "awaiting_review",
                              "completed", "failed"}]
      /\ input \in [1..5 -> Bytes \cup {NoBytes}] /\ NoBytes \notin Bytes
  BY ChainAssumption DEF IInv, ChainTypeOK
<1>2. status[i] = "running" => input[i + 1] = NoBytes
  BY DEF IInv, ChainInv, OutputInv
<1>3. CASE Rests
  BY <1>3 DEF Rests
<1>4. CASE Admits
  BY <1>1, <1>4 DEF Admits
<1>5. CASE \E j \in Tasks : Starts(j) \/ GivesUp(j)
  BY <1>1, <1>5 DEF Starts, GivesUp
<1>6. ASSUME NEW j \in Tasks, NEW b \in Bytes, Hands(j, b) PROVE Lives
  <2>1. status[j + 1] = "absent" /\ j + 1 \in Tasks
    BY <1>1, <1>6 DEF Hands, IInv, ChainInv, ChainUnbroken
  <2>2. CASE i = j
    BY <1>1, <1>2, <1>6, <2>1, <2>2 DEF Hands, HandedOn
  <2>3. CASE i = j + 1
    BY <1>1, <1>6, <2>1, <2>3 DEF Hands, HandedOn
  <2>4. CASE i \notin {j, j + 1}
    BY <1>1, <1>6, <2>1, <2>4 DEF Hands, HandedOn
  <2> QED BY <2>2, <2>3, <2>4
<1>7. ASSUME NEW b \in Bytes, Publishes(b) PROVE Lives
  BY <1>1, <1>2, <1>7 DEF Publishes
<1> QED BY <1>3, <1>4, <1>5, <1>6, <1>7, MovesLemma DEF IInv

\* Every task of the chain lives the life of a broker task: what it hands on
\* is published once, by the step that ends it.
THEOREM ChainLivesTaskLives == Spec => TasksLive
<1>1. Init => Life!LifeInit
  BY TaskFacts DEF Init, Life!LifeInit
<1>2. IInv /\ [Next]_vars => [Life!LifeNext]_(Life!lifeVars)
  BY LifeStep DEF Life!LifeNext
<1> QED BY <1>1, <1>2, Inductive, PTL DEF Spec, TasksLive, Life!Spec

-----------------------------------------------------------------------------
(* Nobody leaves a task running but the dead *)

Leased == \A i \in Tasks : lessee[i] # NoThread => status[i] = "running" /\ AtWork(lessee[i], i)

WorkPlaces == {"generating", "writing", "linked", "written", "failing"}

\* Where a desk and a lane are at work.
LEMMA WorkAt ==
  ASSUME NEW s \in Servers, NEW i
  PROVE  /\ AtWork(Desk(s), i) <=> i = Inbox /\ pc[Desk(s)] = "claimed"
         /\ AtWork(Desk(s), i)' <=> i = Inbox /\ pc'[Desk(s)] = "claimed"
         /\ AtWork(Lane(s), i) <=> queue[s] # << >> /\ Current(s) = i /\ pc[Lane(s)] \in WorkPlaces
         /\ AtWork(Lane(s), i)' <=>
              queue'[s] # << >> /\ Current(s)' = i /\ pc'[Lane(s)] \in WorkPlaces
BY DEF AtWork, Desk, Lane, Current, WorkPlaces

\* Everybody but t goes on working at what he worked at.
OthersGoOn(t) == \A u \in Threads : \A i \in Tasks : u # t /\ AtWork(u, i) => AtWork(u, i)'

\* A desk's step, which at most adds to queues, disturbs nobody else's work.
LEMMA DeskDisturbsNone ==
  ASSUME ChainTypeOK, NEW s \in Servers, NEW place, Goes(Desk(s), place),
         \A r \in Servers : queue[r] # << >> => queue'[r] # << >> /\ Head(queue'[r]) = Head(queue[r])
  PROVE  OthersGoOn(Desk(s)) /\ pc'[Desk(s)] = place
<1> SUFFICES ASSUME NEW u \in Threads, NEW i \in Tasks, u # Desk(s), AtWork(u, i)
             PROVE  AtWork(u, i)'
  BY DeskMoves DEF OthersGoOn
<1>1. PICK r \in Servers : u = Desk(r) \/ u = Lane(r)
  BY DEF Threads, Desk, Lane
<1>2. CASE u = Desk(r)
  <2>1. r # s
    BY <1>2
  <2>2. pc'[Desk(r)] = pc[Desk(r)]
    BY <2>1, DeskMoves
  <2> QED BY <1>2, <2>2, WorkAt
<1>3. CASE u = Lane(r)
  <2>1. pc'[Lane(r)] = pc[Lane(r)]
    BY DeskMoves
  <2> QED BY <1>3, <2>1, WorkAt DEF Current
<1> QED BY <1>1, <1>2, <1>3

\* A lane's step changes its own queue at most.
LEMMA LaneDisturbsNone ==
  ASSUME ChainTypeOK, NEW s \in Servers, NEW place, Goes(Lane(s), place),
         \A r \in Servers : r # s => queue'[r] = queue[r]
  PROVE  OthersGoOn(Lane(s)) /\ pc'[Lane(s)] = place
<1> SUFFICES ASSUME NEW u \in Threads, NEW i \in Tasks, u # Lane(s), AtWork(u, i)
             PROVE  AtWork(u, i)'
  BY LaneMoves DEF OthersGoOn
<1>1. PICK r \in Servers : u = Desk(r) \/ u = Lane(r)
  BY DEF Threads, Desk, Lane
<1>2. CASE u = Desk(r)
  <2>1. pc'[Desk(r)] = pc[Desk(r)]
    BY LaneMoves
  <2> QED BY <1>2, <2>1, WorkAt
<1>3. CASE u = Lane(r)
  <2>1. r # s
    BY <1>3
  <2>2. pc'[Lane(r)] = pc[Lane(r)] /\ queue'[r] = queue[r]
    BY <2>1, LaneMoves
  <2> QED BY <1>3, <2>2, WorkAt DEF Current
<1> QED BY <1>1, <1>2, <1>3

\* The broker is left alone, and t's own lease with its work.
LEMMA LeasesRest ==
  ASSUME ChainTypeOK, Leased, NEW t, OthersGoOn(t), UNCHANGED <<status, lessee>>,
         \A i \in Tasks : lessee[i] = t /\ AtWork(t, i) => AtWork(t, i)'
  PROVE  Leased'
<1> SUFFICES ASSUME NEW i \in Tasks, lessee[i] # NoThread
             PROVE  status'[i] = "running" /\ AtWork(lessee[i], i)'
  BY DEF Leased
<1>1. PICK u \in Threads : u = lessee[i] /\ u = lessee'[i]
  BY DEF ChainTypeOK
<1>2. status[i] = "running" /\ AtWork(u, i)
  BY <1>1 DEF Leased
<1>3. AtWork(u, i)'
  BY <1>1, <1>2 DEF OthersGoOn
<1> QED BY <1>1, <1>2, <1>3

\* A thread that works at no other task takes one.
LEMMA LeasesTaken ==
  ASSUME ChainTypeOK, Leased, NEW t \in Threads, NEW i \in Tasks, OthersGoOn(t),
         Claim(t, i), \A j \in Tasks : ~AtWork(t, j), AtWork(t, i)'
  PROVE  Leased'
<1> SUFFICES ASSUME NEW j \in Tasks, lessee'[j] # NoThread
             PROVE  status'[j] = "running" /\ AtWork(lessee[j], j)'
  BY DEF Leased
<1>1. CASE j = i
  <2>1. lessee'[j] = t /\ status'[j] = "running"
    BY <1>1 DEF Claim, ChainTypeOK
  <2> QED BY <1>1, <2>1
<1>2. CASE j # i
  <2>1. PICK u \in Threads : u = lessee[j] /\ u = lessee'[j]
    BY <1>2 DEF Claim, ChainTypeOK
  <2>2. status'[j] = status[j] /\ lessee[j] # NoThread
    BY <1>2, <2>1, ChainAssumption DEF Claim, ChainTypeOK, Threads
  <2>3. status[j] = "running" /\ AtWork(u, j)
    BY <2>1, <2>2 DEF Leased
  <2>4. AtWork(u, j)'
    BY <2>3 DEF OthersGoOn
  <2> QED BY <2>1, <2>2, <2>3, <2>4
<1> QED BY <1>1, <1>2

\* The lease on a task ends with its work.
LEMMA LeasesGiven ==
  ASSUME ChainTypeOK, Leased, NEW t \in Threads, NEW i \in Tasks, OthersGoOn(t),
         \A j \in Tasks : AtWork(t, j) => j = i,
         lessee[i] = t => lessee'[i] = NoThread,
         lessee[i] # t => lessee'[i] = lessee[i] /\ status'[i] = status[i],
         \A j \in Tasks \ {i} : lessee'[j] = lessee[j],
         \A j \in Tasks \ {i} : status'[j] = status[j] \/ status[j] # "running"
  PROVE  Leased'
<1> SUFFICES ASSUME NEW j \in Tasks, lessee'[j] # NoThread
             PROVE  status'[j] = "running" /\ AtWork(lessee[j], j)'
  BY DEF Leased
<1>1. lessee'[j] = lessee[j] /\ ~(j = i /\ lessee[i] = t)
  OBVIOUS
<1>2. PICK u \in Threads : u = lessee[j] /\ u = lessee'[j]
  BY <1>1 DEF ChainTypeOK
<1>3. status[j] = "running" /\ AtWork(u, j)
  BY <1>1, <1>2 DEF Leased
<1>4. u # t
  BY <1>1, <1>2, <1>3
<1>5. AtWork(u, j)'
  BY <1>3, <1>4 DEF OthersGoOn
<1>6. status'[j] = status[j]
  BY <1>1, <1>2, <1>3, <1>4
<1> QED BY <1>2, <1>3, <1>5, <1>6

\* What the broker does with a lease that ends.
LEMMA LeaseEnds ==
  ASSUME ChainTypeOK, ChainUnbroken, Leased, NEW t \in Threads, NEW i \in Tasks, NEW b,
         \/ i # MaveryQA /\ Delegate(t, i, b)
         \/ AcceptResult(t, i, b)
         \/ Fail(t, i)
  PROVE  /\ lessee[i] = t => lessee'[i] = NoThread
         /\ lessee[i] # t => lessee'[i] = lessee[i] /\ status'[i] = status[i]
         /\ \A j \in Tasks \ {i} : lessee'[j] = lessee[j]
         /\ \A j \in Tasks \ {i} : status'[j] = status[j] \/ status[j] # "running"
<1> USE DEF ChainTypeOK
<1>0. t # NoThread
  BY ChainAssumption DEF Threads
<1>1. CASE i # MaveryQA /\ Delegate(t, i, b)
  <2>1. status[i] = "running" /\ i + 1 \in Tasks
    BY <1>1, TaskFacts DEF Delegate, Holds
  <2>2. status[i + 1] = "absent"
    BY <1>1, <2>1 DEF ChainUnbroken
  <2> QED BY <1>1, <2>1, <2>2 DEF Delegate, HandedOn, Holds
<1>2. CASE AcceptResult(t, i, b)
  BY <1>2 DEF AcceptResult, Holds
<1>3. CASE Fail(t, i)
  <2>1. CASE Holds(t, i)
    BY <1>3, <2>1 DEF Fail, Holds
  <2>2. CASE ~Holds(t, i)
    <3>1. UNCHANGED <<status, lessee>>
      BY <1>3, <2>2 DEF Fail
    <3>2. lessee[i] # t
      BY <1>0, <2>2 DEF Holds, Leased
    <3> QED BY <3>1, <3>2
  <2> QED BY <2>1, <2>2
<1> QED BY <1>1, <1>2, <1>3

LEMMA DeskLeases ==
  ASSUME IInv, Leased, NEW s \in Servers, Submit(s) \/ DeskStep(s)
  PROVE  Leased'
<1> USE DEF broker, files
<1>0. /\ ChainTypeOK /\ ChainUnbroken /\ Desk(s) \in Threads
      /\ Inbox \in Tasks /\ Inbox # MaveryQA
  BY ThreadFacts, TaskFacts DEF IInv, ChainInv
<1>1. \A i : AtWork(Desk(s), i) <=> i = Inbox /\ pc[Desk(s)] = "claimed"
  BY WorkAt
<1>2. ASSUME NEW place, Goes(Desk(s), place), UNCHANGED queue
      PROVE  OthersGoOn(Desk(s)) /\ pc'[Desk(s)] = place
  BY <1>0, <1>2, DeskDisturbsNone
<1>3. CASE Submit(s)
  <2>1. PICK place : Goes(Desk(s), place)
    BY <1>3 DEF Submit
  <2>2. OthersGoOn(Desk(s))
    BY <1>2, <1>3, <2>1 DEF Submit
  <2>3. \A i \in Tasks : ~AtWork(Desk(s), i)
    BY <1>1, <1>3 DEF Submit
  <2>4. lessee' = lessee /\ \A j \in Tasks : status'[j] = status[j] \/ status[j] # "running"
    BY <1>0, <1>3 DEF Submit, ChainTypeOK
  <2>5. lessee[Inbox] # Desk(s)
    BY <1>0, <2>3, ChainAssumption DEF Leased, Threads
  <2>6. ASSUME status'[Inbox] # status[Inbox] PROVE Leased'
    <3>1. status[Inbox] = "absent"
      BY <1>0, <1>3, <2>6 DEF Submit, ChainTypeOK
    <3>2. lessee[Inbox] = NoThread
      BY <1>0, <3>1 DEF Leased
    <3> SUFFICES ASSUME NEW j \in Tasks, lessee'[j] # NoThread
                 PROVE  status'[j] = "running" /\ AtWork(lessee[j], j)'
      BY DEF Leased
    <3>3. PICK u \in Threads : u = lessee[j] /\ u = lessee'[j]
      BY <1>0, <2>4 DEF ChainTypeOK
    <3>4. status[j] = "running" /\ AtWork(u, j) /\ status'[j] = "running"
      BY <2>4, <3>3 DEF Leased
    <3>5. AtWork(u, j)'
      BY <2>2, <2>3, <3>4 DEF OthersGoOn
    <3> QED BY <3>3, <3>4, <3>5
  <2>7. ASSUME status'[Inbox] = status[Inbox] PROVE Leased'
    <3>1. \A j \in Tasks \ {Inbox} : lessee'[j] = lessee[j] /\ (status'[j] = status[j] \/ status[j] # "running")
      BY <2>4
    <3> QED BY <1>0, <2>2, <2>3, <2>4, <2>5, <2>7, <3>1, LeasesGiven
  <2> QED BY <2>6, <2>7
<1>4. CASE Route(s) \/ LinkHandoff(s) \/ CoverHandoff(s)
  <2>1. PICK place : Goes(Desk(s), place)
    BY <1>4 DEF Route, LinkHandoff, CoverHandoff
  <2>2. OthersGoOn(Desk(s)) /\ UNCHANGED <<status, lessee>>
    BY <1>2, <1>4, <2>1 DEF Route, LinkHandoff, CoverHandoff
  <2>3. \A i \in Tasks : ~AtWork(Desk(s), i)
    BY <1>1, <1>4 DEF Route, LinkHandoff, CoverHandoff
  <2> QED BY <1>0, <2>2, <2>3, LeasesRest
<1>5. CASE Rejoin(s) \/ StartResearch(s)
  <2>1. PICK k \in Work : queue' = [queue EXCEPT ![s] = Started(s, k, @)]
    BY <1>5, TaskFacts DEF Rejoin, StartResearch, Work
  <2>2. queue[s] \in Seq(Work) /\ IsInjective(queue[s]) /\ queue \in [Servers -> Seq(Work)]
    BY <1>0 DEF ChainTypeOK, Work
  <2>3. \A r \in Servers : queue[r] # << >> => queue'[r] # << >> /\ Head(queue'[r]) = Head(queue[r])
    BY <2>1, <2>2, StartedFacts
  <2>4. Goes(Desk(s), "idle") /\ UNCHANGED <<status, lessee>>
    BY <1>5 DEF Rejoin, StartResearch
  <2>5. OthersGoOn(Desk(s))
    BY <1>0, <2>3, <2>4, DeskDisturbsNone
  <2>6. \A i \in Tasks : ~AtWork(Desk(s), i)
    BY <1>1, <1>5 DEF Rejoin, StartResearch
  <2> QED BY <1>0, <2>4, <2>5, <2>6, LeasesRest
<1>6. CASE ClaimInbox(s)
  <2>1. Claim(Desk(s), Inbox) /\ Goes(Desk(s), "claimed") /\ UNCHANGED queue
    BY <1>6 DEF ClaimInbox
  <2>2. OthersGoOn(Desk(s)) /\ pc'[Desk(s)] = "claimed"
    BY <1>2, <2>1
  <2>3. AtWork(Desk(s), Inbox)' /\ \A i \in Tasks : ~AtWork(Desk(s), i)
    BY <1>1, <1>6, <2>2, WorkAt DEF ClaimInbox
  <2> QED BY <1>0, <2>1, <2>2, <2>3, LeasesTaken
<1>7. CASE DelegateInbox(s) \/ (TurnAway(s) /\ pc[Desk(s)] = "claimed")
  <2>1. PICK place : Goes(Desk(s), place) /\ UNCHANGED queue
    BY <1>7 DEF DelegateInbox, TurnAway
  <2>2. OthersGoOn(Desk(s))
    BY <1>2, <2>1
  <2>3. Delegate(Desk(s), Inbox, Proposal) \/ Fail(Desk(s), Inbox)
    BY <1>7 DEF DelegateInbox, TurnAway
  <2> QED BY <1>0, <1>1, <2>2, <2>3, LeaseEnds, LeasesGiven
<1>8. CASE TurnAway(s) /\ pc[Desk(s)] # "claimed"
  <2>1. Goes(Desk(s), "idle") /\ UNCHANGED <<status, lessee, queue>>
    BY <1>8 DEF TurnAway
  <2> QED BY <1>0, <1>1, <1>2, <1>8, <2>1, LeasesRest
<1> QED BY <1>3, <1>4, <1>5, <1>6, <1>7, <1>8 DEF DeskStep

LEMMA LaneLeases ==
  ASSUME IInv, Leased, NEW s \in Servers, LaneStep(s)
  PROVE  Leased'
<1> USE DEF broker, files
<1>0. ChainTypeOK /\ ChainUnbroken /\ Lane(s) \in Threads
  BY ThreadFacts DEF IInv, ChainInv
<1>1. \A i : AtWork(Lane(s), i) <=>
        queue[s] # << >> /\ Current(s) = i /\ pc[Lane(s)] \in WorkPlaces
  BY WorkAt
<1>2. pc[Lane(s)] # "idle" => queue[s] # << >> /\ Current(s) \in Tasks
  BY <1>0, CurrentFacts DEF ChainTypeOK, At
<1>3. ASSUME NEW place, Goes(Lane(s), place), UNCHANGED queue
      PROVE  /\ OthersGoOn(Lane(s))
             /\ \A i : AtWork(Lane(s), i)' <=>
                  queue[s] # << >> /\ Current(s) = i /\ place \in WorkPlaces
  BY <1>0, <1>3, LaneDisturbsNone, WorkAt DEF Current
<1>4. CASE Preflight(s) \/ PreflightFails(s) \/ ClaimRefused(s)
  <2>1. PICK place : Goes(Lane(s), place) /\ UNCHANGED <<queue, status, lessee>>
    BY <1>4 DEF Preflight, PreflightFails, ClaimRefused
  <2>2. \A i \in Tasks : ~AtWork(Lane(s), i)
    BY <1>1, <1>4 DEF Preflight, PreflightFails, ClaimRefused, At, WorkPlaces
  <2> QED BY <1>0, <1>3, <2>1, <2>2, LeasesRest
<1>5. CASE ClaimTask(s) \/ ClaimToFail(s)
  <2>1. PICK place \in WorkPlaces :
          Goes(Lane(s), place) /\ UNCHANGED queue /\ Claim(Lane(s), Current(s))
    BY <1>5 DEF ClaimTask, ClaimToFail, WorkPlaces
  <2>2. Current(s) \in Tasks /\ AtWork(Lane(s), Current(s))' /\ \A i \in Tasks : ~AtWork(Lane(s), i)
    <3>1. pc[Lane(s)] \in {"ready", "raised"}
      BY <1>5 DEF ClaimTask, ClaimToFail, At
    <3>2. Current(s) \in Tasks /\ queue[s] # << >>
      BY <1>2, <3>1
    <3>3. PICK c : c = Current(s)
      OBVIOUS
    <3>4. AtWork(Lane(s), c)'
      BY <1>3, <2>1, <3>2, <3>3
    <3>5. Current(s)' = c
      BY <2>1, <3>3 DEF Current
    <3> QED BY <1>1, <3>1, <3>2, <3>3, <3>4, <3>5 DEF WorkPlaces, AtWork
  <2>3. OthersGoOn(Lane(s))
    BY <1>3, <2>1
  <2>4. PICK c \in Tasks : c = Current(s)
    BY <2>2
  <2>5. AtWork(Lane(s), c)' /\ Claim(Lane(s), c)
    BY <1>2, <1>3, <1>5, <2>1, <2>4 DEF ClaimTask, ClaimToFail, At
  <2> QED BY <1>0, <2>2, <2>3, <2>4, <2>5, LeasesTaken
<1>6. CASE (\E b \in Bytes : Generate(s, b)) \/ LinkOutput(s) \/ CoverOutput(s) \/ WorkFails(s)
  <2>1. PICK place \in WorkPlaces : Goes(Lane(s), place) /\ UNCHANGED <<queue, status, lessee>>
    BY <1>6 DEF Generate, LinkOutput, CoverOutput, WorkFails, WorkPlaces
  <2>2. \A i \in Tasks : AtWork(Lane(s), i) => AtWork(Lane(s), i)'
    BY <1>1, <1>3, <2>1
  <2> QED BY <1>0, <1>3, <2>1, <2>2, LeasesRest
<1>7. CASE HandOn(s) \/ ReportFailure(s) \/ SubmitForReview(s)
  <2>1. pc[Lane(s)] \in {"written", "failing"}
    BY <1>7 DEF HandOn, ReportFailure, SubmitForReview, Written, At
  <2>2. PICK c \in Tasks : c = Current(s)
    BY <1>2, <2>1
  <2>3. /\ \A j \in Tasks : AtWork(Lane(s), j) => j = c
        /\ \/ c # MaveryQA /\ Delegate(Lane(s), c, made[s])
           \/ AcceptResult(Lane(s), c, made[s])
           \/ Fail(Lane(s), c)
    BY <1>1, <1>7, <2>2 DEF HandOn, ReportFailure, SubmitForReview
  <2>4. OthersGoOn(Lane(s))
    <3>1. CASE HandOn(s) \/ ReportFailure(s)
      BY <1>3, <3>1 DEF HandOn, ReportFailure
    <3>2. CASE SubmitForReview(s)
      <4>1. Goes(Lane(s), "idle") /\ \A r \in Servers : r # s => queue'[r] = queue[r]
        BY <1>0, <3>2 DEF SubmitForReview, Done, ChainTypeOK
      <4> QED BY <1>0, <4>1, LaneDisturbsNone
    <3> QED BY <1>7, <3>1, <3>2
  <2> QED BY <1>0, <2>3, <2>4, LeaseEnds, LeasesGiven
<1>8. CASE StartNext(s) \/ Abandon(s)
  <2>1. /\ Goes(Lane(s), "idle") /\ \A r \in Servers : r # s => queue'[r] = queue[r]
        /\ UNCHANGED <<status, lessee>>
    BY <1>0, <1>8 DEF StartNext, Abandon, Done, ChainTypeOK
  <2>2. \A i \in Tasks : ~AtWork(Lane(s), i)
    BY <1>1, <1>8 DEF StartNext, Abandon, At, WorkPlaces
  <2>3. OthersGoOn(Lane(s))
    BY <1>0, <2>1, LaneDisturbsNone
  <2> QED BY <1>0, <2>1, <2>2, <2>3, LeasesRest
<1> QED BY <1>4, <1>5, <1>6, <1>7, <1>8 DEF LaneStep

LEMMA StuckStep == IInv /\ StuckOnlyByDeath /\ [Next]_vars => StuckOnlyByDeath'
<1> SUFFICES ASSUME IInv, StuckOnlyByDeath, [Next]_vars, kills' = 0 PROVE Leased'
  BY DEF StuckOnlyByDeath, Leased
<1> USE DEF broker, files, memory
<1>0. ChainTypeOK /\ kills \in Nat
  BY ChainAssumption DEF IInv, ChainTypeOK
<1>1. StuckOnlyByDeath /\ kills = 0 => Leased
  BY DEF StuckOnlyByDeath, Leased
<1>2. ASSUME NEW s \in Servers, Submit(s) \/ DeskStep(s) PROVE Leased'
  <2>1. UNCHANGED kills
    BY <1>2 DEF Submit, DeskStep, Route, Rejoin, LinkHandoff, CoverHandoff, ClaimInbox,
                DelegateInbox, StartResearch, TurnAway
  <2> QED BY <1>1, <1>2, <2>1, DeskLeases
<1>3. ASSUME NEW s \in Servers, LaneStep(s) PROVE Leased'
  <2>1. UNCHANGED kills
    BY <1>3 DEF LaneStep, Preflight, PreflightFails, ClaimTask, ClaimRefused, Generate,
                LinkOutput, CoverOutput, HandOn, StartNext, SubmitForReview, WorkFails,
                ReportFailure, ClaimToFail, Abandon
  <2> QED BY <1>1, <1>3, <2>1, LaneLeases
<1>4. ASSUME NEW s \in Servers, Kill(s) PROVE FALSE
  BY <1>0, <1>4 DEF Kill
<1>5. ASSUME UNCHANGED <<kills, status, pc>>,
             \A r \in Servers : pc[Lane(r)] # "idle" => queue'[r] = queue[r],
             \A i \in Tasks : lessee'[i] \in {lessee[i], NoThread}
      PROVE  Leased'
  <2> SUFFICES ASSUME NEW i \in Tasks, lessee'[i] # NoThread
               PROVE  status'[i] = "running" /\ AtWork(lessee[i], i)'
    BY DEF Leased
  <2>1. PICK u \in Threads : u = lessee[i] /\ u = lessee'[i]
    BY <1>0, <1>5 DEF ChainTypeOK
  <2>2. status[i] = "running" /\ AtWork(u, i)
    BY <1>1, <1>5, <2>1 DEF Leased
  <2>3. PICK r \in Servers : u = Desk(r) \/ u = Lane(r)
    BY DEF Threads, Desk, Lane
  <2>4. AtWork(u, i)'
    BY <1>5, <2>2, <2>3, WorkAt DEF WorkPlaces, Current
  <2> QED BY <1>5, <2>1, <2>2, <2>4
<1>6. ASSUME NEW s \in Servers, Close(s) \/ Restart(s) PROVE Leased'
  <2>1. \A r \in Servers : pc[Lane(r)] # "idle" => queue'[r] = queue[r]
    BY <1>0, <1>6 DEF Close, Restart, ChainTypeOK, At
  <2> QED BY <1>5, <1>6, <2>1 DEF Close, Restart
<1>7. ASSUME NEW i \in Tasks, Lapse(i) \/ PermissionEdited(i) PROVE Leased'
  BY <1>0, <1>5, <1>7 DEF Lapse, PermissionEdited, ChainTypeOK
<1>8. CASE UNCHANGED vars
  BY <1>5, <1>8 DEF vars
<1> QED BY <1>2, <1>3, <1>4, <1>6, <1>7, <1>8, ChainAssumption DEF Next

\* A task that still runs under a live lease has its thread at work, unless
\* some process was killed (broker_automation.py _execute).
THEOREM OnlyDeathLeavesWork == Spec => []StuckOnlyByDeath
<1>1. Init => StuckOnlyByDeath
  BY DEF Init, StuckOnlyByDeath
<1> QED BY <1>1, StuckStep, Inductive, PTL DEF Spec

-----------------------------------------------------------------------------
(* No queued task is forgotten *)

\* Server s has task i, is about to take it, or will find it.
Has(s, i) ==
  \/ ~up[s]
  \/ i \in ToSet(queue[s])
  \/ pc[Desk(s)] = "handed" /\ i = Research
  \/ At(s, "handed") /\ i = Current(s) + 1

Remembered == \A i \in Work : status[i] = "queued" => \E s \in Servers : Has(s, i)

\* What each step does to the rest of the servers.
LEMMA DeskForgetsNone ==
  ASSUME ChainTypeOK, NEW s \in Servers, NEW place, Goes(Desk(s), place), UNCHANGED up,
         \A r \in Servers : queue[r] # << >> => queue'[r] # << >> /\ Head(queue'[r]) = Head(queue[r]),
         \A r \in Servers : ToSet(queue[r]) \subseteq ToSet(queue'[r]),
         NEW r \in Servers, NEW i, Has(r, i), r = s => pc[Desk(s)] # "handed"
  PROVE  Has(r, i)'
<1>1. pc'[Lane(r)] = pc[Lane(r)] /\ (pc[Desk(r)] = "handed" => pc'[Desk(r)] = "handed")
  BY DeskMoves
<1>2. At(r, "handed") => Current(r)' = Current(r)
  BY DEF ChainTypeOK, At, Current
<1> QED BY <1>1, <1>2 DEF Has, At

LEMMA LaneForgetsNone ==
  ASSUME ChainTypeOK, NEW s \in Servers, NEW place, Goes(Lane(s), place), UNCHANGED up,
         \A r \in Servers : r # s => queue'[r] = queue[r],
         NEW r \in Servers, NEW i, Has(r, i),
         r = s => ~At(s, "handed") /\ (i \in ToSet(queue[s]) => i \in ToSet(queue'[s]))
  PROVE  Has(r, i)'
<1>1. CASE r = s
  <2>1. pc'[Desk(r)] = pc[Desk(r)] /\ ~At(r, "handed")
    BY <1>1, LaneMoves
  <2> QED BY <1>1, <2>1 DEF Has
<1>2. CASE r # s
  <2>1. pc'[Desk(r)] = pc[Desk(r)] /\ pc'[Lane(r)] = pc[Lane(r)] /\ queue'[r] = queue[r]
    BY <1>2, LaneMoves
  <2> QED BY <2>1 DEF Has, At, Current
<1> QED BY <1>1, <1>2

\* What a future leaves behind it in the queue when it is done.
LEMMA DoneLeaves ==
  ASSUME ChainTypeOK, NEW s \in Servers, queue[s] # << >>, NEW q,
         q \in Seq(Work), q # << >>, IsInjective(q), Head(q) = Current(s),
         ToSet(queue[s]) \subseteq ToSet(q), Done(s, Tail(q)), NEW i, i # Current(s)
  PROVE  /\ i \in ToSet(q) => i \in ToSet(queue'[s])
         /\ \A r \in Servers : r # s => queue'[r] = queue[r]
<1>1. queue'[s] = Tail(q) /\ \A r \in Servers : r # s => queue'[r] = queue[r]
  BY DEF Done, ChainTypeOK
<1>2. i \in ToSet(q) => i \in ToSet(Tail(q))
  BY TailFacts
<1> QED BY <1>1, <1>2

LEMMA DeskRemembers ==
  ASSUME IInv, granted = Tasks, Remembered, NEW s \in Servers, Submit(s) \/ DeskStep(s)
  PROVE  Remembered'
<1> USE DEF broker, files
<1>0. /\ ChainTypeOK /\ Inbox = 1 /\ Research = 2 /\ Work = 2..4 /\ Tasks = 1..4 /\ MaveryQA = 4
      /\ Desk(s) \in Threads /\ up \in [Servers -> BOOLEAN]
  BY ThreadFacts, TaskFacts DEF IInv, ChainTypeOK
<1>1. SUFFICES ASSUME NEW i \in Work, status'[i] = "queued"
               PROVE  \E r \in Servers : Has(r, i)'
  BY DEF Remembered
<1>2. CASE DelegateInbox(s) /\ i = Research
  <2>1. Has(s, i)'
    BY <1>0, <1>2, DeskMoves DEF DelegateInbox, Has
  <2> QED BY <2>1
<1>3. CASE StartResearch(s) /\ i = Research
  <2>1. /\ queue' = [queue EXCEPT ![s] = Started(s, Research, @)]
        /\ UNCHANGED <<status, granted, up>>
    BY <1>3 DEF StartResearch
  <2>2. Claimable(Research)
    BY <1>0, <1>1, <1>3, <2>1 DEF Claimable
  <2>3. queue[s] \in Seq(Work) /\ IsInjective(queue[s]) /\ Research \in Work
    BY <1>0 DEF ChainTypeOK
  <2>4. up[s] => Research \in ToSet(Started(s, Research, queue[s]))
    BY <2>2, <2>3, StartedFacts
  <2>5. Has(s, i)'
    BY <1>0, <1>3, <2>1, <2>4 DEF Has, ChainTypeOK
  <2> QED BY <2>5
<1>4. CASE ~(DelegateInbox(s) /\ i = Research) /\ ~(StartResearch(s) /\ i = Research)
  <2>1. status[i] = "queued" /\ UNCHANGED up
    <3>1. CASE Submit(s)
      BY <1>0, <1>1, <3>1 DEF Submit, ChainTypeOK
    <3>2. CASE ClaimInbox(s)
      BY <1>0, <1>1, <3>2 DEF ClaimInbox, Claim, ChainTypeOK
    <3>3. CASE DelegateInbox(s)
      BY <1>0, <1>1, <1>4, <3>3 DEF DelegateInbox, Delegate, HandedOn, ChainTypeOK
    <3>4. CASE TurnAway(s)
      BY <1>0, <1>1, <3>4 DEF TurnAway, Fail, ChainTypeOK
    <3>5. CASE Route(s) \/ Rejoin(s) \/ LinkHandoff(s) \/ CoverHandoff(s) \/ StartResearch(s)
      BY <1>1, <3>5 DEF Route, Rejoin, LinkHandoff, CoverHandoff, StartResearch
    <3> QED BY <3>1, <3>2, <3>3, <3>4, <3>5 DEF DeskStep
  <2>2. PICK r \in Servers : Has(r, i)
    BY <2>1 DEF Remembered
  <2>3. PICK place : Goes(Desk(s), place)
    BY DEF Submit, DeskStep, Route, Rejoin, LinkHandoff, CoverHandoff, ClaimInbox,
           DelegateInbox, StartResearch, TurnAway
  <2>4. \A z \in Servers :
          /\ queue[z] # << >> => queue'[z] # << >> /\ Head(queue'[z]) = Head(queue[z])
          /\ ToSet(queue[z]) \subseteq ToSet(queue'[z])
    <3>1. CASE UNCHANGED queue
      BY <3>1
    <3>2. CASE Rejoin(s) \/ StartResearch(s)
      <4>1. PICK j \in Work : queue' = [queue EXCEPT ![s] = Started(s, j, @)]
        BY <1>0, <3>2, TaskFacts DEF Rejoin, StartResearch
      <4>2. queue[s] \in Seq(Work) /\ IsInjective(queue[s]) /\ queue \in [Servers -> Seq(Work)]
        BY <1>0 DEF ChainTypeOK
      <4> QED BY <4>1, <4>2, StartedFacts
    <3> QED
      BY <3>1, <3>2 DEF Submit, DeskStep, Route, LinkHandoff, CoverHandoff, ClaimInbox,
                        DelegateInbox, TurnAway
  <2>5. CASE pc[Desk(s)] # "handed"
    <3>1. Has(r, i)'
      BY <1>0, <2>1, <2>2, <2>3, <2>4, <2>5, DeskForgetsNone
    <3> QED BY <3>1
  <2>6. CASE pc[Desk(s)] = "handed"
    <3>1. StartResearch(s) /\ i # Research
      BY <1>4, <2>6 DEF Submit, DeskStep, Route, Rejoin, LinkHandoff, CoverHandoff, ClaimInbox,
                        DelegateInbox, TurnAway
    <3>2. pc'[Lane(r)] = pc[Lane(r)] /\ (At(r, "handed") => Current(r)' = Current(r))
      BY <1>0, <2>3, <2>4, DeskMoves DEF ChainTypeOK, At, Current
    <3>3. Has(r, i)'
      BY <2>1, <2>2, <2>4, <3>1, <3>2 DEF Has, At
    <3> QED BY <3>3
  <2> QED BY <2>5, <2>6
<1> QED BY <1>2, <1>3, <1>4

LEMMA LaneRemembers ==
  ASSUME IInv, granted = Tasks, Remembered, NEW s \in Servers, LaneStep(s)
  PROVE  Remembered'
<1> USE DEF broker, files
<1>0. /\ ChainTypeOK /\ Work = 2..4 /\ Tasks = 1..4 /\ MaveryQA = 4
      /\ up \in [Servers -> BOOLEAN]
      /\ status \in [Tasks -> {"absent", "queued", "running", "awaiting_review",
                               "completed", "failed"}]
      /\ LaneInv(s) /\ (At(s, "handed") => Current(s) # MaveryQA)
  BY TaskFacts DEF IInv, ChainTypeOK, WorkInv, HandedInv
<1>1. UNCHANGED up
  BY DEF LaneStep, Preflight, PreflightFails, ClaimTask, ClaimRefused, Generate, LinkOutput,
         CoverOutput, HandOn, StartNext, SubmitForReview, WorkFails, ReportFailure,
         ClaimToFail, Abandon
<1>2. /\ queue[s] # << >> /\ Current(s) \in Work /\ Current(s) \in Tasks
      /\ Current(s) = Head(queue[s])
      /\ queue[s] \in Seq(Work) /\ IsInjective(queue[s])
  <2>1. queue[s] # << >>
    BY <1>0 DEF LaneStep, Preflight, PreflightFails, ClaimTask, ClaimRefused, Generate,
                LinkOutput, CoverOutput, HandOn, StartNext, SubmitForReview, WorkFails,
                ReportFailure, ClaimToFail, Abandon, At, Written, ChainTypeOK
  <2> QED BY <1>0, <2>1, CurrentFacts DEF ChainTypeOK
<1>3. PICK c \in Work : c = Current(s) /\ c \in Tasks
  BY <1>2
<1>4. SUFFICES ASSUME NEW i \in Work, status'[i] = "queued"
               PROVE  \E r \in Servers : Has(r, i)'
  BY DEF Remembered
<1>5. ASSUME NEW place, Goes(Lane(s), place), UNCHANGED queue, status[i] = "queued",
             ~At(s, "handed")
      PROVE  \E r \in Servers : Has(r, i)'
  <2>1. PICK r \in Servers : Has(r, i)
    BY <1>5 DEF Remembered
  <2>2. Has(r, i)'
    BY <1>0, <1>1, <1>5, <2>1, LaneForgetsNone
  <2> QED BY <2>2
<1>6. ASSUME NEW q \in Seq(Work), q # << >>, IsInjective(q), Head(q) = c,
             ToSet(queue[s]) \subseteq ToSet(q), Done(s, Tail(q)),
             status[i] = "queued", i # c,
             At(s, "handed") => i # c + 1
      PROVE  \E r \in Servers : Has(r, i)'
  <2>1. PICK r \in Servers : Has(r, i)
    BY <1>6 DEF Remembered
  <2>2. /\ i \in ToSet(q) => i \in ToSet(queue'[s])
        /\ \A z \in Servers : z # s => queue'[z] = queue[z]
    BY <1>0, <1>2, <1>3, <1>6, DoneLeaves
  <2>3. Goes(Lane(s), "idle")
    BY <1>6 DEF Done
  <2>4. CASE r = s
    <3>1. pc'[Desk(s)] = pc[Desk(s)]
      BY <1>0, <2>3, LaneMoves
    <3>2. ~(At(s, "handed") /\ i = Current(s) + 1)
      BY <1>3, <1>6
    <3>3. Has(s, i)'
      BY <1>1, <1>6, <2>1, <2>2, <2>4, <3>1, <3>2 DEF Has
    <3> QED BY <3>3
  <2>5. CASE r # s
    <3>1. Has(r, i)'
      BY <1>0, <1>1, <2>1, <2>2, <2>3, <2>5, LaneForgetsNone
    <3> QED BY <3>1
  <2> QED BY <2>4, <2>5
<1>7. CASE \/ Preflight(s) \/ PreflightFails(s) \/ ClaimRefused(s) \/ WorkFails(s)
           \/ (\E b \in Bytes : Generate(s, b)) \/ LinkOutput(s) \/ CoverOutput(s)
  <2>1. /\ ~At(s, "handed") /\ UNCHANGED <<queue, status>>
        /\ \E place : Goes(Lane(s), place)
    BY <1>7 DEF Preflight, PreflightFails, ClaimRefused, WorkFails, Generate, LinkOutput,
                CoverOutput, At
  <2> QED BY <1>4, <1>5, <2>1
<1>8. CASE ClaimTask(s) \/ ClaimToFail(s) \/ ReportFailure(s)
  <2>1. ~At(s, "handed") /\ UNCHANGED queue /\ \E place : Goes(Lane(s), place)
    BY <1>8 DEF ClaimTask, ClaimToFail, ReportFailure, At
  <2>2. status[i] = "queued"
    BY <1>0, <1>3, <1>4, <1>8 DEF ClaimTask, ClaimToFail, ReportFailure, Claim, Fail
  <2> QED BY <1>5, <2>1, <2>2
<1>9. CASE HandOn(s)
  <2>1. ~At(s, "handed") /\ UNCHANGED queue /\ Goes(Lane(s), "handed")
    BY <1>9 DEF HandOn, Written, At
  <2>2. CASE i = c + 1
    <3>1. pc'[Lane(s)] = "handed" /\ Current(s)' = c
      BY <1>0, <1>3, <2>1, LaneMoves DEF Current
    <3>2. Has(s, i)'
      BY <2>2, <3>1 DEF Has, At
    <3> QED BY <3>2
  <2>3. CASE i # c + 1
    <3>1. status[i] = "queued"
      BY <1>0, <1>3, <1>4, <1>9, <2>3 DEF HandOn, Delegate, HandedOn
    <3> QED BY <1>5, <2>1, <3>1
  <2> QED BY <2>2, <2>3
<1>10. CASE StartNext(s)
  <2>1. At(s, "handed") /\ status[c] = "completed" /\ c + 1 \in Work /\ UNCHANGED <<status, granted>>
    BY <1>0, <1>3, <1>10 DEF StartNext, LaneInv
  <2>2. PICK q : q = Started(s, c + 1, queue[s])
    OBVIOUS
  <2>3. /\ q \in Seq(Work) /\ IsInjective(q) /\ q # << >> /\ Head(q) = c
        /\ ToSet(queue[s]) \subseteq ToSet(q)
        /\ up[s] /\ Claimable(c + 1) => c + 1 \in ToSet(q)
    BY <1>2, <1>3, <2>1, <2>2, StartedFacts
  <2>4. Done(s, Tail(q))
    BY <1>3, <1>10, <2>2 DEF StartNext
  <2>5. i # c /\ status[i] = "queued"
    BY <1>0, <1>3, <1>4, <2>1
  <2>6. CASE i = c + 1
    <3>1. Claimable(i)
      BY <1>0, <2>5, <2>1, <2>6 DEF Claimable
    <3>2. up[s] => i \in ToSet(queue'[s])
      BY <1>0, <1>2, <1>3, <2>3, <2>4, <2>5, <2>6, <3>1, DoneLeaves
    <3>3. Has(s, i)'
      BY <1>1, <3>2 DEF Has
    <3> QED BY <3>3
  <2>7. CASE i # c + 1
    BY <1>6, <2>3, <2>4, <2>5, <2>7
  <2> QED BY <2>6, <2>7
<1>11. CASE SubmitForReview(s) \/ Abandon(s)
  <2>1. Done(s, Tail(queue[s])) /\ ~At(s, "handed")
    BY <1>11 DEF SubmitForReview, Abandon, Written, At
  <2>2. status[i] = "queued" /\ i # c
    <3>1. CASE SubmitForReview(s)
      BY <1>0, <1>3, <1>4, <3>1 DEF SubmitForReview, AcceptResult, Holds
    <3>2. CASE Abandon(s)
      BY <1>0, <1>3, <1>4, <3>2 DEF Abandon, Claimable
    <3> QED BY <1>11, <3>1, <3>2
  <2> QED BY <1>2, <1>3, <1>6, <2>1, <2>2
<1> QED BY <1>7, <1>8, <1>9, <1>10, <1>11 DEF LaneStep

\* While permissions stay, all of them do.
AllGranted == Revocable = {} => granted = Tasks /\ Remembered

LEMMA RememberStep == IInv /\ AllGranted /\ [Next]_vars => AllGranted'
<1> SUFFICES ASSUME IInv, AllGranted, [Next]_vars, Revocable = {}
             PROVE  granted' = Tasks /\ Remembered'
  BY DEF AllGranted
<1> USE DEF broker, files, memory
<1>0. ChainTypeOK /\ granted = Tasks /\ Remembered
  BY DEF IInv, AllGranted
<1>1. ASSUME NEW s \in Servers, Submit(s) \/ DeskStep(s) PROVE granted' = Tasks /\ Remembered'
  <2>1. UNCHANGED granted
    BY <1>1 DEF Submit, DeskStep, Route, Rejoin, LinkHandoff, CoverHandoff, ClaimInbox,
                DelegateInbox, StartResearch, TurnAway
  <2> QED BY <1>0, <1>1, <2>1, DeskRemembers
<1>2. ASSUME NEW s \in Servers, LaneStep(s) PROVE granted' = Tasks /\ Remembered'
  <2>1. UNCHANGED granted
    BY <1>2 DEF LaneStep, Preflight, PreflightFails, ClaimTask, ClaimRefused, Generate,
                LinkOutput, CoverOutput, HandOn, StartNext, SubmitForReview, WorkFails,
                ReportFailure, ClaimToFail, Abandon
  <2> QED BY <1>0, <1>2, <2>1, LaneRemembers
<1>3. ASSUME UNCHANGED <<status, granted>>,
             \A i \in Work, r \in Servers : status[i] = "queued" /\ Has(r, i) => Has(r, i)'
      PROVE  granted' = Tasks /\ Remembered'
  <2> SUFFICES ASSUME NEW i \in Work, status'[i] = "queued" PROVE \E r \in Servers : Has(r, i)'
    BY <1>0, <1>3 DEF Remembered
  <2>1. PICK r \in Servers : Has(r, i)
    BY <1>0, <1>3 DEF Remembered
  <2>2. Has(r, i)'
    BY <1>3, <2>1
  <2> QED BY <2>2
<1>4. ASSUME NEW s \in Servers, Close(s) \/ Kill(s) PROVE granted' = Tasks /\ Remembered'
  <2>1. UNCHANGED <<status, granted>> /\ ~up'[s]
    BY <1>0, <1>4 DEF Close, Kill, ChainTypeOK
  <2>2. \A i : Has(s, i)'
    BY <2>1 DEF Has
  <2>3. ASSUME NEW i \in Work, status'[i] = "queued" PROVE \E r \in Servers : Has(r, i)'
    BY <2>2
  <2> QED BY <1>0, <2>1, <2>3 DEF Remembered
<1>5. ASSUME NEW s \in Servers, Restart(s) PROVE granted' = Tasks /\ Remembered'
  <2>1. UNCHANGED <<status, granted>> /\ ToSet(queue'[s]) = Queued
    BY <1>0, <1>5 DEF Restart, ChainTypeOK
  <2>2. ASSUME NEW i \in Work, status'[i] = "queued" PROVE \E r \in Servers : Has(r, i)'
    <3>1. i \in Queued
      BY <2>1, <2>2 DEF Queued, Work
    <3>2. Has(s, i)'
      BY <2>1, <3>1 DEF Has
    <3> QED BY <3>2
  <2> QED BY <1>0, <2>1, <2>2 DEF Remembered
<1>6. ASSUME NEW i \in Tasks, Lapse(i) PROVE granted' = Tasks /\ Remembered'
  BY <1>3, <1>6 DEF Lapse, Has, At, Current
<1>7. CASE UNCHANGED vars
  BY <1>3, <1>7 DEF vars, Has, At, Current
<1> QED BY <1>1, <1>2, <1>4, <1>5, <1>6, <1>7 DEF Next

\* While permissions stay a queued task is with a server, on its way to one, or
\* found when one comes up (review_api.py _resume_pipeline_tasks).
THEOREM TasksAreRemembered == Spec => []NothingForgotten
<1>1. Init => AllGranted
  BY TaskFacts DEF Init, AllGranted, Remembered
<1>2. AllGranted => NothingForgotten
  BY DEF AllGranted, Remembered, NothingForgotten, Has, Work
<1> QED BY <1>1, <1>2, RememberStep, Inductive, PTL DEF Spec

=============================================================================
