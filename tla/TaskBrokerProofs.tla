-------------------------- MODULE TaskBrokerProofs --------------------------
(* Theorems about TaskBroker, for every value of its constants. *)
EXTENDS TaskBroker, FiniteSetTheorems, TLAPS

\* An event built by the broker is an audit event when its parts are typed.
LEMMA EventTyped ==
  ASSUME NEW type \in EventTypes, NEW actor \in Actors, NEW proof \in Proofs
  PROVE  Event(type, actor, proof) \in AuditEvent
BY DEF Event, AuditEvent

\* Appending a typed event to one task's trail keeps all trails typed.
LEMMA RecordTyped ==
  ASSUME audit \in [Tasks -> Seq(AuditEvent)], NEW t \in Tasks,
         NEW e \in AuditEvent, Record(t, e)
  PROVE  audit' \in [Tasks -> Seq(AuditEvent)]
BY DEF Record

LEMMA LeaveTyped ==
  ASSUME TypeOK, NEW t \in Tasks, NEW s \in Statuses, Leave(t, s)
  PROVE  /\ status' \in [Tasks -> Statuses \cup {"absent"}]
         /\ version' \in [Tasks -> Nat]
         /\ lease' \in [Tasks -> [token : Tokens, expires : Nat] \cup {NoLease}]
BY DEF TypeOK, Leave

\* The broker's tables stay well typed (TypeOK).
THEOREM TypeCorrect == Spec => []TypeOK
<1>1. Init => TypeOK
  BY BrokerAssumption DEF Init, TypeOK
<1>2. TypeOK /\ [Next]_vars => TypeOK'
  <2> SUFFICES ASSUME TypeOK, [Next]_vars PROVE TypeOK'
    OBVIOUS
  <2>1. CASE Admission
    <3> PICK o \in Origins, k \in Keys, req \in Request, t \in Tasks :
          \/ ReplayAdmission(o, k, req, t)
          \/ \E actor \in Callers : Admit(o, k, req, t, actor)
      BY <2>1 DEF Admission
    <3>1. CASE ReplayAdmission(o, k, req, t)
      BY <3>1 DEF ReplayAdmission, tables, TypeOK
    <3>2. ASSUME NEW actor \in Callers, Admit(o, k, req, t, actor) PROVE TypeOK'
      <4>1. [input |-> req.input] \in Proofs
        BY DEF Request, Proofs
      <4>2. Event("admitted", actor, [input |-> req.input]) \in AuditEvent
        BY <4>1, EventTyped DEF Actors, EventTypes
      <4>3. audit' \in [Tasks -> Seq(AuditEvent)]
        BY <4>2, <3>2, RecordTyped DEF Admit, TypeOK
      <4>4. [origin |-> o, key |-> k, request |-> req,
             snapshot |-> grant[req.agent], createdAt |-> now] \in Row
        BY <3>2 DEF Admit, TypeOK, Row, Request, Grantable
      <4> QED
        BY <4>3, <4>4, <3>2 DEF Admit, TypeOK, Statuses
    <3> QED
      BY <3>1, <3>2
  <2>2. CASE Leasing
    <3>1. ASSUME NEW t \in Tasks, NEW agent \in Agents, NEW seconds \in Durations,
                 NEW token \in Tokens, Claim(t, agent, seconds, token)
          PROVE  TypeOK'
      <4>1. [version |-> version[t] + 1] \in Proofs
        BY DEF TypeOK, Proofs
      <4>2. Event("claimed", agent, [version |-> version[t] + 1]) \in AuditEvent
        BY <4>1, EventTyped DEF Actors, EventTypes
      <4>3. audit' \in [Tasks -> Seq(AuditEvent)]
        BY <4>2, <3>1, RecordTyped DEF Claim, TypeOK
      <4>4. [task |-> t, agent |-> agent, token |-> token,
             version |-> version[t] + 1] \in Lease
        BY DEF TypeOK, Lease
      <4>5. [token |-> token, expires |-> now + seconds]
              \in [token : Tokens, expires : Nat]
        <5>1. now + seconds \in Nat
          BY BrokerAssumption DEF TypeOK
        <5> QED
          BY <5>1
      <4>6. /\ status' \in [Tasks -> Statuses \cup {"absent"}]
            /\ version' \in [Tasks -> Nat] /\ attempt' \in [Tasks -> Nat]
        BY <3>1 DEF Claim, TypeOK, Statuses
      <4>7. lease' \in [Tasks -> [token : Tokens, expires : Nat] \cup {NoLease}]
        BY <4>5, <3>1 DEF Claim, TypeOK
      <4> QED
        BY <4>3, <4>4, <4>6, <4>7, <3>1 DEF Claim, TypeOK
    <3>2. ASSUME NEW page \in SUBSET Tasks, ExpireLeases(page) PROVE TypeOK'
      <4>1. \A t \in Tasks :
              Event("lease_expired", Maintainer, [version |-> version[t]])
                \in AuditEvent
        <5> TAKE t \in Tasks
        <5>1. [version |-> version[t]] \in Proofs
          BY DEF TypeOK, Proofs
        <5> QED
          BY <5>1, EventTyped DEF Actors, EventTypes
      <4>2. audit' \in [Tasks -> Seq(AuditEvent)]
        BY <4>1, <3>2 DEF ExpireLeases, TypeOK
      <4>3. status' \in [Tasks -> Statuses \cup {"absent"}]
        BY <3>2 DEF ExpireLeases, TypeOK, Abandoned, Statuses
      <4>4. version' \in [Tasks -> Nat]
        BY <3>2 DEF ExpireLeases, TypeOK
      <4>5. lease' \in [Tasks -> [token : Tokens, expires : Nat] \cup {NoLease}]
        BY <3>2 DEF ExpireLeases, TypeOK
      <4> QED
        BY <4>2, <4>3, <4>4, <4>5, <3>2 DEF ExpireLeases, TypeOK
    <3>3. ASSUME NEW l \in leases, Fail(l) PROVE TypeOK'
      <4>1. l \in Lease /\ [version |-> l.version] \in Proofs
        BY DEF TypeOK, Proofs, Lease
      <4>2. Event("failed", l.agent, [version |-> l.version]) \in AuditEvent
        BY <4>1, EventTyped DEF Lease, Actors, EventTypes
      <4>3. audit' \in [Tasks -> Seq(AuditEvent)]
        BY <4>1, <4>2, <3>3, RecordTyped DEF Fail, TypeOK, Lease
      <4>4. Leave(l.task, "failed") /\ "failed" \in Statuses
        BY <3>3 DEF Fail, Abandoned, Statuses
      <4>5. l.task \in Tasks
        BY <4>1 DEF Lease
      <4>6. /\ status' \in [Tasks -> Statuses \cup {"absent"}]
            /\ version' \in [Tasks -> Nat]
            /\ lease' \in [Tasks -> [token : Tokens, expires : Nat] \cup {NoLease}]
        BY <4>4, <4>5, LeaveTyped
      <4> QED
        BY <4>3, <4>5, <4>6, <3>3 DEF Fail, TypeOK
    <3> QED
      BY <2>2, <3>1, <3>2, <3>3 DEF Leasing
  <2>3. CASE Delegation
    <3> PICK l \in leases, agent \in Agents, input \in Inputs,
             due \in NotBefores, limit \in AttemptLimits :
          LET req == ChildRequest(l, agent, input, due, limit) IN
            \/ ReplayDelegation(l, req)
            \/ \E k \in Keys, c \in Tasks : Delegate(l, k, req, c)
      BY <2>3 DEF Delegation
    <3> DEFINE req == ChildRequest(l, agent, input, due, limit)
    <3>1. l \in Lease /\ req \in Request
      BY DEF TypeOK, Lease, ChildRequest, Request
    <3>2. CASE ReplayDelegation(l, req)
      <4>1. UNCHANGED tables /\ UNCHANGED <<now, grant, leases>>
        BY <3>2 DEF ReplayDelegation
      <4> QED
        BY <4>1 DEF tables, TypeOK
    <3>3. ASSUME NEW k \in Keys, NEW c \in Tasks, Delegate(l, k, req, c)
          PROVE  TypeOK'
      <4> HIDE DEF req
      <4>1. [input |-> req.input] \in Proofs /\ DelegationProof(l, req, c) \in Proofs
        BY <3>1 DEF Request, Proofs, Lease, DelegationProof
      <4>2. /\ Event("admitted", l.agent, [input |-> req.input]) \in AuditEvent
            /\ Event("delegated", l.agent, DelegationProof(l, req, c)) \in AuditEvent
        BY <3>1, <4>1, EventTyped DEF Lease, Actors, EventTypes
      <4>3. audit' \in [Tasks -> Seq(AuditEvent)]
        <5> DEFINE admitted == Event("admitted", l.agent, [input |-> req.input])
                   handed == Event("delegated", l.agent, DelegationProof(l, req, c))
                   mid == [audit EXCEPT ![c] = Append(@, admitted)]
        <5>0. c # l.task
          BY <3>3 DEF Delegate, Holds
        <5>1. audit' = [mid EXCEPT ![l.task] = Append(@, handed)]
          BY <5>0, <3>3 DEF Delegate
        <5>2. admitted \in AuditEvent /\ handed \in AuditEvent
          BY <4>2
        <5> HIDE DEF admitted, handed
        <5>3. mid \in [Tasks -> Seq(AuditEvent)]
          BY <5>2 DEF TypeOK
        <5>4. l.task \in Tasks
          BY <3>1 DEF Lease
        <5> HIDE DEF mid
        <5> QED
          BY <5>1, <5>2, <5>3, <5>4
      <4>4. grant[req.agent] \in Grants
        BY <3>1, <3>3 DEF Delegate, TypeOK, Request, Grantable
      <4>5. [origin |-> "agent", key |-> k, request |-> req,
             snapshot |-> grant[req.agent], createdAt |-> now] \in Row
        BY <3>1, <4>4, BrokerAssumption DEF TypeOK, Row
      <4>6. row' \in [Tasks -> Row \cup {NoRow}]
        BY <4>5, <3>3 DEF Delegate, TypeOK
      <4>7. status' \in [Tasks -> Statuses \cup {"absent"}]
        BY <3>3 DEF Delegate, TypeOK, Statuses
      <4>8. /\ version' \in [Tasks -> Nat]
            /\ lease' \in [Tasks -> [token : Tokens, expires : Nat] \cup {NoLease}]
        <5>1. l.task \in Tasks /\ version[l.task] + 1 \in Nat
          BY <3>1 DEF Lease, TypeOK
        <5> QED
          BY <5>1, <3>3 DEF Delegate, TypeOK
      <4> QED
        BY <4>3, <4>6, <4>7, <4>8, <3>3 DEF Delegate, TypeOK
    <3> QED
      BY <3>2, <3>3
  <2>4. CASE Results
    <3>1. ASSUME NEW l \in leases, NEW out \in SUBSET Asset, ReplayResult(l, out)
          PROVE  TypeOK'
      BY <3>1 DEF ReplayResult, tables, TypeOK
    <3>2. ASSUME NEW l \in leases, NEW out \in SUBSET Asset, AcceptResult(l, out)
          PROVE  TypeOK'
      <4>1. l \in Lease /\ ResultProof(l, out) \in Proofs
        BY DEF TypeOK, Proofs, Lease, ResultProof
      <4>2. Event("result_accepted", l.agent, ResultProof(l, out)) \in AuditEvent
        BY <4>1, EventTyped DEF Lease, Actors, EventTypes
      <4>3. audit' \in [Tasks -> Seq(AuditEvent)]
        BY <4>1, <4>2, <3>2, RecordTyped DEF AcceptResult, TypeOK, Lease
      <4>4. Leave(l.task, "awaiting_review") /\ "awaiting_review" \in Statuses
        BY <3>2 DEF AcceptResult, Statuses
      <4>5. l.task \in Tasks
        BY <4>1 DEF Lease
      <4>6. /\ status' \in [Tasks -> Statuses \cup {"absent"}]
            /\ version' \in [Tasks -> Nat]
            /\ lease' \in [Tasks -> [token : Tokens, expires : Nat] \cup {NoLease}]
        BY <4>4, <4>5, LeaveTyped
      <4> QED
        BY <4>3, <4>5, <4>6, <3>2 DEF AcceptResult, TypeOK
    <3>3. ASSUME NEW l \in leases, NEW asset \in Asset, AcceptCompletion(l, asset)
          PROVE  TypeOK'
      <4>1. l \in Lease /\ ResultProof(l, {asset}) \in Proofs
        BY DEF TypeOK, Proofs, Lease, ResultProof
      <4>2. Event("completion_accepted", l.agent, ResultProof(l, {asset}))
              \in AuditEvent
        BY <4>1, EventTyped DEF Lease, Actors, EventTypes
      <4>3. audit' \in [Tasks -> Seq(AuditEvent)]
        BY <4>1, <4>2, <3>3, RecordTyped DEF AcceptCompletion, TypeOK, Lease
      <4>4. Leave(l.task, "completed") /\ "completed" \in Statuses
        BY <3>3 DEF AcceptCompletion, Statuses
      <4>5. l.task \in Tasks
        BY <4>1 DEF Lease
      <4>6. /\ status' \in [Tasks -> Statuses \cup {"absent"}]
            /\ version' \in [Tasks -> Nat]
            /\ lease' \in [Tasks -> [token : Tokens, expires : Nat] \cup {NoLease}]
        BY <4>4, <4>5, LeaveTyped
      <4> QED
        BY <4>3, <4>5, <4>6, <3>3 DEF AcceptCompletion, TypeOK
    <3> QED
      BY <2>4, <3>1, <3>2, <3>3 DEF Results
  <2>5. CASE Review
    <3> PICK t \in Tasks, d \in Decision :
          ReplayDecision(t, d) \/ AcceptDecision(t, d)
      BY <2>5 DEF Review
    <3>1. CASE ReplayDecision(t, d)
      BY <3>1 DEF ReplayDecision, tables, TypeOK
    <3>2. CASE AcceptDecision(t, d)
      <4>1. Event("review_reconciled", Operator, d) \in AuditEvent
        BY EventTyped DEF Actors, EventTypes, Proofs
      <4>2. audit' \in [Tasks -> Seq(AuditEvent)]
        BY <4>1, <3>2, RecordTyped DEF AcceptDecision, TypeOK
      <4> QED
        BY <4>2, <3>2 DEF AcceptDecision, TypeOK, Statuses, Reviewed
    <3> QED
      BY <3>1, <3>2
  <2>6. CASE Environment
    <3>1. ASSUME NEW n \in 0..MaxTime, ClockReads(n) PROVE TypeOK'
      <4>1. n \in Nat
        BY BrokerAssumption
      <4> QED
        BY <4>1, <3>1 DEF ClockReads, tables, TypeOK
    <3>2. ASSUME NEW g \in [Agents -> Grants \cup {NoGrant}], PermissionsEdited(g)
          PROVE  TypeOK'
      BY <3>2 DEF PermissionsEdited, tables, TypeOK
    <3> QED
      BY <2>6, <3>1, <3>2 DEF Environment
  <2>7. CASE UNCHANGED vars
    BY <2>7 DEF vars, TypeOK
  <2> QED
    BY <2>1, <2>2, <2>3, <2>4, <2>5, <2>6, <2>7 DEF Next
<1> QED
  BY <1>1, <1>2, PTL DEF Spec

-----------------------------------------------------------------------------
(* One start per task *)

LeasesOf(t) == {l \in leases : l.task = t}

Unstarted == {"absent", "queued"}

\* A task has no lease and no attempt before it is claimed, and exactly one
\* of each from then on.
OneStart ==
  \A t \in Tasks :
    /\ status[t] \in Unstarted => attempt[t] = 0 /\ LeasesOf(t) = {}
    /\ status[t] \notin Unstarted => attempt[t] = 1 /\ LeasesOf(t) # {}
    /\ \A l, m \in LeasesOf(t) : l = m

\* Steps that start no task keep OneStart when they move only absent tasks to
\* the queue and running or reviewed tasks onwards.
LEMMA OneStartFrame ==
  ASSUME OneStart, UNCHANGED <<attempt, leases>>,
         \A t \in Tasks : status'[t] \in Unstarted <=> status[t] \in Unstarted
  PROVE  OneStart'
BY DEF OneStart, LeasesOf

LEMMA OneStartStep == TypeOK /\ OneStart /\ [Next]_vars => OneStart'
<1> SUFFICES ASSUME TypeOK, OneStart, [Next]_vars PROVE OneStart'
  OBVIOUS
<1>1. ASSUME NEW o, NEW k, NEW req, NEW t \in Tasks, NEW actor,
             Admit(o, k, req, t, actor)
      PROVE  OneStart'
  BY <1>1, OneStartFrame DEF Admit, TypeOK, Unstarted
<1>2. ASSUME NEW t \in Tasks, NEW agent \in Agents, NEW seconds \in Durations,
             NEW token \in Tokens, Claim(t, agent, seconds, token)
      PROVE  OneStart'
  <2> DEFINE new == [task |-> t, agent |-> agent, token |-> token,
                     version |-> version[t] + 1]
  <2>1. leases' = leases \cup {new} /\ new.task = t
    BY <1>2 DEF Claim
  <2> HIDE DEF new
  <2>2. LeasesOf(t)' = {new} /\ attempt'[t] = 1 /\ status'[t] = "running"
    BY <1>2, <2>1 DEF Claim, TypeOK, OneStart, LeasesOf, Unstarted
  <2>3. ASSUME NEW u \in Tasks, u # t
        PROVE  /\ LeasesOf(u)' = LeasesOf(u)
               /\ attempt'[u] = attempt[u]
               /\ status'[u] = status[u]
    BY <1>2, <2>1, <2>3 DEF Claim, TypeOK, LeasesOf
  <2> QED
    BY <2>2, <2>3 DEF OneStart, Unstarted
<1>3. ASSUME NEW page \in SUBSET Tasks, ExpireLeases(page) PROVE OneStart'
  BY <1>3, OneStartFrame
     DEF ExpireLeases, FirstExpired, Expired, Abandoned, TypeOK, Unstarted
<1>4. ASSUME NEW l \in leases, Fail(l) PROVE OneStart'
  BY <1>4, OneStartFrame
     DEF Fail, Leave, Holds, Abandoned, TypeOK, Unstarted, Lease
<1>5. ASSUME NEW l \in leases, NEW k, NEW req, NEW c \in Tasks,
             Delegate(l, k, req, c)
      PROVE  OneStart'
  BY <1>5, OneStartFrame DEF Delegate, Holds, TypeOK, Unstarted, Lease
<1>6. ASSUME NEW l \in leases, NEW out, AcceptResult(l, out) PROVE OneStart'
  BY <1>6, OneStartFrame DEF AcceptResult, Leave, Holds, TypeOK, Unstarted, Lease
<1>7. ASSUME NEW l \in leases, NEW asset, AcceptCompletion(l, asset)
      PROVE  OneStart'
  BY <1>7, OneStartFrame
     DEF AcceptCompletion, Leave, Holds, TypeOK, Unstarted, Lease
<1>8. ASSUME NEW t \in Tasks, NEW d \in Decision, AcceptDecision(t, d)
      PROVE  OneStart'
  BY <1>8, OneStartFrame DEF AcceptDecision, Reviewed, TypeOK, Unstarted
<1>9. ASSUME UNCHANGED <<status, attempt, leases>> PROVE OneStart'
  BY <1>9, OneStartFrame
<1>10. CASE Admission
  BY <1>10, <1>1, <1>9 DEF Admission, ReplayAdmission, tables
<1>11. CASE Leasing
  BY <1>11, <1>2, <1>3, <1>4 DEF Leasing
<1>12. CASE Delegation
  BY <1>12, <1>5, <1>9 DEF Delegation, ReplayDelegation, tables
<1>13. CASE Results
  BY <1>13, <1>6, <1>7, <1>9 DEF Results, ReplayResult, tables
<1>14. CASE Review
  BY <1>14, <1>8, <1>9 DEF Review, ReplayDecision, tables
<1>15. CASE Environment
  BY <1>15, <1>9 DEF Environment, ClockReads, PermissionsEdited, tables
<1>16. CASE UNCHANGED vars
  BY <1>16, <1>9 DEF vars
<1> QED
  BY <1>10, <1>11, <1>12, <1>13, <1>14, <1>15, <1>16 DEF Next

\* A task is started at most once and one lease is ever handed out for it.
THEOREM StartsOnce == Spec => []StartedOnce
<1>1. Init => OneStart
  BY DEF Init, OneStart, LeasesOf, Unstarted
<1>2. OneStart => StartedOnce
  BY DEF OneStart, StartedOnce, LeasesOf
<1> QED
  BY <1>1, <1>2, OneStartStep, TypeCorrect, PTL DEF Spec

-----------------------------------------------------------------------------
(* Tasks without a product *)

Fruitless == {"absent", "queued", "running", "failed"}

Yields == {"delegated", "result_accepted", "review_reconciled"}

\* Nothing has come of task t yet.
Empty(t) ==
  /\ assets[t] = {}
  /\ \A type \in Yields : Events(t, type) = {}
  /\ \A e \in decisions : e[1] # t
  /\ \A a \in answers : a.task = t => a.op = "admit"

\* Only tasks whose work was accepted have anything to show for it.
Barren == \A t \in Tasks : status[t] \in Fruitless => Empty(t)

\* What appending an event does to the events of a type.
LEMMA OfTypeAppend ==
  ASSUME NEW S, NEW s \in Seq(S), NEW e \in S, NEW type
  PROVE  OfType(Append(s, e), type)
           = OfType(s, type) \cup (IF e.type = type THEN {e} ELSE {})
<1>1. Len(Append(s, e)) = Len(s) + 1 /\ Append(s, e)[Len(s) + 1] = e
  OBVIOUS
<1>2. \A i \in 1..Len(s) : Append(s, e)[i] = s[i]
  OBVIOUS
<1>3. 1..Len(s) + 1 = (1..Len(s)) \cup {Len(s) + 1} /\ Len(s) \in Nat
  OBVIOUS
<1> QED
  BY <1>1, <1>2, <1>3 DEF OfType

\* A recorded event shows in its own task and under its own type only.
LEMMA EventsRecord ==
  ASSUME audit \in [Tasks -> Seq(AuditEvent)], audit' \in [Tasks -> Seq(AuditEvent)],
         NEW t \in Tasks, NEW e, Record(t, e), NEW type
  PROVE  /\ \A u \in Tasks \ {t} : Events(u, type)' = Events(u, type)
         /\ Events(t, type)'
              = Events(t, type) \cup (IF e.type = type THEN {e} ELSE {})
<1>1. \A u \in Tasks \ {t} : audit'[u] = audit[u]
  BY DEF Record
<1>2. audit'[t] = Append(audit[t], e) /\ audit[t] \in Seq(AuditEvent)
  BY DEF Record
<1>3. e \in AuditEvent
  <2>1. audit'[t] \in Seq(AuditEvent)
    OBVIOUS
  <2>2. audit'[t][Len(audit[t]) + 1] = e /\ Len(audit'[t]) = Len(audit[t]) + 1
    BY <1>2
  <2> QED
    BY <2>1, <2>2
<1> QED
  BY <1>1, <1>2, <1>3, OfTypeAppend DEF Events

\* Appending an event of a barren type shows under no yielding type.
LEMMA BarrenAppend ==
  ASSUME NEW S, NEW s \in Seq(S), NEW e \in S, e.type \notin Yields,
         NEW type \in Yields
  PROVE  OfType(Append(s, e), type) = OfType(s, type)
<1>1. e.type # type
  OBVIOUS
<1>2. OfType(Append(s, e), type)
        = OfType(s, type) \cup (IF e.type = type THEN {e} ELSE {})
  BY OfTypeAppend
<1> QED
  BY <1>1, <1>2

LEMMA BarrenRecord ==
  ASSUME audit \in [Tasks -> Seq(AuditEvent)], audit' \in [Tasks -> Seq(AuditEvent)],
         NEW t \in Tasks, NEW kind, kind \notin Yields, NEW actor, NEW proof,
         Record(t, Event(kind, actor, proof)),
         NEW u \in Tasks, NEW type \in Yields
  PROVE  Events(u, type)' = Events(u, type)
<1>1. Event(kind, actor, proof).type # type
  BY DEF Event
<1> QED
  BY <1>1, EventsRecord

\* A step that leaves a task's product parts alone keeps it empty.
LEMMA StaysEmpty ==
  ASSUME NEW t \in Tasks, Empty(t), assets'[t] = assets[t],
         \A type \in Yields : Events(t, type)' = Events(t, type),
         \A e \in decisions' : e \in decisions \/ e[1] # t,
         \A a \in answers' : a \in answers \/ a.task # t \/ a.op = "admit"
  PROVE  Empty(t)'
BY DEF Empty

LEMMA BarrenStep == TypeOK /\ TypeOK' /\ Barren /\ [Next]_vars => Barren'
<1> SUFFICES ASSUME TypeOK, TypeOK', Barren, [Next]_vars,
                    NEW u \in Tasks, status'[u] \in Fruitless
             PROVE  Empty(u)'
  BY DEF Barren
<1> USE DEF Fruitless
<1>a. audit \in [Tasks -> Seq(AuditEvent)] /\ audit' \in [Tasks -> Seq(AuditEvent)]
  BY DEF TypeOK
<1>b. status[u] \in Fruitless => Empty(u)
  BY DEF Barren
<1>c. \A l \in leases : l.task \in Tasks
  BY DEF TypeOK, Lease
<1>1. ASSUME NEW o, NEW k, NEW req, NEW t \in Tasks,
             ReplayAdmission(o, k, req, t)
      PROVE  Empty(u)'
  <2>1. UNCHANGED <<status, assets, audit, decisions>>
    BY <1>1 DEF ReplayAdmission, tables
  <2>2. \A a \in answers' : a \in answers \/ a.op = "admit"
    BY <1>1 DEF ReplayAdmission, Answer
  <2> QED
    BY <2>1, <2>2, <1>b, StaysEmpty DEF Events
<1>2. ASSUME NEW o, NEW k, NEW req, NEW t \in Tasks, NEW actor,
             Admit(o, k, req, t, actor)
      PROVE  Empty(u)'
  <2>1. \A type \in Yields : Events(u, type)' = Events(u, type)
    <3>1. Record(t, Event("admitted", actor, [input |-> req.input]))
      BY <1>2 DEF Admit
    <3>2. "admitted" \notin Yields
      BY DEF Yields
    <3> QED
      BY <1>a, <3>1, <3>2, BarrenRecord
  <2>2. \A a \in answers' : a \in answers \/ a.op = "admit"
    BY <1>2 DEF Admit, Answer
  <2>3. UNCHANGED <<assets, decisions>> /\ status[u] \in Fruitless
    BY <1>2 DEF Admit, TypeOK
  <2> QED
    BY <2>1, <2>2, <2>3, <1>b, StaysEmpty
<1>3. ASSUME NEW t \in Tasks, NEW agent, NEW seconds, NEW token,
             Claim(t, agent, seconds, token)
      PROVE  Empty(u)'
  <2>1. \A type \in Yields : Events(u, type)' = Events(u, type)
    <3>1. Record(t, Event("claimed", agent, [version |-> version[t] + 1]))
      BY <1>3 DEF Claim
    <3>2. "claimed" \notin Yields
      BY DEF Yields
    <3> QED
      BY <1>a, <3>1, <3>2, BarrenRecord
  <2>2. UNCHANGED <<assets, decisions, answers>> /\ status[u] \in Fruitless
    BY <1>3 DEF Claim, TypeOK
  <2> QED
    BY <2>1, <2>2, <1>b, StaysEmpty
<1>4. ASSUME NEW page \in SUBSET Tasks, ExpireLeases(page) PROVE Empty(u)'
  <2>1. \A type \in Yields : Events(u, type)' = Events(u, type)
    <3> DEFINE e == Event("lease_expired", Maintainer, [version |-> version[u]])
    <3>1. audit'[u] = IF u \in page THEN Append(audit[u], e) ELSE audit[u]
      BY <1>4 DEF ExpireLeases
    <3>2. e \in AuditEvent
      <4>1. [version |-> version[u]] \in Proofs
        BY DEF TypeOK, Proofs
      <4> QED
        BY <4>1, EventTyped DEF Actors, EventTypes
    <3>3. e.type \notin Yields
      BY DEF Event, Yields
    <3> HIDE DEF e
    <3> QED
      BY <1>a, <3>1, <3>2, <3>3, BarrenAppend DEF Events
  <2>2. UNCHANGED <<assets, decisions, answers>> /\ status[u] \in Fruitless
    BY <1>4 DEF ExpireLeases, FirstExpired, Expired, TypeOK
  <2> QED
    BY <2>1, <2>2, <1>b, StaysEmpty
<1>5. ASSUME NEW l \in leases, Fail(l) PROVE Empty(u)'
  <2>1. \A type \in Yields : Events(u, type)' = Events(u, type)
    <3>1. Record(l.task, Event("failed", l.agent, [version |-> l.version]))
      BY <1>5 DEF Fail
    <3>2. "failed" \notin Yields
      BY DEF Yields
    <3> QED
      BY <1>a, <1>c, <3>1, <3>2, BarrenRecord
  <2>2. UNCHANGED <<assets, decisions, answers>> /\ status[u] \in Fruitless
    BY <1>c, <1>5 DEF Fail, Leave, Holds, TypeOK
  <2> QED
    BY <2>1, <2>2, <1>b, StaysEmpty
<1>6. ASSUME NEW l \in leases, NEW req, ReplayDelegation(l, req)
      PROVE  Empty(u)'
  <2>1. UNCHANGED <<status, assets, audit, decisions>>
    BY <1>6 DEF ReplayDelegation, tables
  <2>2. Events(l.task, "delegated") # {}
    BY <1>6 DEF ReplayDelegation
  <2>3. u # l.task
    BY <2>1, <2>2, <1>b DEF Empty, Yields
  <2>4. \A a \in answers' : a \in answers \/ a.task = l.task
    BY <1>6 DEF ReplayDelegation, Answer
  <2> QED
    BY <2>1, <2>3, <2>4, <1>b, StaysEmpty DEF Events
<1>7. ASSUME NEW l \in leases, NEW k, NEW req, NEW c \in Tasks,
             Delegate(l, k, req, c)
      PROVE  Empty(u)'
  <2>1. u # l.task /\ c # l.task /\ status[u] \in Fruitless
    BY <1>c, <1>7 DEF Delegate, Holds, TypeOK
  <2>2. \A type \in Yields : Events(u, type)' = Events(u, type)
    <3> DEFINE e == Event("admitted", l.agent, [input |-> req.input])
    <3>1. audit'[u] = IF u = c THEN Append(audit[u], e) ELSE audit[u]
      BY <1>c, <2>1, <1>7, <1>a DEF Delegate
    <3>2. e.type \notin Yields
      BY DEF Event, Yields
    <3> HIDE DEF e
    <3>3. u = c => e \in AuditEvent
      <4> SUFFICES ASSUME u = c PROVE e \in AuditEvent
        OBVIOUS
      <4>1. audit'[u] = Append(audit[u], e)
        BY <3>1
      <4>2. audit'[u][Len(audit[u]) + 1] = e /\ Len(audit'[u]) = Len(audit[u]) + 1
        BY <4>1, <1>a
      <4> QED
        BY <4>2, <1>a
    <3> QED
      BY <1>a, <3>1, <3>2, <3>3, BarrenAppend DEF Events
  <2>3. \A a \in answers' : a \in answers \/ a.task = l.task
    BY <1>7 DEF Delegate, Answer
  <2>4. UNCHANGED <<assets, decisions>>
    BY <1>7 DEF Delegate
  <2> QED
    BY <2>1, <2>2, <2>3, <2>4, <1>b, StaysEmpty
<1>8. ASSUME NEW l \in leases, NEW out, ReplayResult(l, out) PROVE Empty(u)'
  <2>1. UNCHANGED <<status, assets, audit, decisions>>
    BY <1>8 DEF ReplayResult, tables
  <2>2. Events(l.task, "result_accepted") # {}
    BY <1>8 DEF ReplayResult
  <2>3. u # l.task
    BY <2>1, <2>2, <1>b DEF Empty, Yields
  <2>4. \A a \in answers' : a \in answers \/ a.task = l.task
    BY <1>8 DEF ReplayResult, Answer
  <2> QED
    BY <2>1, <2>3, <2>4, <1>b, StaysEmpty DEF Events
<1>9. ASSUME NEW l \in leases, NEW out, AcceptResult(l, out) PROVE Empty(u)'
  <2>1. u # l.task /\ status[u] \in Fruitless
    BY <1>c, <1>9 DEF AcceptResult, Leave, TypeOK
  <2>2. \A type \in Yields : Events(u, type)' = Events(u, type)
    BY <1>a, <1>c, <2>1, <1>9, EventsRecord DEF AcceptResult
  <2>3. \A a \in answers' : a \in answers \/ a.task = l.task
    BY <1>9 DEF AcceptResult, Answer
  <2>4. assets'[u] = assets[u] /\ decisions' = decisions
    BY <1>c, <2>1, <1>9 DEF AcceptResult, TypeOK
  <2> QED
    BY <2>1, <2>2, <2>3, <2>4, <1>b, StaysEmpty
<1>10. ASSUME NEW l \in leases, NEW asset, AcceptCompletion(l, asset)
       PROVE  Empty(u)'
  <2>1. u # l.task /\ status[u] \in Fruitless
    BY <1>c, <1>10 DEF AcceptCompletion, Leave, TypeOK
  <2>2. \A type \in Yields : Events(u, type)' = Events(u, type)
    BY <1>a, <1>c, <2>1, <1>10, EventsRecord DEF AcceptCompletion
  <2>3. \A a \in answers' : a \in answers \/ a.task = l.task
    BY <1>10 DEF AcceptCompletion, Answer
  <2>4. assets'[u] = assets[u] /\ decisions' = decisions
    BY <1>c, <2>1, <1>10 DEF AcceptCompletion, TypeOK
  <2> QED
    BY <2>1, <2>2, <2>3, <2>4, <1>b, StaysEmpty
<1>11. ASSUME NEW t \in Tasks, NEW d, ReplayDecision(t, d) PROVE Empty(u)'
  <2>1. UNCHANGED <<status, assets, audit, decisions>>
    BY <1>11 DEF ReplayDecision, tables
  <2>2. Events(t, "review_reconciled") # {}
    BY <1>11 DEF ReplayDecision
  <2>3. u # t
    BY <2>1, <2>2, <1>b DEF Empty, Yields
  <2>4. \A a \in answers' : a \in answers \/ a.task = t
    BY <1>11 DEF ReplayDecision, Answer
  <2> QED
    BY <2>1, <2>3, <2>4, <1>b, StaysEmpty DEF Events
<1>12. ASSUME NEW t \in Tasks, NEW d, AcceptDecision(t, d) PROVE Empty(u)'
  <2>1. u # t /\ status[u] \in Fruitless
    BY <1>12 DEF AcceptDecision, Reviewed, TypeOK
  <2>2. \A type \in Yields : Events(u, type)' = Events(u, type)
    <3>1. Record(t, Event("review_reconciled", Operator, d))
      BY <1>12 DEF AcceptDecision
    <3> QED
      BY <1>a, <2>1, <3>1, EventsRecord
  <2>3. \A a \in answers' : a \in answers \/ a.task = t
    BY <1>12 DEF AcceptDecision, Answer
  <2>4. assets' = assets /\ \A e \in decisions' : e \in decisions \/ e[1] = t
    BY <1>12 DEF AcceptDecision
  <2> QED
    BY <2>1, <2>2, <2>3, <2>4, <1>b, StaysEmpty
<1>13. ASSUME UNCHANGED <<status, assets, audit, decisions, answers>>
       PROVE  Empty(u)'
  BY <1>13, <1>b, StaysEmpty DEF Events
<1> QED
  BY <1>1, <1>2, <1>3, <1>4, <1>5, <1>6, <1>7, <1>8, <1>9, <1>10, <1>11, <1>12,
     <1>13
     DEF Next, Admission, Leasing, Delegation, Results, Review, Environment,
         ClockReads, PermissionsEdited, tables, vars

\* A failed task leaves no asset, no handoff, no decision and no success
\* reported, and none appears later.
THEOREM FailuresLeaveNothing == Spec => []FailedLeavesNothing
<1>1. Init => Barren
  BY DEF Init, Barren, Empty, Events, OfType
<1>2. TypeOK /\ Barren => FailedLeavesNothing
  BY DEF Barren, Empty, FailedLeavesNothing, Fruitless, Yields
<1> QED
  BY <1>1, <1>2, BarrenStep, TypeCorrect, PTL DEF Spec

-----------------------------------------------------------------------------
(* The broker implements the task life of the protocol document *)

Same(t) == Product(t)' = Product(t)

\* The step of task t that TaskLifecycle allows, in the broker's variables.
Life(t) ==
  \/ status[t] = "absent" /\ status'[t] = "queued" /\ Same(t)
  \/ status[t] = "queued" /\ status'[t] = "running" /\ Same(t)
  \/ status[t] = "running" /\ status'[t] = "failed" /\ Same(t)
  \/ /\ status[t] = "running"
     /\ status'[t] \in {"awaiting_review", "completed"}
     /\ Product(t) = [assets |-> {}, children |-> {}]
     /\ Product(t)' # [assets |-> {}, children |-> {}]
  \/ /\ status[t] = "awaiting_review"
     /\ status'[t] \in {"completed", "cancelled"}
     /\ Same(t)
  \/ status'[t] = status[t] /\ Same(t)

LEMMA SameProduct ==
  ASSUME NEW t \in Tasks, assets'[t] = assets[t],
         Events(t, "delegated")' = Events(t, "delegated")
  PROVE  Same(t)
BY DEF Same, Product, Delegated

\* Every event but "delegated" leaves the handoffs of all tasks alone.
LEMMA SameHandoffs ==
  ASSUME audit \in [Tasks -> Seq(AuditEvent)], audit' \in [Tasks -> Seq(AuditEvent)],
         NEW t \in Tasks, NEW kind, kind # "delegated", NEW actor, NEW proof,
         Record(t, Event(kind, actor, proof)), NEW u \in Tasks
  PROVE  Events(u, "delegated")' = Events(u, "delegated")
<1>1. Event(kind, actor, proof).type # "delegated"
  BY DEF Event
<1> QED
  BY <1>1, EventsRecord

LEMMA LifeStep ==
  ASSUME TypeOK, TypeOK', Barren, [Next]_vars, NEW u \in Tasks
  PROVE  Life(u)
<1>a. audit \in [Tasks -> Seq(AuditEvent)] /\ audit' \in [Tasks -> Seq(AuditEvent)]
  BY DEF TypeOK
<1>b. status[u] = "running" => Product(u) = [assets |-> {}, children |-> {}]
  <2> SUFFICES ASSUME status[u] = "running"
               PROVE  Product(u) = [assets |-> {}, children |-> {}]
    OBVIOUS
  <2>1. assets[u] = {} /\ Events(u, "delegated") = {}
    BY DEF Barren, Fruitless, Empty, Yields
  <2>2. Delegated(u) = {}
    BY <2>1 DEF Delegated
  <2> QED
    BY <2>1, <2>2 DEF Product
<1>c. \A l \in leases : l.task \in Tasks
  BY DEF TypeOK, Lease
<1>1. ASSUME NEW o, NEW k, NEW req, NEW t \in Tasks, NEW actor,
             Admit(o, k, req, t, actor)
      PROVE  Life(u)
  <2>1. Record(t, Event("admitted", actor, [input |-> req.input]))
    BY <1>1 DEF Admit
  <2>2. Same(u)
    BY <1>a, <1>1, <2>1, SameHandoffs, SameProduct DEF Admit
  <2> QED
    BY <1>1, <2>2 DEF Admit, TypeOK, Life
<1>2. ASSUME NEW t \in Tasks, NEW agent, NEW seconds, NEW token,
             Claim(t, agent, seconds, token)
      PROVE  Life(u)
  <2>1. Record(t, Event("claimed", agent, [version |-> version[t] + 1]))
    BY <1>2 DEF Claim
  <2>2. Same(u)
    BY <1>a, <1>2, <2>1, SameHandoffs, SameProduct DEF Claim
  <2> QED
    BY <1>2, <2>2 DEF Claim, TypeOK, Life
<1>3. ASSUME NEW page \in SUBSET Tasks, ExpireLeases(page) PROVE Life(u)
  <2> DEFINE e == Event("lease_expired", Maintainer, [version |-> version[u]])
  <2>1. audit'[u] = IF u \in page THEN Append(audit[u], e) ELSE audit[u]
    BY <1>3 DEF ExpireLeases
  <2>2. e.type # "delegated" /\ e \in AuditEvent
    <3>1. [version |-> version[u]] \in Proofs
      BY DEF TypeOK, Proofs
    <3> QED
      BY <3>1, EventTyped DEF Actors, EventTypes, Event
  <2> HIDE DEF e
  <2>3. OfType(Append(audit[u], e), "delegated") = OfType(audit[u], "delegated")
    <3>1. OfType(Append(audit[u], e), "delegated")
            = OfType(audit[u], "delegated")
              \cup (IF e.type = "delegated" THEN {e} ELSE {})
      BY <1>a, <2>2, OfTypeAppend
    <3> QED
      BY <2>2, <3>1
  <2>4. Same(u)
    BY <2>1, <2>3, <1>3, SameProduct DEF ExpireLeases, Events
  <2> QED
    BY <1>3, <2>4
       DEF ExpireLeases, FirstExpired, Expired, Abandoned, TypeOK, Life
<1>4. ASSUME NEW l \in leases, Fail(l) PROVE Life(u)
  <2>1. Record(l.task, Event("failed", l.agent, [version |-> l.version]))
    BY <1>4 DEF Fail
  <2>2. Same(u)
    BY <1>a, <1>c, <1>4, <2>1, SameHandoffs, SameProduct DEF Fail
  <2> QED
    BY <1>c, <1>4, <2>2 DEF Fail, Leave, Holds, Abandoned, TypeOK, Life
<1>5. ASSUME NEW l \in leases, NEW k, NEW req, NEW c \in Tasks,
             Delegate(l, k, req, c)
      PROVE  Life(u)
  <2> DEFINE e == Event("admitted", l.agent, [input |-> req.input])
             f == Event("delegated", l.agent, DelegationProof(l, req, c))
  <2>1. l.task \in Tasks /\ c # l.task
    BY <1>c, <1>5 DEF Delegate, Holds
  <2>2. /\ u = c => audit'[u] = Append(audit[u], e)
        /\ u = l.task => audit'[u] = Append(audit[u], f)
        /\ u \notin {c, l.task} => audit'[u] = audit[u]
    BY <1>a, <2>1, <1>5 DEF Delegate
  <2>3. e.type # "delegated" /\ f.type = "delegated"
    BY DEF Event
  <2> HIDE DEF e, f
  <2>4. ASSUME u # l.task PROVE Life(u)
    <3>1. ASSUME u = c
          PROVE  OfType(audit'[u], "delegated") = OfType(audit[u], "delegated")
      <4>1. audit'[u] = Append(audit[u], e) /\ audit[u] \in Seq(AuditEvent)
        BY <2>2, <3>1, <1>a
      <4>2. e \in AuditEvent
        <5>1. audit'[u] \in Seq(AuditEvent) /\ audit'[u][Len(audit[u]) + 1] = e
              /\ Len(audit'[u]) = Len(audit[u]) + 1
          BY <1>a, <4>1
        <5> QED
          BY <5>1, <4>1
      <4>3. OfType(Append(audit[u], e), "delegated")
              = OfType(audit[u], "delegated")
                \cup (IF e.type = "delegated" THEN {e} ELSE {})
        BY <4>1, <4>2, OfTypeAppend
      <4> QED
        BY <4>1, <4>3, <2>3
    <3>2. Same(u)
      BY <2>2, <2>4, <3>1, <1>5, SameProduct DEF Delegate, Events
    <3> QED
      BY <1>5, <2>1, <2>4, <3>2 DEF Delegate, TypeOK, Life
  <2>5. ASSUME u = l.task PROVE Life(u)
    <3>1. f \in Events(u, "delegated")'
      <4>1. audit'[u] = Append(audit[u], f) /\ audit[u] \in Seq(AuditEvent)
        BY <2>2, <2>5, <1>a
      <4>2. audit'[u][Len(audit[u]) + 1] = f /\ Len(audit'[u]) = Len(audit[u]) + 1
            /\ Len(audit[u]) \in Nat
        BY <4>1
      <4>3. Len(audit[u]) + 1 \in 1..Len(audit'[u])
        BY <4>2
      <4> QED
        BY <4>2, <4>3, <2>3 DEF Events, OfType
    <3>2. Product(u)'.children # {}
      BY <3>1 DEF Product, Delegated
    <3>3. Product(u)' # [assets |-> {}, children |-> {}]
      BY <3>2
    <3> QED
      BY <1>b, <1>5, <2>1, <2>5, <3>3 DEF Delegate, Holds, TypeOK, Life
  <2> QED
    BY <2>4, <2>5
<1>6. ASSUME NEW l \in leases, NEW out, AcceptResult(l, out) PROVE Life(u)
  <2>1. Record(l.task, Event("result_accepted", l.agent, ResultProof(l, out)))
    BY <1>6 DEF AcceptResult
  <2>2. Events(u, "delegated")' = Events(u, "delegated")
    BY <1>a, <1>c, <2>1, SameHandoffs
  <2>3. ASSUME u # l.task PROVE Life(u)
    <3>1. Same(u)
      BY <1>c, <1>6, <2>2, <2>3, SameProduct DEF AcceptResult, TypeOK
    <3> QED
      BY <1>c, <1>6, <2>3, <3>1 DEF AcceptResult, Leave, TypeOK, Life
  <2>4. ASSUME u = l.task PROVE Life(u)
    <3>1. Product(u)'.assets # {}
      BY <1>6, <2>4 DEF AcceptResult, Submission, TypeOK, Product
    <3>2. Product(u)' # [assets |-> {}, children |-> {}]
      BY <3>1
    <3> QED
      BY <1>b, <1>6, <2>4, <3>2 DEF AcceptResult, Leave, Holds, TypeOK, Life
  <2> QED
    BY <2>3, <2>4
<1>7. ASSUME NEW l \in leases, NEW asset, AcceptCompletion(l, asset)
      PROVE  Life(u)
  <2>1. Record(l.task,
               Event("completion_accepted", l.agent, ResultProof(l, {asset})))
    BY <1>7 DEF AcceptCompletion
  <2>2. Events(u, "delegated")' = Events(u, "delegated")
    BY <1>a, <1>c, <2>1, SameHandoffs
  <2>3. ASSUME u # l.task PROVE Life(u)
    <3>1. Same(u)
      BY <1>c, <1>7, <2>2, <2>3, SameProduct DEF AcceptCompletion, TypeOK
    <3> QED
      BY <1>c, <1>7, <2>3, <3>1 DEF AcceptCompletion, Leave, TypeOK, Life
  <2>4. ASSUME u = l.task PROVE Life(u)
    <3>1. Product(u)'.assets # {}
      BY <1>7, <2>4 DEF AcceptCompletion, TypeOK, Product
    <3>2. Product(u)' # [assets |-> {}, children |-> {}]
      BY <3>1
    <3> QED
      BY <1>b, <1>7, <2>4, <3>2 DEF AcceptCompletion, Leave, Holds, TypeOK, Life
  <2> QED
    BY <2>3, <2>4
<1>8. ASSUME NEW t \in Tasks, NEW d, AcceptDecision(t, d) PROVE Life(u)
  <2>1. Record(t, Event("review_reconciled", Operator, d))
    BY <1>8 DEF AcceptDecision
  <2>2. Same(u)
    BY <1>a, <1>8, <2>1, SameHandoffs, SameProduct DEF AcceptDecision
  <2> QED
    BY <1>8, <2>2 DEF AcceptDecision, Reviewed, TypeOK, Life
<1>9. ASSUME UNCHANGED <<status, assets, audit>> PROVE Life(u)
  BY <1>9, SameProduct DEF Events, Life
<1> QED
  BY <1>1, <1>2, <1>3, <1>4, <1>5, <1>6, <1>7, <1>8, <1>9
     DEF Next, Admission, Leasing, Delegation, Results, Review, Environment,
         ReplayAdmission, ReplayDelegation, ReplayResult, ReplayDecision,
         ClockReads, PermissionsEdited, tables, vars

\* Every behaviour of the broker is, task by task, a life that the protocol
\* document allows, and a task's product is published once and for good.
THEOREM BrokerImplementsLifecycle == Spec => ImplementsLifecycle
<1>1. Init => Lifecycle!LifeInit
  <2> SUFFICES ASSUME Init PROVE Lifecycle!LifeInit
    OBVIOUS
  <2>1. \A t \in Tasks : Events(t, "delegated") = {}
    BY DEF Init, Events, OfType
  <2>2. \A t \in Tasks : Delegated(t) = {}
    BY <2>1 DEF Delegated
  <2>3. \A t \in Tasks : Product(t) = [assets |-> {}, children |-> {}]
    BY <2>2 DEF Init, Product
  <2> QED
    BY <2>3 DEF Init, Lifecycle!LifeInit
<1>2. TypeOK /\ TypeOK' /\ Barren /\ [Next]_vars
        => [Lifecycle!LifeNext]_(Lifecycle!lifeVars)
  <2> SUFFICES ASSUME TypeOK, TypeOK', Barren, [Next]_vars
               PROVE  Lifecycle!LifeNext
    OBVIOUS
  <2>1. \A t \in Tasks : Life(t)
    BY LifeStep
  <2> QED
    BY <2>1
       DEF Life, Same, Lifecycle!LifeNext, Lifecycle!Appear, Lifecycle!Start,
           Lifecycle!GiveUp, Lifecycle!Publish, Lifecycle!Decide,
           Lifecycle!Rest, Lifecycle!Moves, Lifecycle!Unpublished
<1>3. Init => Barren
  BY DEF Init, Barren, Empty, Events, OfType
<1> QED
  BY <1>1, <1>2, <1>3, BarrenStep, TypeCorrect, PTL
     DEF Spec, ImplementsLifecycle, Lifecycle!Spec

-----------------------------------------------------------------------------
(* The audit trail tells the whole story *)

\* The status in which an event of the given type finds its task.
Prior(type) ==
  CASE type = "admitted" -> "absent"
    [] type = "claimed" -> "queued"
    [] type = "review_reconciled" -> "awaiting_review"
    [] OTHER -> "running"

Verdicts(t) == {d \in decisions : d[1] = t}

\* A step that does not touch task t.
Stays(t) ==
  /\ status'[t] = status[t] /\ version'[t] = version[t] /\ audit'[t] = audit[t]
  /\ row'[t] = row[t] /\ assets'[t] = assets[t] /\ Verdicts(t)' = Verdicts(t)

\* What the step that records event e of task t does to the task.
Turn(t, e) ==
  /\ status[t] = Prior(e.type) /\ status'[t] = After(e)
  /\ audit'[t] = Append(audit[t], e)
  /\ version'[t] = IF e.type = "admitted" THEN version[t] ELSE version[t] + 1
  /\ e.type # "admitted" => row'[t] = row[t]
  /\ assets'[t] = IF e.type \in {"result_accepted", "completion_accepted"}
                  THEN assets[t] \cup e.proof.result ELSE assets[t]
  /\ Verdicts(t)' = IF e.type = "review_reconciled"
                    THEN Verdicts(t) \cup {<<t, e.proof>>} ELSE Verdicts(t)
  /\ e.type = "review_reconciled" => e.proof.asset \in assets[t]
  /\ e.type = "delegated" =>
       /\ e.proof.request.parent = t
       /\ e.proof.child \in Tasks /\ status'[e.proof.child] = "queued"
       /\ row'[e.proof.child].request = e.proof.request

\* What a typed trail ends with is a typed event.
LEMMA LastTyped ==
  ASSUME NEW t \in Tasks, audit[t] \in Seq(AuditEvent), audit'[t] \in Seq(AuditEvent),
         NEW e, audit'[t] = Append(audit[t], e)
  PROVE  e \in AuditEvent
<1>1. audit'[t][Len(audit[t]) + 1] = e /\ Len(audit'[t]) = Len(audit[t]) + 1
  OBVIOUS
<1> QED
  BY <1>1

\* Every step that touches a task records one event of it.
LEMMA Turns ==
  ASSUME TypeOK, TypeOK', [Next]_vars, NEW u \in Tasks
  PROVE  Stays(u) \/ \E e \in AuditEvent : Turn(u, e)
<1>a. audit \in [Tasks -> Seq(AuditEvent)] /\ audit' \in [Tasks -> Seq(AuditEvent)]
  BY DEF TypeOK
<1>c. \A l \in leases : l.task \in Tasks
  BY DEF TypeOK, Lease
<1> USE DEF Verdicts
<1>1. ASSUME NEW o, NEW k, NEW req, NEW t \in Tasks, NEW actor,
             Admit(o, k, req, t, actor)
      PROVE  Stays(u) \/ \E e \in AuditEvent : Turn(u, e)
  <2>1. CASE u # t
    BY <1>1, <2>1 DEF Admit, Record, TypeOK, Stays
  <2>2. CASE u = t
    <3> DEFINE e == Event("admitted", actor, [input |-> req.input])
    <3>1. e.type = "admitted" /\ Prior(e.type) = "absent" /\ After(e) = "queued"
      BY DEF Event, Prior, After
    <3>2. audit'[u] = Append(audit[u], e)
      BY <1>1, <2>2, <1>a DEF Admit, Record
    <3> HIDE DEF e
    <3>3. Turn(u, e)
      BY <1>1, <2>2, <3>1, <3>2 DEF Admit, TypeOK, Turn
    <3>4. e \in AuditEvent
      BY <3>2, <1>a, LastTyped
    <3> QED
      BY <3>3, <3>4
  <2> QED
    BY <2>1, <2>2
<1>2. ASSUME NEW t \in Tasks, NEW agent, NEW seconds, NEW token,
             Claim(t, agent, seconds, token)
      PROVE  Stays(u) \/ \E e \in AuditEvent : Turn(u, e)
  <2>1. CASE u # t
    BY <1>2, <2>1 DEF Claim, Record, TypeOK, Stays
  <2>2. CASE u = t
    <3>0. PICK e : e = Event("claimed", agent, [version |-> version[t] + 1])
      OBVIOUS
    <3>1. e.type = "claimed" /\ Prior(e.type) = "queued" /\ After(e) = "running"
      BY <3>0 DEF Event, Prior, After
    <3>2. audit'[u] = Append(audit[u], e)
      BY <3>0, <1>2, <2>2, <1>a DEF Claim, Record
    <3>3. Turn(u, e)
      BY <1>2, <2>2, <3>1, <3>2 DEF Claim, TypeOK, Turn
    <3>4. e \in AuditEvent
      BY <3>2, <1>a, LastTyped
    <3> QED
      BY <3>3, <3>4
  <2> QED
    BY <2>1, <2>2
<1>3. ASSUME NEW page \in SUBSET Tasks, ExpireLeases(page)
      PROVE  Stays(u) \/ \E e \in AuditEvent : Turn(u, e)
  <2>1. CASE u \notin page
    BY <1>3, <2>1 DEF ExpireLeases, TypeOK, Stays
  <2>2. CASE u \in page
    <3>0. PICK e : e = Event("lease_expired", Maintainer, [version |-> version[u]])
      OBVIOUS
    <3>1. e.type = "lease_expired" /\ Prior(e.type) = "running" /\ After(e) = "failed"
      BY <3>0 DEF Event, Prior, After
    <3>2. audit'[u] = Append(audit[u], e)
      BY <3>0, <1>3, <2>2, <1>a DEF ExpireLeases
    <3>3. Turn(u, e)
      BY <1>3, <2>2, <3>1, <3>2
         DEF ExpireLeases, FirstExpired, Expired, Abandoned, TypeOK, Turn
    <3>4. e \in AuditEvent
      BY <3>2, <1>a, LastTyped
    <3> QED
      BY <3>3, <3>4
  <2> QED
    BY <2>1, <2>2
<1>4. ASSUME NEW l \in leases, Fail(l)
      PROVE  Stays(u) \/ \E e \in AuditEvent : Turn(u, e)
  <2>1. CASE u # l.task
    BY <1>4, <1>c, <2>1 DEF Fail, Leave, Record, TypeOK, Stays
  <2>2. CASE u = l.task
    <3> DEFINE e == Event("failed", l.agent, [version |-> l.version])
    <3>1. e.type = "failed" /\ Prior(e.type) = "running" /\ After(e) = "failed"
      BY DEF Event, Prior, After
    <3>2. audit'[u] = Append(audit[u], e)
      BY <1>4, <2>2, <1>a DEF Fail, Record
    <3> HIDE DEF e
    <3>3. Turn(u, e)
      BY <1>4, <2>2, <3>1, <3>2 DEF Fail, Leave, Holds, Abandoned, TypeOK, Turn
    <3>4. e \in AuditEvent
      BY <3>2, <1>a, LastTyped
    <3> QED
      BY <3>3, <3>4
  <2> QED
    BY <2>1, <2>2
<1>5. ASSUME NEW l \in leases, NEW k, NEW agent, NEW input, NEW due, NEW limit,
             NEW c \in Tasks, Delegate(l, k, ChildRequest(l, agent, input, due, limit), c)
      PROVE  Stays(u) \/ \E e \in AuditEvent : Turn(u, e)
  <2> DEFINE req == ChildRequest(l, agent, input, due, limit)
             e == Event("admitted", l.agent, [input |-> req.input])
             f == Event("delegated", l.agent, DelegationProof(l, req, c))
  <2>1. l.task \in Tasks /\ c # l.task /\ status[c] = "absent" /\ status[l.task] = "running"
    BY <1>c, <1>5 DEF Delegate, Holds
  <2>2. /\ u = c => audit'[u] = Append(audit[u], e)
        /\ u = l.task => audit'[u] = Append(audit[u], f)
        /\ u \notin {c, l.task} => audit'[u] = audit[u]
    BY <1>a, <2>1, <1>5 DEF Delegate
  <2>3. e.type = "admitted" /\ Prior(e.type) = "absent" /\ After(e) = "queued"
    BY DEF Event, Prior, After
  <2>4. f.type = "delegated" /\ Prior(f.type) = "running" /\ After(f) = "completed"
    BY DEF Event, Prior, After
  <2>5. f.proof.request = req /\ req.parent = l.task /\ f.proof.child = c
    BY DEF Event, DelegationProof, ChildRequest
  <2> HIDE DEF e, f
  <2>6. /\ status' = [status EXCEPT ![c] = "queued", ![l.task] = "completed"]
        /\ version' = [version EXCEPT ![l.task] = @ + 1]
        /\ \E snap : row' = [row EXCEPT ![c] = [origin |-> "agent", key |-> k, request |-> req,
                                    snapshot |-> snap, createdAt |-> now]]
        /\ UNCHANGED <<assets, decisions>>
    BY <1>5 DEF Delegate
  <2> HIDE DEF req
  <2>7. CASE u \notin {c, l.task}
    BY <2>1, <2>2, <2>6, <2>7 DEF TypeOK, Stays
  <2>8. CASE u = c
    <3>1. Turn(u, e)
      BY <2>1, <2>2, <2>3, <2>6, <2>8 DEF TypeOK, Turn
    <3>2. e \in AuditEvent
      BY <2>2, <2>8, <1>a, LastTyped
    <3> QED
      BY <3>1, <3>2
  <2>9. CASE u = l.task
    <3>1. status'[c] = "queued" /\ row'[c].request = req /\ row'[u] = row[u]
      BY <2>1, <2>6, <2>9 DEF TypeOK
    <3>2. Turn(u, f)
      BY <2>1, <2>2, <2>4, <2>5, <2>6, <2>9, <3>1 DEF TypeOK, Turn
    <3>3. f \in AuditEvent
      BY <2>2, <2>9, <1>a, LastTyped
    <3> QED
      BY <3>2, <3>3
  <2> QED
    BY <2>7, <2>8, <2>9
<1>6. ASSUME NEW l \in leases, NEW out, AcceptResult(l, out)
      PROVE  Stays(u) \/ \E e \in AuditEvent : Turn(u, e)
  <2>1. CASE u # l.task
    BY <1>6, <1>c, <2>1 DEF AcceptResult, Leave, Record, TypeOK, Stays
  <2>2. CASE u = l.task
    <3> DEFINE e == Event("result_accepted", l.agent, ResultProof(l, out))
    <3>1. /\ e.type = "result_accepted" /\ Prior(e.type) = "running"
          /\ After(e) = "awaiting_review" /\ e.proof.result = out
      BY DEF Event, Prior, After, ResultProof
    <3>2. audit'[u] = Append(audit[u], e)
      BY <1>6, <2>2, <1>a DEF AcceptResult, Record
    <3> HIDE DEF e
    <3>3. Turn(u, e)
      BY <1>6, <2>2, <3>1, <3>2 DEF AcceptResult, Leave, Holds, TypeOK, Turn
    <3>4. e \in AuditEvent
      BY <3>2, <1>a, LastTyped
    <3> QED
      BY <3>3, <3>4
  <2> QED
    BY <2>1, <2>2
<1>7. ASSUME NEW l \in leases, NEW asset, AcceptCompletion(l, asset)
      PROVE  Stays(u) \/ \E e \in AuditEvent : Turn(u, e)
  <2>1. CASE u # l.task
    BY <1>7, <1>c, <2>1 DEF AcceptCompletion, Leave, Record, TypeOK, Stays
  <2>2. CASE u = l.task
    <3> DEFINE e == Event("completion_accepted", l.agent, ResultProof(l, {asset}))
    <3>1. /\ e.type = "completion_accepted" /\ Prior(e.type) = "running"
          /\ After(e) = "completed" /\ e.proof.result = {asset}
      BY DEF Event, Prior, After, ResultProof
    <3>2. audit'[u] = Append(audit[u], e)
      BY <1>7, <2>2, <1>a DEF AcceptCompletion, Record
    <3> HIDE DEF e
    <3>3. Turn(u, e)
      BY <1>7, <2>2, <3>1, <3>2 DEF AcceptCompletion, Leave, Holds, TypeOK, Turn
    <3>4. e \in AuditEvent
      BY <3>2, <1>a, LastTyped
    <3> QED
      BY <3>3, <3>4
  <2> QED
    BY <2>1, <2>2
<1>8. ASSUME NEW t \in Tasks, NEW d \in Decision, AcceptDecision(t, d)
      PROVE  Stays(u) \/ \E e \in AuditEvent : Turn(u, e)
  <2>1. CASE u # t
    BY <1>8, <2>1 DEF AcceptDecision, Record, TypeOK, Stays
  <2>2. CASE u = t
    <3> DEFINE e == Event("review_reconciled", Operator, d)
    <3>1. /\ e.type = "review_reconciled" /\ Prior(e.type) = "awaiting_review"
          /\ After(e) = Reviewed(d.action) /\ e.proof = d
      BY DEF Event, Prior, After, Reviewed
    <3>2. audit'[u] = Append(audit[u], e)
      BY <1>8, <2>2, <1>a DEF AcceptDecision, Record
    <3> HIDE DEF e
    <3>3. Verdicts(u)' = Verdicts(u) \cup {<<u, d>>}
      BY <1>8, <2>2 DEF AcceptDecision
    <3>4. Turn(u, e)
      BY <1>8, <2>2, <3>1, <3>2, <3>3 DEF AcceptDecision, TypeOK, Turn
    <3>5. e \in AuditEvent
      BY <3>2, <1>a, LastTyped
    <3> QED
      BY <3>4, <3>5
  <2> QED
    BY <2>1, <2>2
<1>9. ASSUME UNCHANGED tables PROVE Stays(u)
  BY <1>9 DEF tables, Stays
<1>10. CASE Delegation
  BY <1>10, <1>5, <1>9 DEF Delegation, ReplayDelegation
<1>11. CASE Admission
  BY <1>11, <1>1, <1>9 DEF Admission, ReplayAdmission
<1>12. CASE Leasing
  BY <1>12, <1>2, <1>3, <1>4 DEF Leasing
<1>13. CASE Results
  BY <1>13, <1>6, <1>7, <1>9 DEF Results, ReplayResult
<1>14. CASE Review
  BY <1>14, <1>8, <1>9 DEF Review, ReplayDecision
<1> QED
  BY <1>9, <1>10, <1>11, <1>12, <1>13, <1>14
     DEF Next, Environment, ClockReads, PermissionsEdited, tables, vars

\* Rows of admitted tasks never change and admitted tasks never vanish.
LEMMA RowsStay ==
  ASSUME TypeOK, TypeOK', [Next]_vars, NEW t \in Admitted
  PROVE  t \in Admitted' /\ row'[t] = row[t]
<1>1. t \in Tasks /\ status[t] # "absent"
  BY DEF Admitted
<1>2. CASE Stays(t)
  BY <1>1, <1>2 DEF Stays, Admitted
<1>3. ASSUME NEW e \in AuditEvent, Turn(t, e) PROVE t \in Admitted' /\ row'[t] = row[t]
  <2>1. e.type # "admitted" /\ e.type \in EventTypes
    BY <1>1, <1>3 DEF Turn, Prior, AuditEvent
  <2>2. After(e) # "absent"
    BY <2>1 DEF After, EventTypes
  <2> QED
    BY <1>1, <1>3, <2>1, <2>2 DEF Turn, Admitted
<1> QED
  BY <1>1, <1>2, <1>3, Turns

-----------------------------------------------------------------------------
(* The trail explains the row *)

\* AuditExplainsStatus of one task.
Explained(t) ==
  /\ status[t] = "absent" <=> audit[t] = << >>
  /\ status[t] = "absent" => version[t] = 0
  /\ status[t] # "absent" =>
       /\ audit[t][1].type = "admitted"
       /\ Len(audit[t]) = version[t] + 1
       /\ status[t] = After(audit[t][Len(audit[t])])
       /\ \A i \in 2..Len(audit[t]) : audit[t][i].type \in Following(audit[t][i - 1].type)

\* An event that finds the status which another one left may follow it.
LEMMA Follows ==
  ASSUME NEW e \in AuditEvent, NEW f \in AuditEvent, Prior(e.type) = After(f)
  PROVE  e.type \in Following(f.type) /\ e.type # "admitted"
<1>1. e.type \in EventTypes /\ f.type \in EventTypes
  BY DEF AuditEvent
<1> QED
  BY <1>1 DEF EventTypes, Prior, After, Following

LEMMA ExplainedTurn ==
  ASSUME NEW t, NEW e \in AuditEvent, audit[t] \in Seq(AuditEvent), version[t] \in Nat,
         Explained(t), Turn(t, e)
  PROVE  Explained(t)'
<1> DEFINE n == Len(audit[t])
<1>1. /\ n \in Nat /\ Len(audit'[t]) = n + 1 /\ audit'[t][n + 1] = e
      /\ \A i \in 1..n : audit'[t][i] = audit[t][i]
      /\ status'[t] = After(e) /\ audit'[t] # << >>
  BY DEF Turn
<1>2. e.type \in EventTypes
  BY DEF AuditEvent
<1>3. After(e) # "absent"
  BY <1>2 DEF After, EventTypes
<1>4. CASE status[t] = "absent"
  <2>1. n = 0 /\ version[t] = 0
    BY <1>4 DEF Explained
  <2>2. e.type = "admitted"
    BY <1>2, <1>4 DEF Turn, Prior, EventTypes
  <2>3. version'[t] = 0
    BY <2>1, <2>2 DEF Turn
  <2> QED
    BY <1>1, <1>3, <2>1, <2>2, <2>3 DEF Explained
<1>5. CASE status[t] # "absent"
  <2>1. n = version[t] + 1 /\ n \in 1..n /\ audit[t][n] \in AuditEvent
    BY <1>1, <1>5 DEF Explained
  <2>2. e.type \in Following(audit[t][n].type) /\ e.type # "admitted"
    BY <1>5, <2>1, Follows DEF Explained, Turn
  <2>3. Len(audit'[t]) = version'[t] + 1
    BY <1>1, <2>1, <2>2 DEF Turn
  <2>4. audit'[t][1].type = "admitted"
    BY <1>1, <1>5, <2>1 DEF Explained
  <2>5. ASSUME NEW i \in 2..(n + 1)
        PROVE  audit'[t][i].type \in Following(audit'[t][i - 1].type)
    <3>1. CASE i = n + 1
      <4>1. i - 1 = n
        BY <3>1, <1>1
      <4> QED
        BY <3>1, <4>1, <1>1, <2>1, <2>2
    <3>2. CASE i # n + 1
      <4>1. i \in 2..n /\ i \in 1..n /\ i - 1 \in 1..n
        BY <3>2, <1>1
      <4> QED
        BY <4>1, <1>1, <1>5 DEF Explained
    <3> QED
      BY <3>1, <3>2
  <2> QED
    BY <1>1, <1>3, <2>3, <2>4, <2>5 DEF Explained
<1> QED
  BY <1>4, <1>5

\* The audit trail alone determines status and version of every task.
THEOREM TrailsExplain == Spec => []AuditExplainsStatus
<1> DEFINE Inv == \A t \in Tasks : Explained(t)
<1>1. Init => Inv
  BY DEF Init, Explained
<1>2. TypeOK /\ TypeOK' /\ Inv /\ [Next]_vars => Inv'
  <2> SUFFICES ASSUME TypeOK, TypeOK', Inv, [Next]_vars, NEW t \in Tasks
               PROVE  Explained(t)'
    OBVIOUS
  <2>1. Explained(t) /\ audit[t] \in Seq(AuditEvent) /\ version[t] \in Nat
    BY DEF TypeOK
  <2>2. CASE Stays(t)
    BY <2>1, <2>2 DEF Stays, Explained
  <2>3. ASSUME NEW e \in AuditEvent, Turn(t, e) PROVE Explained(t)'
    BY <2>1, <2>3, ExplainedTurn
  <2> QED
    BY <2>2, <2>3, Turns
<1>3. Inv => AuditExplainsStatus
  BY DEF Explained, AuditExplainsStatus
<1> QED
  BY <1>1, <1>2, <1>3, TypeCorrect, PTL DEF Spec

-----------------------------------------------------------------------------
(* What the trail records of a task's end *)

Works == {"delegated", "result_accepted", "completion_accepted"}
Ends == Works \cup {"review_reconciled"}

\* The events that end a task's work or its review, and what they left in the
\* other tables.
Book(t) ==
  /\ status[t] \in Fruitless => assets[t] = {} /\ \A type \in Ends : Events(t, type) = {}
  /\ status[t] = "awaiting_review" => Events(t, "review_reconciled") = {}
  /\ \A p \in Works, q \in Works : \A e \in Events(t, p), f \in Events(t, q) : e = f
  /\ \A e \in Events(t, "review_reconciled"), f \in Events(t, "review_reconciled") : e = f
  /\ Events(t, "delegated") # {} => status[t] = "completed"
  /\ \A e \in Events(t, "result_accepted") :
       /\ assets[t] = e.proof.result
       /\ status[t] # "awaiting_review" => Events(t, "review_reconciled") # {}
  /\ \A e \in Events(t, "completion_accepted") :
       assets[t] = e.proof.result /\ status[t] = "completed"
  /\ \A e \in Events(t, "review_reconciled") :
       e.proof.asset \in assets[t] /\ status[t] = Reviewed(e.proof.action)
  /\ Verdicts(t) = {<<t, e.proof>> : e \in Events(t, "review_reconciled")}

LEMMA BookTurn ==
  ASSUME NEW t, NEW e \in AuditEvent, audit[t] \in Seq(AuditEvent), Book(t), Turn(t, e)
  PROVE  Book(t)'
<1>1. \A type : Events(t, type)' = Events(t, type) \cup (IF e.type = type THEN {e} ELSE {})
  <2> SUFFICES ASSUME NEW type
               PROVE  Events(t, type)' = Events(t, type) \cup (IF e.type = type THEN {e} ELSE {})
    OBVIOUS
  <2>1. OfType(Append(audit[t], e), type)
          = OfType(audit[t], type) \cup (IF e.type = type THEN {e} ELSE {})
    BY OfTypeAppend
  <2> QED
    BY <2>1 DEF Events, Turn
<1>2. e.type \in EventTypes
  BY DEF AuditEvent
<1>3. CASE e.type \notin Ends
  <2>1. \A type \in Ends : Events(t, type)' = Events(t, type)
    BY <1>1, <1>3
  <2>2. status[t] \in Fruitless /\ status'[t] \in Fruitless
    BY <1>2, <1>3 DEF Turn, Prior, After, EventTypes, Ends, Works, Fruitless
  <2>3. assets'[t] = assets[t] /\ Verdicts(t)' = Verdicts(t)
    BY <1>3 DEF Turn, Ends, Works
  <2> QED
    BY <2>1, <2>2, <2>3 DEF Book, Ends, Works, Fruitless
<1>4. CASE e.type \in Works
  <2>1. status[t] = "running"
    BY <1>4 DEF Turn, Prior, Works
  <2>2. /\ Events(t, e.type)' = {e}
        /\ \A type \in Ends \ {e.type} : Events(t, type)' = {}
    BY <1>1, <1>4, <2>1 DEF Book, Fruitless, Ends
  <2>3. /\ assets'[t] = IF e.type = "delegated" THEN {} ELSE e.proof.result
        /\ status'[t] = IF e.type = "result_accepted" THEN "awaiting_review" ELSE "completed"
        /\ Verdicts(t)' = {}
    <3>1. assets[t] = {} /\ Events(t, "review_reconciled") = {}
      BY <2>1 DEF Book, Fruitless, Ends
    <3>2. Verdicts(t) = {}
      BY <3>1 DEF Book
    <3>3. assets'[t] = IF e.type = "delegated" THEN {} ELSE e.proof.result
      BY <1>4, <3>1 DEF Turn, Works
    <3>4. status'[t] = IF e.type = "result_accepted" THEN "awaiting_review" ELSE "completed"
      BY <1>4 DEF Turn, Works, After
    <3>5. Verdicts(t)' = {}
      BY <1>4, <3>2 DEF Turn, Works
    <3> QED
      BY <3>3, <3>4, <3>5
  <2> QED
    BY <1>4, <2>2, <2>3 DEF Book, Ends, Works, Fruitless
<1>5. CASE e.type = "review_reconciled"
  <2>1. status[t] = "awaiting_review"
    BY <1>5 DEF Turn, Prior
  <2>2. /\ Events(t, "review_reconciled")' = {e}
        /\ \A type \in Works : Events(t, type)' = Events(t, type)
    <3>1. Events(t, "review_reconciled") = {}
      BY <2>1 DEF Book
    <3>2. Events(t, "review_reconciled")' = {e}
      BY <1>1, <1>5, <3>1
    <3>3. \A type \in Works : Events(t, type)' = Events(t, type)
      BY <1>1, <1>5 DEF Works
    <3> QED
      BY <3>2, <3>3
  <2>3. Events(t, "delegated") = {} /\ Events(t, "completion_accepted") = {}
    BY <2>1 DEF Book
  <2>4. /\ assets'[t] = assets[t] /\ e.proof.asset \in assets[t]
        /\ status'[t] = Reviewed(e.proof.action)
        /\ Verdicts(t)' = {<<t, e.proof>>}
    BY <1>5, <2>1 DEF Book, Turn, After, Reviewed
  <2>5. status'[t] \in {"completed", "cancelled"}
    BY <2>4 DEF Reviewed
  <2> QED
    BY <2>2, <2>3, <2>4, <2>5 DEF Book, Ends, Works, Fruitless
<1> QED
  BY <1>2, <1>3, <1>4, <1>5 DEF Ends

\* What a delegation says of its child stays true.
Child(t) ==
  \A e \in Events(t, "delegated") :
    /\ e.proof.child \in Admitted
    /\ row[e.proof.child].request = e.proof.request
    /\ e.proof.request.parent = t

\* An origin key has one task.
KeysApart ==
  \A t, u \in Admitted :
    row[t].origin = row[u].origin /\ row[t].key = row[u].key => t = u

Books == KeysApart /\ \A t \in Tasks : Book(t) /\ Child(t)

LEMMA ChildStep ==
  ASSUME TypeOK, TypeOK', [Next]_vars, NEW t \in Tasks, Child(t)
  PROVE  Child(t)'
<1>1. CASE Stays(t)
  <2>1. Events(t, "delegated")' = Events(t, "delegated")
    BY <1>1 DEF Stays, Events
  <2> QED
    BY <2>1, RowsStay DEF Child
<1>2. ASSUME NEW e \in AuditEvent, Turn(t, e) PROVE Child(t)'
  <2>1. OfType(Append(audit[t], e), "delegated")
          = OfType(audit[t], "delegated") \cup (IF e.type = "delegated" THEN {e} ELSE {})
    BY OfTypeAppend DEF TypeOK
  <2>2. \A f \in Events(t, "delegated")' :
          f \in Events(t, "delegated") \/ (f = e /\ e.type = "delegated")
    BY <1>2, <2>1 DEF Turn, Events
  <2>3. e.type = "delegated" =>
          /\ e.proof.child \in Admitted'
          /\ row'[e.proof.child].request = e.proof.request
          /\ e.proof.request.parent = t
    BY <1>2 DEF Turn, Admitted
  <2>4. \A f \in Events(t, "delegated") :
          /\ f.proof.child \in Admitted'
          /\ row'[f.proof.child].request = f.proof.request
          /\ f.proof.request.parent = t
    BY RowsStay DEF Child
  <2> QED
    BY <2>2, <2>3, <2>4 DEF Child
<1> QED
  BY <1>1, <1>2, Turns

LEMMA KeysStep ==
  ASSUME TypeOK, TypeOK', KeysApart, [Next]_vars
  PROVE  KeysApart'
<1>1. ASSUME NEW c \in Tasks, NEW o, NEW k, NEW new, Holder(o, k) = {},
             new.origin = o, new.key = k, status[c] = "absent",
             row' = [row EXCEPT ![c] = new],
             Admitted' = Admitted \cup {c}
      PROVE  KeysApart'
  <2>1. row'[c].origin = o /\ row'[c].key = k
    BY <1>1 DEF TypeOK
  <2>2. \A t \in Admitted : row'[t] = row[t] /\ t # c
    BY <1>1 DEF TypeOK, Admitted
  <2>3. \A t \in Admitted : ~(row[t].origin = o /\ row[t].key = k)
    BY <1>1 DEF Holder
  <2> QED
    BY <1>1, <2>1, <2>2, <2>3 DEF KeysApart
<1>2. ASSUME NEW o, NEW k, NEW req, NEW t \in Tasks, NEW actor, Admit(o, k, req, t, actor)
      PROVE  KeysApart'
  <2> DEFINE new == [origin |-> o, key |-> k, request |-> req,
                     snapshot |-> grant[req.agent], createdAt |-> now]
  <2>1. /\ row' = [row EXCEPT ![t] = new] /\ Holder(o, k) = {} /\ status[t] = "absent"
        /\ status' = [status EXCEPT ![t] = "queued"]
    BY <1>2 DEF Admit
  <2>2. new.origin = o /\ new.key = k
    OBVIOUS
  <2>3. Admitted' = Admitted \cup {t}
    BY <2>1 DEF Admitted, TypeOK
  <2>4. PICK x : x = new
    OBVIOUS
  <2> HIDE DEF new
  <2> QED
    BY <1>1, <2>1, <2>2, <2>3, <2>4
<1>3. ASSUME NEW l \in leases, NEW k, NEW req, NEW c \in Tasks, Delegate(l, k, req, c)
      PROVE  KeysApart'
  <2> DEFINE new == [origin |-> "agent", key |-> k, request |-> req,
                     snapshot |-> grant[req.agent], createdAt |-> now]
  <2>1. /\ row' = [row EXCEPT ![c] = new] /\ Holder("agent", k) = {} /\ status[c] = "absent"
        /\ status' = [status EXCEPT ![c] = "queued", ![l.task] = "completed"]
        /\ status[l.task] = "running" /\ l.task \in Tasks
    BY <1>3 DEF Delegate, Holds, TypeOK, Lease
  <2>2. new.origin = "agent" /\ new.key = k
    OBVIOUS
  <2>3. Admitted' = Admitted \cup {c}
    <3>1. \A t \in Tasks : status'[t] = IF t = l.task THEN "completed"
                                       ELSE IF t = c THEN "queued" ELSE status[t]
      BY <2>1 DEF TypeOK
    <3>2. ASSUME NEW t \in Tasks PROVE status'[t] # "absent" <=> (status[t] # "absent" \/ t = c)
      <4>1. CASE t = l.task
        <5>1. status[t] = "running"
          BY <2>1, <4>1
        <5>2. status'[t] = "completed"
          BY <3>1, <4>1
        <5> QED
          BY <5>1, <5>2
      <4>2. CASE t # l.task /\ t = c
        BY <3>1, <4>2
      <4>3. CASE t # l.task /\ t # c
        BY <3>1, <4>3
      <4> QED
        BY <4>1, <4>2, <4>3
    <3> QED
      BY <3>2 DEF Admitted
  <2>4. PICK x : x = new
    OBVIOUS
  <2> HIDE DEF new
  <2> QED
    BY <1>1, <2>1, <2>2, <2>3, <2>4
<1>4. ASSUME row' = row, Admitted' = Admitted PROVE KeysApart'
  BY <1>4 DEF KeysApart
<1>5. CASE Admission
  BY <1>2, <1>4, <1>5 DEF Admission, ReplayAdmission, tables, Admitted
<1>6. CASE Delegation
  BY <1>3, <1>4, <1>6 DEF Delegation, ReplayDelegation, tables, Admitted
<1>7. ASSUME row' = row,
             \A t \in Tasks : status[t] # "absent" <=> status'[t] # "absent"
      PROVE  KeysApart'
  BY <1>4, <1>7 DEF Admitted
<1>8. CASE Leasing
  <2>1. ASSUME NEW t \in Tasks, NEW agent, NEW seconds, NEW token,
               Claim(t, agent, seconds, token)
        PROVE  KeysApart'
    BY <2>1, <1>7 DEF Claim, TypeOK
  <2>2. ASSUME NEW page, ExpireLeases(page) PROVE KeysApart'
    BY <2>2, <1>7 DEF ExpireLeases, FirstExpired, Expired, Abandoned, TypeOK
  <2>3. ASSUME NEW l \in leases, Fail(l) PROVE KeysApart'
    BY <2>3, <1>7 DEF Fail, Leave, Holds, Abandoned, TypeOK, Lease
  <2> QED
    BY <1>8, <2>1, <2>2, <2>3 DEF Leasing
<1>9. CASE Results
  <2>1. ASSUME NEW l \in leases, NEW out, AcceptResult(l, out) PROVE KeysApart'
    BY <2>1, <1>7 DEF AcceptResult, Leave, Holds, TypeOK, Lease
  <2>2. ASSUME NEW l \in leases, NEW asset, AcceptCompletion(l, asset) PROVE KeysApart'
    BY <2>2, <1>7 DEF AcceptCompletion, Leave, Holds, TypeOK, Lease
  <2> QED
    BY <1>9, <1>4, <2>1, <2>2 DEF Results, ReplayResult, tables, Admitted
<1>10. CASE Review
  <2>1. ASSUME NEW t \in Tasks, NEW d, AcceptDecision(t, d) PROVE KeysApart'
    BY <2>1, <1>7 DEF AcceptDecision, Reviewed, TypeOK
  <2> QED
    BY <1>10, <1>4, <2>1 DEF Review, ReplayDecision, tables, Admitted
<1> QED
  BY <1>4, <1>5, <1>6, <1>8, <1>9, <1>10
     DEF Next, Environment, ClockReads, PermissionsEdited, tables, vars, Admitted

LEMMA BooksStep == TypeOK /\ TypeOK' /\ Books /\ [Next]_vars => Books'
<1> SUFFICES ASSUME TypeOK, TypeOK', Books, [Next]_vars PROVE Books'
  OBVIOUS
<1>1. ASSUME NEW t \in Tasks PROVE Book(t)'
  <2>1. Book(t) /\ audit[t] \in Seq(AuditEvent)
    BY DEF Books, TypeOK
  <2>2. CASE Stays(t)
    <3>1. \A type : Events(t, type)' = Events(t, type)
      BY <2>2 DEF Stays, Events
    <3> QED
      BY <2>1, <2>2, <3>1 DEF Stays, Book
  <2>3. ASSUME NEW e \in AuditEvent, Turn(t, e) PROVE Book(t)'
    BY <2>1, <2>3, BookTurn
  <2> QED
    BY <2>2, <2>3, Turns
<1>2. ASSUME NEW t \in Tasks PROVE Child(t)'
  BY ChildStep DEF Books
<1>3. KeysApart'
  BY KeysStep DEF Books
<1> QED
  BY <1>1, <1>2, <1>3 DEF Books

LEMMA BooksInit == Init => Books
<1> SUFFICES ASSUME Init PROVE Books
  OBVIOUS
<1>1. \A t \in Tasks : \A type : Events(t, type) = {}
  BY DEF Init, Events, OfType
<1>2. \A t \in Tasks : Verdicts(t) = {}
  BY DEF Init, Verdicts
<1> QED
  BY <1>1, <1>2 DEF Init, Books, Book, Child, KeysApart, Admitted, Fruitless

\* A parent that handed off has one child, linked to it alone.
THEOREM HandoffsPair == Spec => []DelegationPairs
<1>1. Books => DelegationPairs
  <2> SUFFICES ASSUME Books, NEW t \in Tasks
               PROVE  /\ Cardinality(Events(t, "delegated")) <= 1
                      /\ \A e \in Events(t, "delegated") :
                           /\ status[t] = "completed"
                           /\ e.proof.child \in Admitted
                           /\ row[e.proof.child].request = e.proof.request
                           /\ row[e.proof.child].request.parent = t
                      /\ \A u \in Tasks : Delegated(t) \cap Delegated(u) # {} => t = u
    BY DEF DelegationPairs
  <2>1. Book(t) /\ Child(t)
    BY DEF Books
  <2>2. Events(t, "delegated") = {} \/ \E e : Events(t, "delegated") = {e}
    <3> SUFFICES ASSUME NEW e \in Events(t, "delegated")
                 PROVE  Events(t, "delegated") = {e}
      OBVIOUS
    <3>1. \A f \in Events(t, "delegated") : e = f
      BY <2>1 DEF Book, Works
    <3> QED
      BY <3>1
  <2>3. Cardinality(Events(t, "delegated")) <= 1
    <3>1. CASE Events(t, "delegated") = {}
      BY <3>1, FS_EmptySet
    <3>2. ASSUME NEW e, Events(t, "delegated") = {e}
          PROVE  Cardinality(Events(t, "delegated")) <= 1
      <4>1. Cardinality({e}) = 1
        BY FS_Singleton
      <4> QED
        BY <3>2, <4>1
    <3> QED
      BY <2>2, <3>1, <3>2
  <2>4. \A u \in Tasks : Delegated(t) \cap Delegated(u) # {} => t = u
    <3> SUFFICES ASSUME NEW u \in Tasks, NEW e \in Events(t, "delegated"),
                        NEW f \in Events(u, "delegated"), e.proof.child = f.proof.child
                 PROVE  t = u
      BY DEF Delegated
    <3> QED
      BY <2>1 DEF Books, Child
  <2> QED
    BY <2>1, <2>3, <2>4 DEF Book, Child
<1> QED
  BY <1>1, BooksInit, BooksStep, TypeCorrect, PTL DEF Spec

\* Content reaches completed only through one human decision on its bytes.
THEOREM ReviewsComeFirst == Spec => []ReviewedBeforeCompleted
<1>1. Books => ReviewedBeforeCompleted
  <2> SUFFICES ASSUME Books, NEW t \in Tasks
               PROVE  /\ Events(t, "result_accepted") # {} /\ status[t] = "completed" =>
                           \E d \in decisions : d[1] = t /\ d[2].action = "approve"
                      /\ \A d, f \in decisions : d[1] = t /\ f[1] = t => d = f
                      /\ \A d \in decisions : d[1] = t =>
                           /\ d[2].asset \in assets[t]
                           /\ status[t] = IF d[2].action = "approve"
                                          THEN "completed" ELSE "cancelled"
    BY DEF ReviewedBeforeCompleted
  <2>1. Book(t)
    BY DEF Books
  <2>2. \A d \in decisions : d[1] = t =>
          \E e \in Events(t, "review_reconciled") : d = <<t, e.proof>>
    BY <2>1 DEF Book, Verdicts
  <2>3. \A e \in Events(t, "review_reconciled") :
          <<t, e.proof>> \in decisions
    BY <2>1 DEF Book, Verdicts
  <2>4. Events(t, "result_accepted") # {} /\ status[t] = "completed" =>
          \E e \in Events(t, "review_reconciled") : e.proof.action = "approve"
    BY <2>1 DEF Book, Reviewed
  <2>5. Events(t, "result_accepted") # {} /\ status[t] = "completed" =>
          \E d \in decisions : d[1] = t /\ d[2].action = "approve"
    BY <2>3, <2>4
  <2> QED
    BY <2>1, <2>2, <2>5 DEF Book, Reviewed
<1> QED
  BY <1>1, BooksInit, BooksStep, TypeCorrect, PTL DEF Spec

-----------------------------------------------------------------------------
(* What callers were told *)

\* An answer about an event of the given type.
Told(a, op, type) ==
  \E e \in Events(a.task, type) : a = [op |-> op, task |-> a.task, proof |-> e.proof]

\* What stands behind a reported success.
Backed(a) ==
  /\ a.task \in Tasks
  /\ \/ /\ a.op = "admit" /\ a.task \in Admitted
        /\ row[a.task].request = a.proof
        /\ a.key = <<row[a.task].origin, row[a.task].key>>
     \/ Told(a, "delegate", "delegated")
     \/ Told(a, "result", "result_accepted")
     \/ Told(a, "completion", "completion_accepted")
     \/ Told(a, "decision", "review_reconciled")

AllBacked == \A a \in answers : Backed(a)

LEMMA EventsStay ==
  ASSUME TypeOK, TypeOK', [Next]_vars, NEW t \in Tasks, NEW type
  PROVE  Events(t, type) \subseteq Events(t, type)'
<1>1. CASE Stays(t)
  BY <1>1 DEF Stays, Events
<1>2. ASSUME NEW e \in AuditEvent, Turn(t, e) PROVE Events(t, type) \subseteq Events(t, type)'
  <2>1. OfType(Append(audit[t], e), type)
          = OfType(audit[t], type) \cup (IF e.type = type THEN {e} ELSE {})
    BY OfTypeAppend DEF TypeOK
  <2> QED
    BY <1>2, <2>1 DEF Turn, Events
<1> QED
  BY <1>1, <1>2, Turns

\* What stood behind an answer still does.
LEMMA BackedStays ==
  ASSUME TypeOK, TypeOK', [Next]_vars, NEW a, Backed(a)
  PROVE  Backed(a)'
<1>1. \A type : Events(a.task, type) \subseteq Events(a.task, type)'
  BY EventsStay DEF Backed
<1>2. a.task \in Admitted => a.task \in Admitted' /\ row'[a.task] = row[a.task]
  BY RowsStay
<1> QED
  BY <1>1, <1>2 DEF Backed, Told

\* The event that a step appends shows under its type.
LEMMA NewShows ==
  ASSUME NEW t, NEW e, audit[t] \in Seq(AuditEvent), audit'[t] = Append(audit[t], e)
  PROVE  e \in Events(t, e.type)'
<1>1. audit'[t][Len(audit[t]) + 1] = e /\ Len(audit'[t]) = Len(audit[t]) + 1
      /\ Len(audit[t]) \in Nat
  OBVIOUS
<1>2. Len(audit[t]) + 1 \in 1..Len(audit'[t])
  BY <1>1
<1> QED
  BY <1>1, <1>2 DEF Events, OfType

LEMMA BackedStep ==
  ASSUME TypeOK, TypeOK', AllBacked, [Next]_vars
  PROVE  AllBacked'
<1>a. audit \in [Tasks -> Seq(AuditEvent)] /\ \A l \in leases : l.task \in Tasks
  BY DEF TypeOK, Lease
<1>b. ASSUME NEW b, answers' = answers \cup {b}, Backed(b)' PROVE AllBacked'
  <2>1. \A a \in answers : Backed(a)'
    BY BackedStays DEF AllBacked
  <2> QED
    BY <1>b, <2>1 DEF AllBacked
<1>c. ASSUME answers' = answers PROVE AllBacked'
  BY <1>c, BackedStays DEF AllBacked
<1>d. ASSUME NEW t \in Tasks, NEW op, NEW type, NEW e \in Events(t, type)',
             <<op, type>> \in {<<"delegate", "delegated">>, <<"result", "result_accepted">>,
                               <<"completion", "completion_accepted">>,
                               <<"decision", "review_reconciled">>},
             answers' = answers \cup {[op |-> op, task |-> t, proof |-> e.proof]}
      PROVE  AllBacked'
  <2>1. PICK b : b = [op |-> op, task |-> t, proof |-> e.proof]
    OBVIOUS
  <2>2. b.task = t /\ b.op = op
    BY <2>1
  <2>3. Told(b, op, type)'
    BY <1>d, <2>1, <2>2 DEF Told
  <2>4. Backed(b)'
    BY <1>d, <2>2, <2>3 DEF Backed
  <2> QED
    BY <1>b, <1>d, <2>1, <2>4
<1>1. ASSUME NEW o, NEW k, NEW req, NEW t \in Tasks, ReplayAdmission(o, k, req, t)
      PROVE  AllBacked'
  <2>1. PICK b : b = [op |-> "admit", task |-> t, key |-> <<o, k>>, proof |-> req]
    OBVIOUS
  <2>2. t \in Admitted /\ row[t].origin = o /\ row[t].key = k /\ row[t].request = req
        /\ answers' = answers \cup {b} /\ Admitted' = Admitted /\ row' = row
    BY <1>1, <2>1 DEF ReplayAdmission, Holder, Answer, tables, Admitted
  <2>3. b.task = t /\ b.op = "admit" /\ b.key = <<o, k>> /\ b.proof = req
    BY <2>1
  <2>4. Backed(b)'
    BY <2>2, <2>3 DEF Backed
  <2> QED
    BY <1>b, <2>2, <2>4
<1>2. ASSUME NEW o, NEW k, NEW req, NEW t \in Tasks, NEW actor, Admit(o, k, req, t, actor)
      PROVE  AllBacked'
  <2>1. PICK b : b = [op |-> "admit", task |-> t, key |-> <<o, k>>, proof |-> req]
    OBVIOUS
  <2>2. answers' = answers \cup {b} /\ t \in Admitted'
    BY <1>2, <2>1 DEF Admit, Answer, Admitted, TypeOK
  <2>3. row'[t].origin = o /\ row'[t].key = k /\ row'[t].request = req
    BY <1>2 DEF Admit, TypeOK
  <2>4. b.task = t /\ b.op = "admit" /\ b.key = <<o, k>> /\ b.proof = req
    BY <2>1
  <2>5. Backed(b)'
    BY <2>2, <2>3, <2>4 DEF Backed
  <2> QED
    BY <1>b, <2>2, <2>5
<1>3. ASSUME NEW l \in leases, NEW req, ReplayDelegation(l, req) PROVE AllBacked'
  <2>1. PICK e \in Events(l.task, "delegated") :
          Answer([op |-> "delegate", task |-> l.task, proof |-> e.proof])
    BY <1>3 DEF ReplayDelegation
  <2>2. e \in Events(l.task, "delegated")'
    BY <1>3 DEF ReplayDelegation, tables, Events
  <2> QED
    BY <1>a, <1>d, <2>1, <2>2 DEF Answer
<1>4. ASSUME NEW l \in leases, NEW k, NEW req, NEW c \in Tasks, Delegate(l, k, req, c)
      PROVE  AllBacked'
  <2> DEFINE e == Event("delegated", l.agent, DelegationProof(l, req, c))
  <2>1. c # l.task /\ l.task \in Tasks
    BY <1>4, <1>a DEF Delegate, Holds
  <2>2. audit'[l.task] = Append(audit[l.task], e)
    BY <1>4, <1>a, <2>1 DEF Delegate
  <2>3. e.type = "delegated" /\ e.proof = DelegationProof(l, req, c)
    BY DEF Event
  <2> HIDE DEF e
  <2>4. e \in Events(l.task, "delegated")'
    BY <1>a, <2>1, <2>2, <2>3, NewShows
  <2>5. answers' = answers \cup {[op |-> "delegate", task |-> l.task, proof |-> e.proof]}
    BY <1>4, <2>3 DEF Delegate, Answer
  <2> QED
    BY <1>d, <2>1, <2>4, <2>5
<1>5. ASSUME NEW l \in leases, NEW out, ReplayResult(l, out) PROVE AllBacked'
  <2>1. PICK e \in Events(l.task, "result_accepted") : e.proof = ResultProof(l, out)
    BY <1>5 DEF ReplayResult
  <2>2. e \in Events(l.task, "result_accepted")'
    BY <1>5 DEF ReplayResult, tables, Events
  <2>3. answers' = answers \cup {[op |-> "result", task |-> l.task, proof |-> e.proof]}
    BY <1>5, <2>1 DEF ReplayResult, Answer
  <2> QED
    BY <1>a, <1>d, <2>2, <2>3
<1>6. ASSUME NEW l \in leases, NEW out, AcceptResult(l, out) PROVE AllBacked'
  <2> DEFINE e == Event("result_accepted", l.agent, ResultProof(l, out))
  <2>1. audit'[l.task] = Append(audit[l.task], e)
    BY <1>6, <1>a DEF AcceptResult, Record
  <2>2. e.type = "result_accepted" /\ e.proof = ResultProof(l, out)
    BY DEF Event
  <2> HIDE DEF e
  <2>3. e \in Events(l.task, "result_accepted")'
    BY <1>a, <2>1, <2>2, NewShows
  <2>4. answers' = answers \cup {[op |-> "result", task |-> l.task, proof |-> e.proof]}
    BY <1>6, <2>2 DEF AcceptResult, Answer
  <2> QED
    BY <1>a, <1>d, <2>3, <2>4
<1>7. ASSUME NEW l \in leases, NEW asset, AcceptCompletion(l, asset) PROVE AllBacked'
  <2> DEFINE e == Event("completion_accepted", l.agent, ResultProof(l, {asset}))
  <2>1. audit'[l.task] = Append(audit[l.task], e)
    BY <1>7, <1>a DEF AcceptCompletion, Record
  <2>2. e.type = "completion_accepted" /\ e.proof = ResultProof(l, {asset})
    BY DEF Event
  <2> HIDE DEF e
  <2>3. e \in Events(l.task, "completion_accepted")'
    BY <1>a, <2>1, <2>2, NewShows
  <2>4. answers' = answers \cup {[op |-> "completion", task |-> l.task, proof |-> e.proof]}
    BY <1>7, <2>2 DEF AcceptCompletion, Answer
  <2> QED
    BY <1>a, <1>d, <2>3, <2>4
<1>8. ASSUME NEW t \in Tasks, NEW d, ReplayDecision(t, d) PROVE AllBacked'
  <2>1. PICK e \in Events(t, "review_reconciled") : e.proof = d
    BY <1>8 DEF ReplayDecision
  <2>2. e \in Events(t, "review_reconciled")'
    BY <1>8 DEF ReplayDecision, tables, Events
  <2>3. answers' = answers \cup {[op |-> "decision", task |-> t, proof |-> e.proof]}
    BY <1>8, <2>1 DEF ReplayDecision, Answer
  <2> QED
    BY <1>d, <2>2, <2>3
<1>9. ASSUME NEW t \in Tasks, NEW d, AcceptDecision(t, d) PROVE AllBacked'
  <2> DEFINE e == Event("review_reconciled", Operator, d)
  <2>1. audit'[t] = Append(audit[t], e)
    BY <1>9, <1>a DEF AcceptDecision, Record
  <2>2. e.type = "review_reconciled" /\ e.proof = d
    BY DEF Event
  <2> HIDE DEF e
  <2>3. e \in Events(t, "review_reconciled")'
    BY <1>a, <2>1, <2>2, NewShows
  <2>4. answers' = answers \cup {[op |-> "decision", task |-> t, proof |-> e.proof]}
    BY <1>9, <2>2 DEF AcceptDecision, Answer
  <2> QED
    BY <1>d, <2>3, <2>4
<1>10. CASE Admission
  BY <1>1, <1>2, <1>10 DEF Admission
<1>11. CASE Leasing
  BY <1>c, <1>11 DEF Leasing, Claim, ExpireLeases, Fail
<1>12. CASE Delegation
  BY <1>3, <1>4, <1>12 DEF Delegation
<1>13. CASE Results
  BY <1>5, <1>6, <1>7, <1>13 DEF Results
<1>14. CASE Review
  BY <1>8, <1>9, <1>14 DEF Review
<1> QED
  BY <1>c, <1>10, <1>11, <1>12, <1>13, <1>14
     DEF Next, Environment, ClockReads, PermissionsEdited, vars

\* Every success reported is still true, and no two of one task contradict
\* each other.
THEOREM AnswersStayTrue == Spec => []AnswersHold
<1>1. TypeOK /\ Books /\ AllBacked => AnswersHold
  <2> SUFFICES ASSUME TypeOK, Books, AllBacked, NEW a \in answers
               PROVE  CASE a.op = "admit" ->
                             /\ row[a.task].request = a.proof
                             /\ Holder(a.key[1], a.key[2]) = {a.task}
                        [] a.op = "delegate" ->
                             /\ status[a.task] = "completed"
                             /\ row[a.proof.child].request = a.proof.request
                             /\ \A b \in answers : b.op = "delegate" /\ b.task = a.task => b = a
                        [] a.op \in {"result", "completion"} ->
                             /\ assets[a.task] = a.proof.result
                             /\ \A b \in answers :
                                  b.op \in {"result", "completion"} /\ b.task = a.task => b = a
                        [] a.op = "decision" ->
                             /\ <<a.task, a.proof>> \in decisions
                             /\ \A b \in answers : b.op = "decision" /\ b.task = a.task => b = a
    BY DEF AnswersHold
  <2>1. Backed(a) /\ a.task \in Tasks /\ \A b \in answers : Backed(b)
    BY DEF AllBacked, Backed
  <2>2. Book(a.task) /\ Child(a.task)
    BY <2>1 DEF Books
  <2>3. \A b \in answers :
          /\ b.op = "admit" => b.task \in Admitted /\ row[b.task].request = b.proof
                                 /\ b.key = <<row[b.task].origin, row[b.task].key>>
          /\ b.op = "delegate" => Told(b, "delegate", "delegated")
          /\ b.op = "result" => Told(b, "result", "result_accepted")
          /\ b.op = "completion" => Told(b, "completion", "completion_accepted")
          /\ b.op = "decision" => Told(b, "decision", "review_reconciled")
          /\ b.op \in {"admit", "delegate", "result", "completion", "decision"}
    BY <2>1 DEF Backed, Told
  <2>4. CASE a.op = "admit"
    <3>1. /\ a.task \in Admitted /\ row[a.task].request = a.proof
          /\ a.key[1] = row[a.task].origin /\ a.key[2] = row[a.task].key
      BY <2>3, <2>4
    <3>2. Holder(a.key[1], a.key[2]) = {a.task}
      BY <3>1 DEF Books, KeysApart, Holder
    <3> QED
      BY <2>4, <3>1, <3>2
  <2>5. CASE a.op = "delegate"
    <3>1. PICK e \in Events(a.task, "delegated") :
            a = [op |-> "delegate", task |-> a.task, proof |-> e.proof]
      BY <2>3, <2>5 DEF Told
    <3>2. status[a.task] = "completed" /\ row[a.proof.child].request = a.proof.request
      BY <2>2, <3>1 DEF Book, Child
    <3>3. ASSUME NEW b \in answers, b.op = "delegate", b.task = a.task PROVE b = a
      <4>1. PICK f \in Events(a.task, "delegated") :
              b = [op |-> "delegate", task |-> a.task, proof |-> f.proof]
        BY <2>3, <3>3 DEF Told
      <4>2. e = f
        BY <2>2 DEF Book, Works
      <4> QED
        BY <3>1, <4>1, <4>2
    <3> QED
      BY <2>5, <3>2, <3>3
  <2>6. CASE a.op \in {"result", "completion"}
    <3>1. ASSUME NEW b \in answers, b.op \in {"result", "completion"}, b.task = a.task
          PROVE  \E type \in {"result_accepted", "completion_accepted"} :
                   \E e \in Events(a.task, type) :
                     /\ b = [op |-> b.op, task |-> a.task, proof |-> e.proof]
                     /\ b.op = IF e.type = "result_accepted" THEN "result" ELSE "completion"
      BY <2>3, <3>1 DEF Told, Events, OfType
    <3>2. PICK p \in {"result_accepted", "completion_accepted"} :
            \E e \in Events(a.task, p) :
              /\ a = [op |-> a.op, task |-> a.task, proof |-> e.proof]
              /\ a.op = IF e.type = "result_accepted" THEN "result" ELSE "completion"
      BY <2>6, <3>1
    <3>3. PICK e \in Events(a.task, p) :
            /\ a = [op |-> a.op, task |-> a.task, proof |-> e.proof]
            /\ a.op = IF e.type = "result_accepted" THEN "result" ELSE "completion"
      BY <3>2
    <3>4. assets[a.task] = a.proof.result
      BY <2>2, <3>3 DEF Book
    <3>5. ASSUME NEW b \in answers, b.op \in {"result", "completion"}, b.task = a.task
          PROVE  b = a
      <4>1. PICK q \in {"result_accepted", "completion_accepted"} :
              \E f \in Events(a.task, q) :
                /\ b = [op |-> b.op, task |-> a.task, proof |-> f.proof]
                /\ b.op = IF f.type = "result_accepted" THEN "result" ELSE "completion"
        BY <3>1, <3>5
      <4>2. PICK f \in Events(a.task, q) :
              /\ b = [op |-> b.op, task |-> a.task, proof |-> f.proof]
              /\ b.op = IF f.type = "result_accepted" THEN "result" ELSE "completion"
        BY <4>1
      <4>3. e = f
        BY <2>2 DEF Book, Works
      <4>4. a.op = b.op
        BY <3>3, <4>2, <4>3
      <4> QED
        BY <3>3, <4>2, <4>3, <4>4
    <3> QED
      BY <2>6, <3>4, <3>5
  <2>7. CASE a.op = "decision"
    <3>1. PICK e \in Events(a.task, "review_reconciled") :
            a = [op |-> "decision", task |-> a.task, proof |-> e.proof]
      BY <2>3, <2>7 DEF Told
    <3>2. <<a.task, a.proof>> \in decisions
      BY <2>2, <3>1 DEF Book, Verdicts
    <3>3. ASSUME NEW b \in answers, b.op = "decision", b.task = a.task PROVE b = a
      <4>1. PICK f \in Events(a.task, "review_reconciled") :
              b = [op |-> "decision", task |-> a.task, proof |-> f.proof]
        BY <2>3, <3>3 DEF Told
      <4>2. e = f
        BY <2>2 DEF Book
      <4> QED
        BY <3>1, <4>1, <4>2
    <3> QED
      BY <2>7, <3>2, <3>3
  <2> QED
    BY <2>3, <2>4, <2>5, <2>6, <2>7
<1>2. Init => AllBacked
  BY DEF Init, AllBacked
<1>3. TypeOK /\ TypeOK' /\ AllBacked /\ [Next]_vars => AllBacked'
  BY BackedStep
<1> QED
  BY <1>1, <1>2, <1>3, BooksInit, BooksStep, TypeCorrect, PTL DEF Spec

-----------------------------------------------------------------------------
(* What the lease and the grant are needed for *)

\* The event e of task t is recorded under the grant of its admission if it
\* gives the task anything, within the lease if it ends the work, and after
\* the lease if it fences it, and never under a clock behind the admission.
Gate(t, e) ==
  /\ e.type \in Works \cup {"claimed"} => Permitted(t)
  /\ e.type \in Works \cup {"failed"} => now < lease[t].expires
  /\ e.type = "lease_expired" => lease[t].expires <= now
  /\ ClockAhead(t)

LEMMA Gates ==
  ASSUME TypeOK, TypeOK', [Next]_vars, NEW t \in Admitted, audit'[t] # audit[t]
  PROVE  \E e : audit'[t] = Append(audit[t], e) /\ Gate(t, e)
<1>a. audit \in [Tasks -> Seq(AuditEvent)] /\ t \in Tasks /\ status[t] # "absent"
  BY DEF TypeOK, Admitted
<1>b. \A l \in leases : l.task \in Tasks
  BY DEF TypeOK, Lease
<1> USE DEF Gate, Works
<1> DEFINE Goal == \E e : audit'[t] = Append(audit[t], e) /\ Gate(t, e)
<1>1. ASSUME NEW o, NEW k, NEW req, NEW u \in Tasks, NEW actor, Admit(o, k, req, u, actor)
      PROVE  Goal
  BY <1>1, <1>a DEF Admit, Record
<1>2. ASSUME NEW u \in Tasks, NEW agent, NEW seconds, NEW token,
             Claim(u, agent, seconds, token)
      PROVE  Goal
  <2>1. PICK e : e = Event("claimed", agent, [version |-> version[u] + 1])
    OBVIOUS
  <2>2. e.type = "claimed"
    BY <2>1 DEF Event
  <2>3. u = t /\ Permitted(u) /\ ClockAhead(u) /\ audit'[t] = Append(audit[t], e)
    BY <1>2, <1>a, <2>1 DEF Claim, Record
  <2> QED
    BY <2>2, <2>3
<1>3. ASSUME NEW page \in SUBSET Tasks, ExpireLeases(page) PROVE Goal
  <2>1. PICK e : e = Event("lease_expired", Maintainer, [version |-> version[t]])
    OBVIOUS
  <2>2. e.type = "lease_expired"
    BY <2>1 DEF Event
  <2>3. t \in page /\ audit'[t] = Append(audit[t], e)
    BY <1>3, <1>a, <2>1 DEF ExpireLeases
  <2>4. lease[t].expires <= now /\ ClockAhead(t)
    BY <1>3, <2>3 DEF ExpireLeases, FirstExpired, Expired
  <2> QED
    BY <2>2, <2>3, <2>4
<1>4. ASSUME NEW l \in leases, Fail(l) PROVE Goal
  <2>1. PICK e : e = Event("failed", l.agent, [version |-> l.version])
    OBVIOUS
  <2>2. e.type = "failed"
    BY <2>1 DEF Event
  <2>3. l.task = t /\ audit'[t] = Append(audit[t], e)
    BY <1>4, <1>a, <1>b, <2>1 DEF Fail, Record
  <2>4. now < lease[t].expires /\ ClockAhead(t)
    BY <1>4, <2>3 DEF Fail, Leave, Holds
  <2> QED
    BY <2>2, <2>3, <2>4
<1>5. ASSUME NEW l \in leases, NEW k, NEW req, NEW c \in Tasks, Delegate(l, k, req, c)
      PROVE  Goal
  <2>1. PICK e : e = Event("delegated", l.agent, DelegationProof(l, req, c))
    OBVIOUS
  <2>2. e.type = "delegated"
    BY <2>1 DEF Event
  <2>3. l.task = t /\ audit'[t] = Append(audit[t], e)
    BY <1>5, <1>a, <1>b, <2>1 DEF Delegate
  <2>4. now < lease[t].expires /\ Permitted(t) /\ ClockAhead(t)
    BY <1>5, <2>3 DEF Delegate, Holds
  <2> QED
    BY <2>2, <2>3, <2>4
<1>6. ASSUME NEW l \in leases, NEW out, AcceptResult(l, out) PROVE Goal
  <2>1. PICK e : e = Event("result_accepted", l.agent, ResultProof(l, out))
    OBVIOUS
  <2>2. e.type = "result_accepted"
    BY <2>1 DEF Event
  <2>3. l.task = t /\ audit'[t] = Append(audit[t], e)
    BY <1>6, <1>a, <1>b, <2>1 DEF AcceptResult, Record
  <2>4. now < lease[t].expires /\ Permitted(t) /\ ClockAhead(t)
    BY <1>6, <2>3 DEF AcceptResult, Leave, Holds
  <2> QED
    BY <2>2, <2>3, <2>4
<1>7. ASSUME NEW l \in leases, NEW asset, AcceptCompletion(l, asset) PROVE Goal
  <2>1. PICK e : e = Event("completion_accepted", l.agent, ResultProof(l, {asset}))
    OBVIOUS
  <2>2. e.type = "completion_accepted"
    BY <2>1 DEF Event
  <2>3. l.task = t /\ audit'[t] = Append(audit[t], e)
    BY <1>7, <1>a, <1>b, <2>1 DEF AcceptCompletion, Record
  <2>4. now < lease[t].expires /\ Permitted(t) /\ ClockAhead(t)
    BY <1>7, <2>3 DEF AcceptCompletion, Leave, Holds
  <2> QED
    BY <2>2, <2>3, <2>4
<1>8. ASSUME NEW u \in Tasks, NEW d, AcceptDecision(u, d) PROVE Goal
  <2>1. PICK e : e = Event("review_reconciled", Operator, d)
    OBVIOUS
  <2>2. e.type = "review_reconciled"
    BY <2>1 DEF Event
  <2>3. u = t /\ ClockAhead(u) /\ audit'[t] = Append(audit[t], e)
    BY <1>8, <1>a, <2>1 DEF AcceptDecision, Record
  <2> QED
    BY <2>2, <2>3
<1>9. ~ UNCHANGED tables
  BY DEF tables
<1> HIDE DEF Goal
<1>10. ASSUME Admission PROVE Goal
  BY <1>10, <1>1, <1>9 DEF Admission, ReplayAdmission
<1>11. ASSUME Leasing PROVE Goal
  BY <1>11, <1>2, <1>3, <1>4 DEF Leasing
<1>12. ASSUME Delegation PROVE Goal
  BY <1>12, <1>5, <1>9 DEF Delegation, ReplayDelegation
<1>13. ASSUME Results PROVE Goal
  BY <1>13, <1>6, <1>7, <1>9 DEF Results, ReplayResult
<1>14. ASSUME Review PROVE Goal
  BY <1>14, <1>8, <1>9 DEF Review, ReplayDecision
<1>15. Goal
  BY <1>9, <1>10, <1>11, <1>12, <1>13, <1>14
     DEF Next, Environment, ClockReads, PermissionsEdited, tables, vars
<1> QED
  BY <1>15 DEF Goal

\* The event of a turn is the one that passed a gate.
LEMMA TurnsGated ==
  ASSUME TypeOK, TypeOK', [Next]_vars, NEW t \in Admitted, NEW e, Turn(t, e)
  PROVE  Gate(t, e)
<1>1. audit[t] \in Seq(AuditEvent) /\ audit'[t] = Append(audit[t], e)
  BY DEF Turn, TypeOK, Admitted
<1>2. audit'[t][Len(audit[t]) + 1] = e /\ audit'[t] # audit[t]
  <2>1. Len(audit'[t]) = Len(audit[t]) + 1 /\ Len(audit[t]) \in Nat
    BY <1>1
  <2> QED
    BY <1>1, <2>1
<1>3. PICK f : audit'[t] = Append(audit[t], f) /\ Gate(t, f)
  BY <1>2, Gates
<1>4. audit'[t][Len(audit[t]) + 1] = f
  BY <1>1, <1>3
<1> QED
  BY <1>2, <1>3, <1>4

\* Only a claim hands out a lease, under the grant of the admission.
LEMMA LeasesGated ==
  ASSUME [Next]_vars
  PROVE  leases \subseteq leases' /\ \A l \in leases' : l \in leases \/ Permitted(l.task)
<1> DEFINE Goal == leases \subseteq leases' /\ \A l \in leases' : l \in leases \/ Permitted(l.task)
<1>1. ASSUME NEW t, NEW agent, NEW seconds, NEW token, Claim(t, agent, seconds, token)
      PROVE  Goal
  BY <1>1 DEF Claim
<1>2. ASSUME leases' = leases PROVE Goal
  BY <1>2
<1> HIDE DEF Goal
<1>3. ASSUME Admission PROVE leases' = leases
  BY <1>3 DEF Admission, ReplayAdmission, Admit
<1>4. ASSUME Leasing PROVE Goal
  BY <1>1, <1>2, <1>4 DEF Leasing, ExpireLeases, Fail
<1>5. ASSUME Delegation PROVE leases' = leases
  <2>1. ASSUME NEW l, NEW k, NEW req, NEW c, Delegate(l, k, req, c) PROVE leases' = leases
    BY <2>1 DEF Delegate
  <2>2. ASSUME NEW l, NEW req, ReplayDelegation(l, req) PROVE leases' = leases
    BY <2>2 DEF ReplayDelegation
  <2> QED
    BY <1>5, <2>1, <2>2 DEF Delegation
<1>6. ASSUME Results PROVE leases' = leases
  BY <1>6 DEF Results, ReplayResult, AcceptResult, AcceptCompletion
<1>7. ASSUME Review PROVE leases' = leases
  BY <1>7 DEF Review, ReplayDecision, AcceptDecision
<1>8. ASSUME Environment \/ UNCHANGED vars PROVE leases' = leases
  BY <1>8 DEF Environment, ClockReads, PermissionsEdited, vars
<1>9. Goal
  BY <1>2, <1>3, <1>4, <1>5, <1>6, <1>7, <1>8 DEF Next
<1> QED
  BY <1>9 DEF Goal

\* An admitted task has a row.
Rowed(t) == status[t] # "absent" => row[t] \in Row

LEMMA RowedStep ==
  ASSUME TypeOK, TypeOK', [Next]_vars, NEW t \in Tasks, Rowed(t)
  PROVE  Rowed(t)'
<1>1. CASE t \in Admitted
  BY <1>1, RowsStay DEF Rowed, Admitted, TypeOK
<1>2. CASE t \notin Admitted
  <2> DEFINE Goal == status'[t] = "absent" \/ row'[t] # NoRow
  <2>0. status[t] = "absent"
    BY <1>2 DEF Admitted
  <2>a. \A l \in leases : l.task \in Tasks
    BY DEF TypeOK, Lease
  <2>b. row \in [Tasks -> Row \cup {NoRow}] /\ status \in [Tasks -> Statuses \cup {"absent"}]
    BY DEF TypeOK
  <2>1. ASSUME NEW o, NEW k, NEW req, NEW u \in Tasks, NEW actor, Admit(o, k, req, u, actor)
        PROVE  Goal
    BY <2>0, <2>1, <2>b DEF Admit, NoRow
  <2>2. ASSUME NEW l \in leases, NEW k, NEW req, NEW c \in Tasks, Delegate(l, k, req, c)
        PROVE  Goal
    BY <2>0, <2>2, <2>a, <2>b DEF Delegate, Holds, NoRow
  <2>3. ASSUME UNCHANGED status PROVE Goal
    BY <2>0, <2>3
  <2>4. ASSUME Leasing PROVE Goal
    BY <2>0, <2>4, <2>a, <2>b
       DEF Leasing, Claim, ExpireLeases, FirstExpired, Expired, Fail, Leave, Holds
  <2>5. ASSUME Results PROVE Goal
    <3>1. ASSUME NEW l \in leases, NEW out, AcceptResult(l, out) PROVE Goal
      BY <2>0, <2>a, <2>b, <3>1 DEF AcceptResult, Leave, Holds
    <3>2. ASSUME NEW l \in leases, NEW asset, AcceptCompletion(l, asset) PROVE Goal
      BY <2>0, <2>a, <2>b, <3>2 DEF AcceptCompletion, Leave, Holds
    <3> HIDE DEF Goal
    <3> QED
      BY <2>3, <2>5, <3>1, <3>2 DEF Results, ReplayResult, tables
  <2>6. ASSUME NEW u \in Tasks, NEW d, AcceptDecision(u, d) PROVE Goal
    BY <2>0, <2>6, <2>b DEF AcceptDecision
  <2> HIDE DEF Goal
  <2>7. ASSUME Admission PROVE Goal
    BY <2>1, <2>3, <2>7 DEF Admission, ReplayAdmission, tables
  <2>8. ASSUME Delegation PROVE Goal
    BY <2>2, <2>3, <2>8 DEF Delegation, ReplayDelegation, tables
  <2>9. ASSUME Review PROVE Goal
    BY <2>3, <2>6, <2>9 DEF Review, ReplayDecision, tables
  <2>10. ASSUME Environment \/ UNCHANGED vars PROVE Goal
    BY <2>3, <2>10 DEF Environment, ClockReads, PermissionsEdited, tables, vars
  <2>11. Goal
    BY <2>4, <2>5, <2>7, <2>8, <2>9, <2>10 DEF Next
  <2> QED
    BY <2>11 DEF Goal, Rowed, TypeOK
<1> QED
  BY <1>1, <1>2

\* A task that is running has a lease that ends after the task's admission.
Leased(t) ==
  status[t] = "running" => lease[t] # NoLease /\ row[t].createdAt < lease[t].expires

LEMMA LeasedStep ==
  ASSUME TypeOK, [Next]_vars, NEW t \in Tasks, Rowed(t), Leased(t)
  PROVE  Leased(t)'
<1> DEFINE Kept == status'[t] = "running" => status[t] = "running" /\ lease'[t] = lease[t]
                                                /\ row'[t] = row[t]
<1> USE DEF TypeOK
<1>b. \A l \in leases : l.task \in Tasks
  BY DEF Lease
<1>1. ASSUME NEW u \in Tasks, NEW agent, NEW seconds \in Durations, NEW token \in Tokens,
             Claim(u, agent, seconds, token)
      PROVE  Leased(t)'
  <2>1. [token |-> token, expires |-> now + seconds] \in [token : Tokens, expires : Nat]
    BY BrokerAssumption
  <2>2. [token |-> token, expires |-> now + seconds] # NoLease
    BY <2>1, BrokerAssumption
  <2>3. CASE u = t
    <3>1. status[t] = "queued" /\ row[t].createdAt <= now /\ row'[t] = row[t]
      BY <1>1, <2>3 DEF Claim, ClockAhead
    <3>2. lease'[t] = [token |-> token, expires |-> now + seconds]
      BY <1>1, <2>3 DEF Claim
    <3>3. row[t].createdAt \in Nat
      BY <3>1 DEF Rowed, Row
    <3>4. row[t].createdAt < now + seconds
      <4>1. seconds \in Nat /\ 0 < seconds /\ now \in Nat
        BY BrokerAssumption
      <4> QED
        BY <3>1, <3>3, <4>1
    <3>5. row'[t].createdAt < lease'[t].expires
      BY <3>1, <3>2, <3>4
    <3> QED
      BY <2>2, <3>2, <3>5 DEF Leased
  <2>4. CASE u # t
    BY <1>1, <2>4 DEF Claim, Leased
  <2> QED
    BY <2>3, <2>4
<1>2. ASSUME Admission PROVE Kept
  BY <1>2 DEF Admission, ReplayAdmission, Admit, tables
<1>3. ASSUME NEW page \in SUBSET Tasks, ExpireLeases(page) PROVE Kept
  BY <1>3 DEF ExpireLeases, Abandoned
<1>4. ASSUME NEW l \in leases, Fail(l) PROVE Kept
  BY <1>4, <1>b DEF Fail, Leave, Abandoned
<1>5. ASSUME NEW l \in leases, NEW k, NEW req, NEW c \in Tasks, Delegate(l, k, req, c)
      PROVE  Kept
  BY <1>5, <1>b DEF Delegate
<1>6. ASSUME NEW l \in leases, NEW out, AcceptResult(l, out) PROVE Kept
  BY <1>6, <1>b DEF AcceptResult, Leave
<1>7. ASSUME NEW l \in leases, NEW asset, AcceptCompletion(l, asset) PROVE Kept
  BY <1>7, <1>b DEF AcceptCompletion, Leave
<1>8. ASSUME NEW u \in Tasks, NEW d, AcceptDecision(u, d) PROVE Kept
  BY <1>8 DEF AcceptDecision, Reviewed
<1>9. ASSUME UNCHANGED tables PROVE Kept
  BY <1>9 DEF tables
<1>10. ASSUME Kept PROVE Leased(t)'
  BY <1>10 DEF Leased
<1> HIDE DEF Kept, TypeOK
<1>11. ASSUME Leasing PROVE Leased(t)'
  BY <1>11, <1>1, <1>3, <1>4, <1>10 DEF Leasing
<1>12. ASSUME Delegation PROVE Kept
  BY <1>12, <1>5, <1>9 DEF Delegation, ReplayDelegation
<1>13. ASSUME Results PROVE Kept
  BY <1>13, <1>6, <1>7, <1>9 DEF Results, ReplayResult
<1>14. ASSUME Review PROVE Kept
  BY <1>14, <1>8, <1>9 DEF Review, ReplayDecision
<1>15. ASSUME Environment \/ UNCHANGED vars PROVE Kept
  BY <1>15, <1>9 DEF Environment, ClockReads, PermissionsEdited, tables, vars
<1> QED
  BY <1>2, <1>10, <1>11, <1>12, <1>13, <1>14, <1>15 DEF Next

\* What an event adds to the events of a type.
LEMMA TurnShows ==
  ASSUME TypeOK, NEW t \in Tasks, NEW e \in AuditEvent, Turn(t, e), NEW type
  PROVE  Events(t, type)' = Events(t, type) \cup (IF e.type = type THEN {e} ELSE {})
<1>1. OfType(Append(audit[t], e), type)
        = OfType(audit[t], type) \cup (IF e.type = type THEN {e} ELSE {})
  BY OfTypeAppend DEF TypeOK
<1> QED
  BY <1>1 DEF Events, Turn

\* While the permission file differs from what a task was admitted with, the
\* task is neither leased nor handed off nor given an asset (task_broker.py
\* claim, delegate, accept_verified_result, accept_verified_completion).
THEOREM RevokedGainsNothing == Spec => RevocationStopsWork
<1>1. TypeOK /\ TypeOK' /\ [Next]_vars =>
        [\A t \in Admitted : grant[row[t].request.agent] # row[t].snapshot =>
           /\ assets'[t] = assets[t]
           /\ {l \in leases' : l.task = t} = {l \in leases : l.task = t}
           /\ Delegated(t)' = Delegated(t)]_vars
  <2> SUFFICES ASSUME TypeOK, TypeOK', [Next]_vars, NEW t \in Admitted,
                      grant[row[t].request.agent] # row[t].snapshot
               PROVE  /\ assets'[t] = assets[t]
                      /\ {l \in leases' : l.task = t} = {l \in leases : l.task = t}
                      /\ Delegated(t)' = Delegated(t)
    OBVIOUS
  <2>1. ~Permitted(t) /\ t \in Tasks
    BY DEF Permitted, Admitted
  <2>2. {l \in leases' : l.task = t} = {l \in leases : l.task = t}
    BY <2>1, LeasesGated
  <2>3. CASE Stays(t)
    BY <2>2, <2>3 DEF Stays, Delegated, Events
  <2>4. ASSUME NEW e \in AuditEvent, Turn(t, e)
        PROVE  assets'[t] = assets[t] /\ Delegated(t)' = Delegated(t)
    <3>1. e.type \notin Works
      BY <2>1, <2>4, TurnsGated DEF Gate
    <3>2. assets'[t] = assets[t]
      BY <2>4, <3>1 DEF Turn, Works
    <3>3. Events(t, "delegated")'
            = Events(t, "delegated") \cup (IF e.type = "delegated" THEN {e} ELSE {})
      BY <2>1, <2>4, TurnShows
    <3>4. Events(t, "delegated")' = Events(t, "delegated")
      BY <3>1, <3>3 DEF Works
    <3> QED
      BY <3>2, <3>4 DEF Delegated
  <2> QED
    BY <2>1, <2>2, <2>3, <2>4, Turns
<1> QED
  BY <1>1, TypeCorrect, PTL DEF Spec, RevocationStopsWork

\* A task that was fenced has failed, and stays so.
Fenced == \A t \in Tasks : Events(t, "lease_expired") # {} => status[t] = "failed"

LEMMA FencedStep == TypeOK /\ TypeOK' /\ Fenced /\ [Next]_vars => Fenced'
<1> SUFFICES ASSUME TypeOK, TypeOK', Fenced, [Next]_vars, NEW t \in Tasks,
                    Events(t, "lease_expired")' # {}
             PROVE  status'[t] = "failed"
  BY DEF Fenced
<1>1. CASE Stays(t)
  BY <1>1 DEF Stays, Events, Fenced
<1>2. ASSUME NEW e \in AuditEvent, Turn(t, e) PROVE status'[t] = "failed"
  <2>1. CASE e.type = "lease_expired"
    BY <1>2, <2>1 DEF Turn, After
  <2>2. CASE e.type # "lease_expired"
    <3>1. Events(t, "lease_expired") # {}
      BY <1>2, <2>2, TurnShows
    <3>2. status[t] = "failed"
      BY <3>1 DEF Fenced
    <3> QED
      BY <1>2, <3>2 DEF Turn, Prior
  <2> QED
    BY <2>1, <2>2
<1> QED
  BY <1>1, <1>2, Turns

\* Work ends within the lease or is fenced after it, never both and never
\* neither (task_broker.py _current_lease, expire_leases).
THEOREM LeasesBoundWork == Spec => LeaseBoundsWork
<1> DEFINE AllLeased == \A t \in Tasks : Rowed(t) /\ Leased(t)
<1>1. Init => Fenced /\ AllLeased
  BY DEF Init, Fenced, Events, OfType, Rowed, Leased
<1>2. TypeOK /\ TypeOK' /\ Fenced /\ AllLeased /\ [Next]_vars =>
        [\A t \in Tasks : status[t] = "running" /\ status'[t] # "running" =>
           IF now < lease[t].expires
           THEN Events(t, "lease_expired")' = {}
           ELSE status'[t] = "failed" /\ Events(t, "lease_expired")' # {}]_vars
  <2> SUFFICES ASSUME TypeOK, TypeOK', Fenced, AllLeased, [Next]_vars, NEW t \in Tasks,
                      status[t] = "running", status'[t] # "running"
               PROVE  IF now < lease[t].expires
                      THEN Events(t, "lease_expired")' = {}
                      ELSE status'[t] = "failed" /\ Events(t, "lease_expired")' # {}
    OBVIOUS
  <2>1. PICK e \in AuditEvent : Turn(t, e)
    BY Turns DEF Stays
  <2>2. t \in Admitted /\ Gate(t, e)
    BY <2>1, TurnsGated DEF Admitted
  <2>3. e.type \in Works \cup {"failed", "lease_expired"}
    BY <2>1 DEF Turn, Prior, AuditEvent, EventTypes, Works
  <2>4. Events(t, "lease_expired")' = IF e.type = "lease_expired" THEN {e} ELSE {}
    BY <2>1, TurnShows DEF Fenced
  <2>5. CASE e.type = "lease_expired"
    <3>1. lease[t].expires <= now
      BY <2>2, <2>5 DEF Gate
    <3>2. status'[t] = "failed"
      BY <2>1, <2>5 DEF Turn, After
    <3>3. lease[t].expires \in Nat /\ now \in Nat
      BY DEF TypeOK, Leased
    <3>4. ~(now < lease[t].expires)
      BY <3>1, <3>3
    <3> QED
      BY <2>4, <2>5, <3>2, <3>4
  <2>6. CASE e.type # "lease_expired"
    BY <2>2, <2>3, <2>4, <2>6 DEF Gate
  <2> QED
    BY <2>5, <2>6
<1>3. TypeOK /\ TypeOK' /\ AllLeased /\ [Next]_vars => AllLeased'
  BY RowedStep, LeasedStep
<1> HIDE DEF AllLeased
<1> QED
  BY <1>1, <1>2, <1>3, FencedStep, TypeCorrect, PTL DEF Spec, LeaseBoundsWork

\* No due lease can abort the page that is to fence it, whatever the clock did
\* (task_broker.py expire_leases, CHECK (updated_at >= created_at)).
THEOREM FencesStayFree == Spec => []FencesAreFree
<1> DEFINE AllLeased == \A t \in Tasks : Rowed(t) /\ Leased(t)
<1>1. Init => AllLeased
  BY DEF Init, Rowed, Leased
<1>2. TypeOK /\ TypeOK' /\ AllLeased /\ [Next]_vars => AllLeased'
  BY RowedStep, LeasedStep
<1>3. AllLeased => FencesAreFree
  BY DEF Leased, FencesAreFree
<1> HIDE DEF AllLeased
<1> QED
  BY <1>1, <1>2, <1>3, TypeCorrect, PTL DEF Spec

\* Under a clock behind its admission a task stays as it is
\* (task-broker-v1.sql, CHECK (updated_at >= created_at)).
THEOREM ClockBackStops == Spec => ClockBackFreezes
<1>1. TypeOK /\ TypeOK' /\ (\A t \in Tasks : Rowed(t)) /\ [Next]_vars =>
        [\A t \in Admitted : now < row[t].createdAt =>
           /\ status'[t] = status[t] /\ version'[t] = version[t]
           /\ audit'[t] = audit[t] /\ assets'[t] = assets[t]]_vars
  <2> SUFFICES ASSUME TypeOK, TypeOK', NEW t \in Admitted, Rowed(t), [Next]_vars,
                      now < row[t].createdAt
               PROVE  /\ status'[t] = status[t] /\ version'[t] = version[t]
                      /\ audit'[t] = audit[t] /\ assets'[t] = assets[t]
    BY DEF Admitted
  <2>1. now \in Nat /\ row[t].createdAt \in Nat /\ t \in Tasks
    BY DEF TypeOK, Rowed, Row, Admitted
  <2>2. ~ClockAhead(t)
    BY <2>1 DEF ClockAhead
  <2>3. Stays(t)
    BY <2>1, <2>2, Turns, TurnsGated DEF Gate
  <2> QED
    BY <2>3 DEF Stays
<1>2. Init => \A t \in Tasks : Rowed(t)
  BY DEF Init, Rowed
<1>3. TypeOK /\ TypeOK' /\ (\A t \in Tasks : Rowed(t)) /\ [Next]_vars
        => (\A t \in Tasks : Rowed(t))'
  BY RowedStep
<1> QED
  BY <1>1, <1>2, <1>3, TypeCorrect, PTL DEF Spec, ClockBackFreezes

=============================================================================
