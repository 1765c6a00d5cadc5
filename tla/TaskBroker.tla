----------------------------- MODULE TaskBroker -----------------------------
(***************************************************************************)
(* The task broker of pipeline/task_broker.py over the schema of           *)
(* contracts/task-broker-v1.sql, for one project.  Every public method is  *)
(* one BEGIN IMMEDIATE transaction, so every method is one action; a call  *)
(* that raises rolls back and is no step.  Callers are not modelled: any   *)
(* lease a claim ever returned may be used, at any later time and any      *)
(* number of times, which covers slow, restarted and repeated workers.     *)
(*                                                                         *)
(* A digest is the value it is taken of.  A permission projection is an    *)
(* element of Grants; NoGrant is a file that permissions() rejects.        *)
(***************************************************************************)
EXTENDS Naturals, Sequences, FiniteSets

CONSTANTS
  Tasks,         \* the uuid4 values a task may be given
  NoTask,        \* the NULL parent_task_id
  Agents,        \* agent names
  Callers,       \* actors named by those who admit tasks
  Grants,        \* permission projections that permissions() can return
  NoGrant,       \* a missing, disabled or invalid grant
  Origins,       \* values of the origin column
  Keys,          \* origin keys
  Inputs,        \* an input_ref with its sha256
  NotBefores,    \* due times callers ask for
  AttemptLimits, \* max_attempts callers ask for
  Durations,     \* lease_seconds callers ask for
  Tokens,        \* the uuid4 values a lease token may be given
  NoLease,       \* NULL lease columns
  AssetIds,      \* an asset_id with its revision
  Hashes,        \* sha256 of an asset's bytes
  DecisionIds,   \* identities of human review actions
  ExpiryLimit,   \* the limit argument of expire_leases
  MaxTime        \* bound on the wall clock, for TLC

ASSUME BrokerAssumption ==
  /\ NoTask \notin Tasks
  /\ NoGrant \notin Grants
  /\ "agent" \in Origins
  /\ NotBefores \subseteq Nat
  /\ AttemptLimits \subseteq 1..5
  /\ Durations \subseteq 1..3600
  /\ NoLease \notin [token : Tokens, expires : Nat]
  /\ ExpiryLimit \in 1..100
  /\ MaxTime \in Nat

VARIABLES
  now,        \* int(clock()): wall clock, which an administrator may set back
  grant,      \* the permission file, as permissions() would read it now
  row,        \* tasks: the columns no statement updates
  status,     \* tasks.status; "absent" before the row is inserted
  version,    \* tasks.version
  attempt,    \* tasks.attempt
  lease,      \* tasks.lease_token with tasks.lease_expires_at
  audit,      \* audit_events of each task, in order
  assets,     \* task_assets
  decisions,  \* decisions
  leases,     \* every lease a claim has returned to a worker
  answers     \* every success the broker has reported to a caller

tables == <<row, status, version, attempt, lease, audit, assets, decisions>>

vars == <<now, grant, row, status, version, attempt, lease, audit, assets,
          decisions, leases, answers>>

-----------------------------------------------------------------------------
(* Data *)

Statuses == {"queued", "running", "awaiting_review", "completed", "failed",
             "cancelled"}

Request == [agent : Agents, input : Inputs, notBefore : NotBefores,
            maxAttempts : AttemptLimits, parent : Tasks \cup {NoTask}]

Row == [origin : Origins, key : Keys, request : Request, snapshot : Grants,
        createdAt : Nat]

NoRow == [origin |-> "none"]

Lease == [task : Tasks, agent : Agents, token : Tokens, version : Nat]

Asset == [asset : AssetIds, sha : Hashes]

\* A list of descriptors without a repeated (asset_id, revision).
Submission(out) ==
  /\ out \subseteq Asset
  /\ out # {}
  /\ \A a, b \in out : a.asset = b.asset => a = b

Actions == {"approve", "decline", "note"}

Decision == [id : DecisionIds, asset : Asset, action : Actions]

EventTypes == {"admitted", "claimed", "lease_expired", "delegated", "failed",
               "result_accepted", "completion_accepted", "review_reconciled"}

\* The operator account named in decisions.actor_id and in its event.
Operator == "local-os-operator"
Maintainer == "lease-maintenance"

Admitted == {t \in Tasks : status[t] # "absent"}

\* The events of a trail that have the given type.
OfType(trail, type) == {e \in {trail[i] : i \in 1..Len(trail)} : e.type = type}

\* The audit_events rows of task t that have the given type.
Events(t, type) == OfType(audit[t], type)

\* UNIQUE (project_id, origin, origin_key): the task that holds a key.
Holder(o, k) == {t \in Admitted : row[t].origin = o /\ row[t].key = k}

-----------------------------------------------------------------------------
(* Helpers of the transactions *)

\* permissions(agent) does not raise.
Grantable(agent) == grant[agent] # NoGrant

\* Slip: a permission that is valid today stands for the one admitted.
PermittedToday(t) == Grantable(row[t].request.agent)

\* permissions(agent) raises, or its digest is compared with the snapshot.
Permitted(t) == grant[row[t].request.agent] = row[t].snapshot

\* Slip: the schema lets a row be updated before it was made.
AnyClock(t) == t \in Tasks

\* CHECK (updated_at >= created_at) aborts an UPDATE under a clock set back.
ClockAhead(t) == now >= row[t].createdAt

\* Slip: a lease still counts at the second it runs out.
HoldsAtExpiry(l) ==
  /\ status[l.task] = "running"
  /\ row[l.task].request.agent = l.agent
  /\ lease[l.task].token = l.token
  /\ version[l.task] = l.version
  /\ now <= lease[l.task].expires

\* The caller's lease is the task's current one and has not run out.
Holds(l) ==
  /\ status[l.task] = "running"
  /\ row[l.task].request.agent = l.agent
  /\ lease[l.task].token = l.token
  /\ version[l.task] = l.version
  /\ now < lease[l.task].expires

\* Slip: an attempt that leaves some over is queued again.
Requeued(t) ==
  IF attempt[t] < row[t].request.maxAttempts THEN "queued" ELSE "failed"

\* The status that ends an attempt without a result.
Abandoned(t) == "failed"

\* Slip: the version moves only when the lease is taken.
LeaveUnversioned(t, s) ==
  /\ ClockAhead(t)
  /\ status' = [status EXCEPT ![t] = s]
  /\ lease' = [lease EXCEPT ![t] = NoLease]
  /\ UNCHANGED version

\* UPDATE tasks SET status=..., version=version+1, lease columns NULL.
Leave(t, s) ==
  /\ ClockAhead(t)
  /\ status' = [status EXCEPT ![t] = s]
  /\ version' = [version EXCEPT ![t] = @ + 1]
  /\ lease' = [lease EXCEPT ![t] = NoLease]

Event(type, actor, proof) == [type |-> type, actor |-> actor, proof |-> proof]

Record(t, e) == audit' = [audit EXCEPT ![t] = Append(@, e)]

Answer(a) == answers' = answers \cup {a}

-----------------------------------------------------------------------------
(* Admission *)

\* admit, existing origin key: only the identical request is answered, and
\* the permission file is not read.
ReplayAdmission(o, k, req, t) ==
  /\ req.parent \in Admitted \cup {NoTask}
  /\ t \in Holder(o, k)
  /\ row[t].request = req
  /\ Answer([op |-> "admit", task |-> t, key |-> <<o, k>>, proof |-> req])
  /\ UNCHANGED tables /\ UNCHANGED <<now, grant, leases>>

\* admit, new origin key.
Admit(o, k, req, t, actor) ==
  /\ req.parent \in Admitted \cup {NoTask}
  /\ Holder(o, k) = {}
  /\ Grantable(req.agent)
  /\ status[t] = "absent"
  /\ row' = [row EXCEPT ![t] = [origin |-> o, key |-> k, request |-> req,
                                snapshot |-> grant[req.agent],
                                createdAt |-> now]]
  /\ status' = [status EXCEPT ![t] = "queued"]
  /\ Record(t, Event("admitted", actor, [input |-> req.input]))
  /\ Answer([op |-> "admit", task |-> t, key |-> <<o, k>>, proof |-> req])
  /\ UNCHANGED <<now, grant, version, attempt, lease, assets, decisions, leases>>

-----------------------------------------------------------------------------
(* Leases *)

Claim(t, agent, seconds, token) ==
  /\ status[t] = "queued"
  /\ row[t].request.agent = agent
  /\ row[t].request.notBefore <= now
  /\ attempt[t] < row[t].request.maxAttempts
  /\ Permitted(t)
  /\ token \notin {l.token : l \in leases}
  /\ ClockAhead(t)
  /\ status' = [status EXCEPT ![t] = "running"]
  /\ version' = [version EXCEPT ![t] = @ + 1]
  /\ attempt' = [attempt EXCEPT ![t] = @ + 1]
  /\ lease' = [lease EXCEPT ![t] = [token |-> token, expires |-> now + seconds]]
  /\ Record(t, Event("claimed", agent, [version |-> version[t] + 1]))
  /\ leases' = leases \cup {[task |-> t, agent |-> agent, token |-> token,
                             version |-> version[t] + 1]}
  /\ UNCHANGED <<now, grant, row, assets, decisions, answers>>

Expired == {t \in Tasks : status[t] = "running" /\ lease[t].expires <= now}

\* One page of ORDER BY lease_expires_at, task_id LIMIT limit; the order of
\* task ids of equal expiry is left open.
FirstExpired(page) ==
  /\ page \subseteq Expired
  /\ page # {}
  /\ Cardinality(page) <= ExpiryLimit
  /\ page # Expired => Cardinality(page) = ExpiryLimit
  /\ \A t \in page, u \in Expired \ page : lease[t].expires <= lease[u].expires

ExpireLeases(page) ==
  /\ FirstExpired(page)
  /\ \A t \in page : ClockAhead(t)
  /\ status' = [t \in Tasks |-> IF t \in page THEN Abandoned(t) ELSE status[t]]
  /\ version' = [t \in Tasks |-> IF t \in page THEN version[t] + 1 ELSE version[t]]
  /\ lease' = [t \in Tasks |-> IF t \in page THEN NoLease ELSE lease[t]]
  /\ audit' = [t \in Tasks |->
                 IF t \in page
                 THEN Append(audit[t], Event("lease_expired", Maintainer,
                                             [version |-> version[t]]))
                 ELSE audit[t]]
  /\ UNCHANGED <<now, grant, row, attempt, assets, decisions, leases, answers>>

Fail(l) ==
  /\ Holds(l)
  /\ Leave(l.task, Abandoned(l.task))
  /\ Record(l.task, Event("failed", l.agent, [version |-> l.version]))
  /\ UNCHANGED <<now, grant, row, attempt, assets, decisions, leases, answers>>

-----------------------------------------------------------------------------
(* Delegation *)

\* Slip: the child is admitted as a root task.
RootRequest(l, agent, input, due, limit) ==
  [agent |-> agent, input |-> input, notBefore |-> due, maxAttempts |-> limit,
   parent |-> NoTask]

ChildRequest(l, agent, input, due, limit) ==
  [agent |-> agent, input |-> input, notBefore |-> due, maxAttempts |-> limit,
   parent |-> l.task]

DelegationProof(l, req, c) == [request |-> req, version |-> l.version, child |-> c]

\* The parent already handed off: only the identical handoff is answered.
\* The origin key is not part of the comparison.
ReplayDelegation(l, req) ==
  /\ \E e \in Events(l.task, "delegated") :
       /\ e.actor = l.agent
       /\ e.proof = DelegationProof(l, req, e.proof.child)
       /\ Answer([op |-> "delegate", task |-> l.task, proof |-> e.proof])
  /\ UNCHANGED tables /\ UNCHANGED <<now, grant, leases>>

Delegate(l, k, req, c) ==
  /\ Events(l.task, "delegated") = {}
  /\ Holds(l)
  /\ Permitted(l.task)
  /\ Holder("agent", k) = {}
  /\ Grantable(req.agent)
  /\ status[c] = "absent"
  /\ ClockAhead(l.task)
  /\ row' = [row EXCEPT ![c] = [origin |-> "agent", key |-> k, request |-> req,
                                snapshot |-> grant[req.agent],
                                createdAt |-> now]]
  /\ status' = [status EXCEPT ![c] = "queued", ![l.task] = "completed"]
  /\ version' = [version EXCEPT ![l.task] = @ + 1]
  /\ lease' = [lease EXCEPT ![l.task] = NoLease]
  /\ audit' = [audit EXCEPT
                 ![c] = Append(@, Event("admitted", l.agent, [input |-> req.input])),
                 ![l.task] = Append(@, Event("delegated", l.agent,
                                             DelegationProof(l, req, c)))]
  /\ Answer([op |-> "delegate", task |-> l.task, proof |-> DelegationProof(l, req, c)])
  /\ UNCHANGED <<now, grant, attempt, assets, decisions, leases>>

-----------------------------------------------------------------------------
(* Results *)

ResultProof(l, out) == [result |-> out, token |-> l.token, version |-> l.version]

\* Slip: a retry is recognised by its agent, not by its bytes.
ReplayAnyResult(l, out) ==
  /\ Submission(out)
  /\ \E e \in Events(l.task, "result_accepted") : e.actor = l.agent
  /\ Answer([op |-> "result", task |-> l.task, proof |-> ResultProof(l, out)])
  /\ UNCHANGED tables /\ UNCHANGED <<now, grant, leases>>

\* accept_verified_result after an earlier acceptance.
ReplayResult(l, out) ==
  /\ \E e \in Events(l.task, "result_accepted") :
       e.actor = l.agent /\ e.proof = ResultProof(l, out)
  /\ Answer([op |-> "result", task |-> l.task, proof |-> ResultProof(l, out)])
  /\ UNCHANGED tables /\ UNCHANGED <<now, grant, leases>>

AcceptResult(l, out) ==
  /\ Submission(out)
  /\ Events(l.task, "result_accepted") = {}
  /\ Holds(l)
  /\ Permitted(l.task)
  /\ Leave(l.task, "awaiting_review")
  /\ assets' = [assets EXCEPT ![l.task] = @ \cup out]
  /\ Record(l.task, Event("result_accepted", l.agent, ResultProof(l, out)))
  /\ Answer([op |-> "result", task |-> l.task, proof |-> ResultProof(l, out)])
  /\ UNCHANGED <<now, grant, row, attempt, decisions, leases>>

\* accept_verified_completion, which answers no retry.
AcceptCompletion(l, asset) ==
  /\ Holds(l)
  /\ Permitted(l.task)
  /\ Leave(l.task, "completed")
  /\ assets' = [assets EXCEPT ![l.task] = @ \cup {asset}]
  /\ Record(l.task, Event("completion_accepted", l.agent, ResultProof(l, {asset})))
  /\ Answer([op |-> "completion", task |-> l.task, proof |-> ResultProof(l, {asset})])
  /\ UNCHANGED <<now, grant, row, attempt, decisions, leases>>

-----------------------------------------------------------------------------
(* Review decisions *)

ReplayDecision(t, d) ==
  /\ \E e \in Events(t, "review_reconciled") : e.proof = d
  /\ Answer([op |-> "decision", task |-> t, proof |-> d])
  /\ UNCHANGED tables /\ UNCHANGED <<now, grant, leases>>

Reviewed(action) == IF action = "approve" THEN "completed" ELSE "cancelled"

\* The decisions table has decision_id as its key.
AcceptDecision(t, d) ==
  /\ Events(t, "review_reconciled") = {}
  /\ status[t] = "awaiting_review"
  /\ d.asset \in assets[t]
  /\ d.id \notin {e[2].id : e \in decisions}
  /\ decisions' = decisions \cup {<<t, d>>}
  /\ ClockAhead(t)
  /\ status' = [status EXCEPT ![t] = Reviewed(d.action)]
  /\ version' = [version EXCEPT ![t] = @ + 1]
  /\ Record(t, Event("review_reconciled", Operator, d))
  /\ Answer([op |-> "decision", task |-> t, proof |-> d])
  /\ UNCHANGED <<now, grant, row, attempt, lease, assets, leases>>

-----------------------------------------------------------------------------
(* The environment: the wall clock and the edited permission file *)

ClockReads(n) ==
  /\ now' = n
  /\ UNCHANGED tables /\ UNCHANGED <<grant, leases, answers>>

PermissionsEdited(g) ==
  /\ grant' = g
  /\ UNCHANGED tables /\ UNCHANGED <<now, leases, answers>>

-----------------------------------------------------------------------------

Init ==
  /\ now = 0
  /\ grant \in [Agents -> Grants \cup {NoGrant}]
  /\ row = [t \in Tasks |-> NoRow]
  /\ status = [t \in Tasks |-> "absent"]
  /\ version = [t \in Tasks |-> 0]
  /\ attempt = [t \in Tasks |-> 0]
  /\ lease = [t \in Tasks |-> NoLease]
  /\ audit = [t \in Tasks |-> << >>]
  /\ assets = [t \in Tasks |-> {}]
  /\ decisions = {}
  /\ leases = {}
  /\ answers = {}

Admission ==
  \E o \in Origins, k \in Keys, req \in Request, t \in Tasks :
    \/ ReplayAdmission(o, k, req, t)
    \/ \E actor \in Callers : Admit(o, k, req, t, actor)

Leasing ==
  \/ \E t \in Tasks, agent \in Agents, seconds \in Durations, token \in Tokens :
       Claim(t, agent, seconds, token)
  \/ \E page \in SUBSET Tasks : ExpireLeases(page)
  \/ \E l \in leases : Fail(l)

Delegation ==
  \E l \in leases, agent \in Agents, input \in Inputs, due \in NotBefores,
     limit \in AttemptLimits :
    LET req == ChildRequest(l, agent, input, due, limit) IN
      \/ ReplayDelegation(l, req)
      \/ \E k \in Keys, c \in Tasks : Delegate(l, k, req, c)

Results ==
  \/ \E l \in leases, out \in SUBSET Asset :
       ReplayResult(l, out) \/ AcceptResult(l, out)
  \/ \E l \in leases, asset \in Asset : AcceptCompletion(l, asset)

Review ==
  \E t \in Tasks, d \in Decision : ReplayDecision(t, d) \/ AcceptDecision(t, d)

Environment ==
  \/ \E n \in 0..MaxTime : ClockReads(n)
  \/ \E g \in [Agents -> Grants \cup {NoGrant}] : PermissionsEdited(g)

Next == Admission \/ Leasing \/ Delegation \/ Results \/ Review \/ Environment

Spec == Init /\ [][Next]_vars

-----------------------------------------------------------------------------
(* What the broker promises *)

Actors == Agents \cup Callers \cup {Operator, Maintainer}

Proofs ==
  [input : Inputs] \cup [version : Nat] \cup Decision
  \cup [request : Request, version : Nat, child : Tasks]
  \cup [result : SUBSET Asset, token : Tokens, version : Nat]

AuditEvent == [type : EventTypes, actor : Actors, proof : Proofs]

\* Every column holds a value its CHECKs and foreign keys admit, and every
\* audit event is one of those the code writes; in particular no task is
\* admitted under a grant that permissions() rejects.
TypeOK ==
  /\ now \in Nat
  /\ grant \in [Agents -> Grants \cup {NoGrant}]
  /\ row \in [Tasks -> Row \cup {NoRow}]
  /\ status \in [Tasks -> Statuses \cup {"absent"}]
  /\ version \in [Tasks -> Nat]
  /\ attempt \in [Tasks -> Nat]
  /\ lease \in [Tasks -> [token : Tokens, expires : Nat] \cup {NoLease}]
  /\ audit \in [Tasks -> Seq(AuditEvent)]
  /\ assets \in [Tasks -> SUBSET Asset]
  /\ decisions \subseteq Tasks \X Decision
  /\ leases \subseteq Lease

\* The status an event leaves its task in.
After(e) ==
  CASE e.type = "admitted" -> "queued"
    [] e.type = "claimed" -> "running"
    [] e.type \in {"lease_expired", "failed"} -> "failed"
    [] e.type \in {"delegated", "completion_accepted"} -> "completed"
    [] e.type = "result_accepted" -> "awaiting_review"
    [] e.type = "review_reconciled" ->
         IF e.proof.action = "approve" THEN "completed" ELSE "cancelled"

\* Event types that may follow an event of the given type.
Following(type) ==
  CASE type = "admitted" -> {"claimed"}
    [] type = "claimed" -> {"lease_expired", "failed", "delegated",
                            "result_accepted", "completion_accepted"}
    [] type = "result_accepted" -> {"review_reconciled"}
    [] OTHER -> {}

\* The append-only audit trail alone determines the row: each task's events
\* form one legal life, one event per version, and the last one gives the
\* status.  (Every UPDATE of tasks is paired with exactly one event.)
AuditExplainsStatus ==
  \A t \in Tasks :
    /\ status[t] = "absent" <=> audit[t] = << >>
    /\ status[t] # "absent" =>
         /\ audit[t][1].type = "admitted"
         /\ Len(audit[t]) = version[t] + 1
         /\ status[t] = After(audit[t][Len(audit[t])])
         /\ \A i \in 2..Len(audit[t]) :
              audit[t][i].type \in Following(audit[t][i - 1].type)

\* Work is never replayed behind a worker's back: whatever max_attempts says,
\* a task is started once, and one lease is ever handed out for it, so a
\* worker that outlives its lease has no rival (expire_leases "never
\* retries automatically").
StartedOnce ==
  \A t \in Tasks :
    /\ attempt[t] <= 1
    /\ \A l, m \in leases : l.task = t /\ m.task = t => l = m
    /\ (\E l \in leases : l.task = t) <=> attempt[t] = 1

\* expire_leases fences its page whole or not at all, the oldest leases first:
\* one due row on which CHECK (updated_at >= created_at) failed would hold up
\* every later fence.  No lease is due before its task's admission, however
\* the clock was set back between the admission, the claim and the expiry.
FencesAreFree ==
  \A t \in Tasks : status[t] = "running" => row[t].createdAt < lease[t].expires

\* A task that was admitted under a later clock than today's is out of reach:
\* it is not claimed, fenced, failed, handed on, answered for or decided
\* until the clock has caught up, whatever its lease says.
ClockBackFreezes ==
  [][\A t \in Admitted : now < row[t].createdAt =>
       /\ status'[t] = status[t] /\ version'[t] = version[t]
       /\ audit'[t] = audit[t] /\ assets'[t] = assets[t]]_vars

\* A task that failed, by its worker or by expiry, produced nothing: no
\* assets, no child handed off, no decision, whatever its worker sends later.
FailedLeavesNothing ==
  \A t \in Tasks : status[t] = "failed" =>
    /\ assets[t] = {}
    /\ Events(t, "delegated") = {}
    /\ \A e \in decisions : e[1] # t
    /\ \A a \in answers : a.task = t => a.op = "admit"

\* The tasks a parent's delegation admitted.
Delegated(t) == {e.proof.child : e \in Events(t, "delegated")}

\* A delegating task has exactly one child, which is linked to it and to
\* which no other task delegated; the child holds the handoff's request.
DelegationPairs ==
  \A t \in Tasks :
    /\ Cardinality(Events(t, "delegated")) <= 1
    /\ \A e \in Events(t, "delegated") :
         /\ status[t] = "completed"
         /\ e.proof.child \in Admitted
         /\ row[e.proof.child].request = e.proof.request
         /\ row[e.proof.child].request.parent = t
    /\ \A u \in Tasks : Delegated(t) \cap Delegated(u) # {} => t = u

\* Every success the broker ever reported is still true of the database,
\* and no two reports about a task contradict each other, also when the call
\* was a retry made after the lease ran out or the permission was revoked.
AnswersHold ==
  \A a \in answers :
    CASE a.op = "admit" ->
           /\ row[a.task].request = a.proof
           /\ Holder(a.key[1], a.key[2]) = {a.task}
      [] a.op = "delegate" ->
           /\ status[a.task] = "completed"
           /\ row[a.proof.child].request = a.proof.request
           /\ \A b \in answers : b.op = "delegate" /\ b.task = a.task => b = a
      [] a.op \in {"result", "completion"} ->
           /\ assets[a.task] = a.proof.result
           /\ \A b \in answers :
                b.op \in {"result", "completion"} /\ b.task = a.task => b = a
      [] a.op = "decision" ->
           /\ <<a.task, a.proof>> \in decisions
           /\ \A b \in answers : b.op = "decision" /\ b.task = a.task => b = a

\* Content reaches completed only through a human decision on bytes that were
\* accepted for that very task, and a task is decided once.
ReviewedBeforeCompleted ==
  \A t \in Tasks :
    /\ Events(t, "result_accepted") # {} /\ status[t] = "completed" =>
         \E e \in decisions : e[1] = t /\ e[2].action = "approve"
    /\ \A e, f \in decisions : e[1] = t /\ f[1] = t => e = f
    /\ \A e \in decisions : e[1] = t =>
         /\ e[2].asset \in assets[t]
         /\ status[t] = IF e[2].action = "approve" THEN "completed" ELSE "cancelled"

\* While the current grant differs from the one the task was admitted with,
\* the task's work gains nothing: no lease, no asset, no child.  Failing it
\* and mirroring a human decision stay possible.
RevocationStopsWork ==
  [][\A t \in Admitted : grant[row[t].request.agent] # row[t].snapshot =>
       /\ assets'[t] = assets[t]
       /\ {l \in leases' : l.task = t} = {l \in leases : l.task = t}
       /\ Delegated(t)' = Delegated(t)]_vars

\* The lease column never outlives its claim: work is accepted only before
\* the expiry that the claim set, and expiry fences only after it.  Stated
\* over what the audit trail records, not over the columns.
LeaseBoundsWork ==
  [][\A t \in Tasks : status[t] = "running" /\ status'[t] # "running" =>
       IF now < lease[t].expires
       THEN Events(t, "lease_expired")' = {}
       ELSE status'[t] = "failed" /\ Events(t, "lease_expired")' # {}]_vars

-----------------------------------------------------------------------------
(* The life every task has, seen from outside *)

\* What a task's work came to, as far as a caller can see it.
Product(t) ==
  [assets |-> assets[t], children |-> Delegated(t)]

Lifecycle == INSTANCE TaskLifecycle WITH
  phase <- status,
  product <- [t \in Tasks |-> Product(t)],
  NoProduct <- [assets |-> {}, children |-> {}]

\* The broker implements the transition diagram of contracts/task-broker-v1.md.
ImplementsLifecycle == Lifecycle!Spec

=============================================================================
