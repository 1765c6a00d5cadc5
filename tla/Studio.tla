------------------------------- MODULE Studio -------------------------------
(***************************************************************************)
(* The planning records of a project: studio.write of studio.py, the       *)
(* material blobs, and the admission of a proposal (admit_studio_proposal  *)
(* of review_api.py).  Threads of the API server share one _STUDIO_LOCK;   *)
(* every other process that writes Studio records has a lock of its own.   *)
(*                                                                         *)
(* A record is written by one RootWriter request: its file is linked under *)
(* the workspace lock and then receipted.  Audience records carry nothing  *)
(* that another record depends on and are left out, and so is the older    *)
(* upload that keeps the bytes in its record.                              *)
(***************************************************************************)
EXTENDS FiniteSets, Naturals

CONSTANTS
  Server,       \* threads of the API server
  Weekly,       \* the process of the weekly cycle
  Ids,          \* request identities that the desk's client uses
  WeekIds,      \* request identities that a weekly cycle derives
  Contents,     \* bytes of a material, each of one unit of storage
  None,
  MaxMaterials, \* MAX_MATERIAL_STORAGE_BYTES, in those units
  MaxKills      \* bound: killed processes

Threads == Server \cup {Weekly}
Names == Ids \cup WeekIds

\* What a record may be about: a material's bytes, another record or nothing.
Subjects == Contents \cup Names \cup {None}
Kinds == {"material", "proposal", "slot", "cancel_slot", "suggestion"}
Requests == [id : Names, kind : Kinds, of : Subjects]
Files == [req : Requests, kind : Kinds \cup {"material_reuse"}, of : Subjects, at : Nat]

ASSUME StudioAssumption ==
  /\ Weekly \notin Server /\ Ids \cap WeekIds = {}
  /\ None \notin Server \cup {Weekly} \cup Ids \cup WeekIds \cup Contents \cup Files
  /\ MaxMaterials \in Nat /\ MaxKills \in Nat

VARIABLES
  record,   \* each identity's record file, or None
  covered,  \* records with their receipt
  blob,     \* contents whose blob is stored
  clock,    \* created_at of the next record, as far as it orders slots
  lock,     \* who holds the workspace lock
  call,     \* the studio.write that each thread is in
  task,     \* what became of a proposal that was admitted
  crowded,  \* history: two processes wrote Studio records at once
  kills

studioVars == <<record, covered, blob, clock, lock, call, task, crowded, kills>>

NoCall == [pc |-> "idle"]

Process(t) == IF t \in Server THEN Server ELSE {t}
Busy(t) == call[t] # NoCall

-----------------------------------------------------------------------------
(* What the records say *)

\* _records raises over a record that has no receipt.
Verified == \A i \in Names : record[i] # None => i \in covered

Saved == {i \in Names : record[i] # None}
OfKind(kind) == {i \in Saved : record[i].kind = kind}
Later(i, j) == record[i].at > record[j].at

Cancelled(s) == \E c \in OfKind("cancel_slot") : record[c].of = s /\ Later(c, s)

\* Slip: cancelling a slot brings back the one that it had replaced.
Standing ==
  {s \in OfKind("slot") :
     /\ \A t \in OfKind("slot") : record[t].of = record[s].of => ~Later(t, s) \/ Cancelled(t)
     /\ ~Cancelled(s)}

\* Per proposal the latest slot, unless it was cancelled.
Active ==
  {s \in OfKind("slot") :
     /\ \A t \in OfKind("slot") : record[t].of = record[s].of => ~Later(t, s)
     /\ ~Cancelled(s)}

Copies(content) == {i \in OfKind("material") : record[i].of = content}

\* What a request refers to must be there.
Refers(q) ==
  CASE q.kind = "proposal" -> q.of = None \/ q.of \in OfKind("material")
    [] q.kind = "slot" -> q.of \in OfKind("proposal")
    [] q.kind = "cancel_slot" -> q.of \in Active
    [] OTHER -> TRUE

\* What a material request is saved as: another copy only points to the first.
Payload(q) ==
  IF q.kind = "material" /\ Copies(q.of) # {}
  THEN {[kind |-> "material_reuse", of |-> i] : i \in Copies(q.of)}
  ELSE {[kind |-> q.kind, of |-> q.of]}

Fits(payload) ==
  payload.kind = "material" => Cardinality(OfKind("material")) < MaxMaterials

-----------------------------------------------------------------------------
(* studio.write *)

\* Slip: threads only keep out of each other's Root Writer commits.
CommitLockFree(t) == ~Busy(t)

\* The thread's process is not in Studio.
StudioLockFree(t) == \A u \in Process(t) : ~Busy(u)

Return(t) == call' = [call EXCEPT ![t] = NoCall]

\* The same request was saved before, and is answered so.
Known(q) == q.id \in Saved /\ record[q.id].req = q

\* A new request that what is recorded allows.
Allowed(q) == q.id \notin Saved /\ Refers(q) /\ \E y \in Payload(q) : Fits(y)

\* Slip: the record is saved before its bytes.
RecordFirst(payload) == "apply"

\* Only the bytes of a new material are stored first.
Stage(payload) == IF payload.kind = "material" THEN "blob" ELSE "apply"

\* Under the Studio lock the records are read and the new one is built from
\* them.  A request that is known, or refused, changes nothing.
Build(t, q) ==
  /\ StudioLockFree(t) /\ Verified /\ Allowed(q)
  /\ \E y \in Payload(q) :
       call' = [call EXCEPT ![t] =
         [pc |-> Stage(y), req |-> q, file |-> [req |-> q, kind |-> y.kind, of |-> y.of, at |-> clock]]]
  /\ clock' = IF q.kind \in {"slot", "cancel_slot"} THEN clock + 1 ELSE clock
  /\ crowded' = (crowded \/ \E u \in Threads \ Process(t) : Busy(u))
  /\ UNCHANGED <<record, covered, blob, lock, task, kills>>

\* _store_blob, under the workspace lock; a blob that is there is used again.
StoreBlob(t) ==
  /\ call[t].pc = "blob" /\ lock = None
  /\ blob' = blob \cup {call[t].req.of}
  /\ call' = [call EXCEPT ![t].pc = "apply"]
  /\ UNCHANGED <<record, covered, clock, lock, task, crowded, kills>>

\* Only one process uses an identity, so its file is not there yet.
Link(t) ==
  LET i == call[t].req.id IN
  /\ call[t].pc = "apply" /\ lock = None /\ record[i] = None
  /\ record' = [record EXCEPT ![i] = call[t].file]
  /\ lock' = t
  /\ call' = [call EXCEPT ![t].pc = "linked"]
  /\ UNCHANGED <<covered, blob, clock, task, crowded, kills>>

Cover(t) ==
  /\ call[t].pc = "linked"
  /\ covered' = covered \cup {call[t].req.id}
  /\ lock' = None
  /\ call' = [call EXCEPT ![t].pc = "saved"]
  /\ UNCHANGED <<record, blob, clock, task, crowded, kills>>

\* The records are read once more for the answer; a saved request fails all
\* the same when another process's record has no receipt yet.
ReadBack(t) ==
  /\ call[t].pc = "saved"
  /\ Return(t)
  /\ UNCHANGED <<record, covered, blob, clock, lock, task, crowded, kills>>

-----------------------------------------------------------------------------
(* The broker *)

\* A saved proposal is handed over, after its save or after a repeat of it;
\* the request's identity makes admission idempotent.
Admit(i) ==
  /\ i \in OfKind("proposal") \cap covered
  /\ task' = IF task[i] = None THEN [task EXCEPT ![i] = "active"] ELSE task
  /\ UNCHANGED <<record, covered, blob, clock, lock, call, crowded, kills>>

\* The route ran and its review was decided, or it failed.
RouteEnds(i) ==
  /\ task[i] = "active"
  /\ task' = [task EXCEPT ![i] = "over"]
  /\ UNCHANGED <<record, covered, blob, clock, lock, call, crowded, kills>>

\* SIGKILL of a process with all its threads.
Dies(t) ==
  /\ kills < MaxKills
  /\ \E u \in Process(t) : Busy(u)
  /\ call' = [u \in Threads |-> IF u \in Process(t) THEN NoCall ELSE call[u]]
  /\ lock' = IF lock \in Process(t) THEN None ELSE lock
  /\ kills' = kills + 1
  /\ UNCHANGED <<record, covered, blob, clock, task, crowded>>

StudioInit ==
  /\ record = [i \in Names |-> None]
  /\ covered = {} /\ blob = {} /\ clock = 0
  /\ lock = None
  /\ call = [t \in Threads |-> NoCall]
  /\ task = [i \in Names |-> None]
  /\ crowded = FALSE
  /\ kills = 0

\* One step of a call that is under way.
Saving(t) == StoreBlob(t) \/ Link(t) \/ Cover(t) \/ ReadBack(t)

\* What the desk's client may ask for.
DeskRequests ==
  [id : Ids, kind : {"material"}, of : Contents]
    \cup [id : Ids, kind : {"proposal"}, of : OfKind("material")]
    \cup [id : Ids, kind : {"slot"}, of : OfKind("proposal")]
    \cup [id : Ids, kind : {"cancel_slot"}, of : OfKind("slot")]
=============================================================================
