----------------------------- MODULE RootWriter -----------------------------
(***************************************************************************)
(* pipeline/root_writer.py: the only writer of project state.  A request   *)
(* names several immutable files; the writer publishes them one after the  *)
(* other, each by an exclusive link of a fully written stage file, and     *)
(* links a receipt last.  Processes may be killed between any two system   *)
(* calls, callers may send any request at any time and again after any     *)
(* answer, and files may appear that the writer did not create.            *)
(*                                                                         *)
(* A request's hash is the request.  Content is opaque; path, header and   *)
(* size validation reject before anything is touched and are left out.     *)
(***************************************************************************)
EXTENDS Naturals, Sequences

CONSTANTS
  Procs,     \* processes that call apply_request_value
  NoProc,
  Paths,     \* project-relative file targets
  Contents,  \* file contents
  Missing,   \* no such file
  Keys,      \* pairs of a run id and an idempotency key
  Requests,  \* the requests callers send
  NoRequest

\* A precondition names a path with its exact content, or Missing.
Write == [path : Paths, content : Contents]
Expectation == [path : Paths, expected : Contents \cup {Missing}]

ASSUME WriterAssumption ==
  /\ NoProc \notin Procs
  /\ Missing \notin Contents
  /\ NoRequest \notin Requests
  /\ \A r \in Requests :
       /\ r.key \in Keys
       /\ r.writes \in Seq(Write)
       /\ Len(r.writes) > 0
       /\ \A i, j \in 1..Len(r.writes) :
            r.writes[i].path = r.writes[j].path => i = j
       /\ r.pre \subseteq Expectation

VARIABLES
  file,     \* what is linked at each path
  receipt,  \* the request recorded by the receipt of each key
  stages,   \* processes whose stage file lies in .writer-tx
  holder,   \* the process in the workspace flock
  pc,       \* where each process is in apply_request_value
  req,      \* the request each process applies
  at,       \* the write it is at; one past the last is the receipt
  told      \* requests some caller was told are completed

vars == <<file, receipt, stages, holder, pc, req, at, told>>

Places == {"idle", "waiting", "working", "staged", "linked"}

-----------------------------------------------------------------------------
(* What the code reads *)

Item(p) == req[p].writes[at[p]]

\* Slip: the receipt comes before the last file.
AtLastWrite(p) == at[p] = Len(req[p].writes)

AtReceipt(p) == at[p] = Len(req[p].writes) + 1
PastReceipt(p) == at[p] = Len(req[p].writes) + 2
AtWrite(p) == at[p] <= Len(req[p].writes)

\* Every listed file has exactly the listed bytes.
ReadsBack(r) ==
  \A i \in 1..Len(r.writes) : file[r.writes[i].path] = r.writes[i].content

\* Slip: the key alone identifies a completed request.
AnyCompleted(r) == receipt[r.key] # NoRequest

\* _idempotent_receipt answers the stored receipt.
Completed(r) == receipt[r.key] = r /\ ReadsBack(r)

\* _idempotent_receipt finds no receipt under the request's key.
Fresh(r) == receipt[r.key] = NoRequest

\* _check_preconditions
Preconditions(r) == \A e \in r.pre : file[e.path] = e.expected

Goes(p, place) == pc' = [pc EXCEPT ![p] = place]

\* Slip: a killed process leaves its lock taken.
KeepLock == UNCHANGED holder

\* The flock ends with the call, or with the process.
Unlock == holder' = NoProc

-----------------------------------------------------------------------------
(* One call *)

\* _cleanup_transaction_stages, run under the lock.
Cleaned == {}

FirstWrite == 1

Call(p, r) ==
  /\ pc[p] = "idle"
  /\ Goes(p, "waiting")
  /\ req' = [req EXCEPT ![p] = r]
  /\ UNCHANGED <<file, receipt, stages, holder, at, told>>

\* The lock is granted and stale stages are removed; the first reads decide.
Granted(p) == pc[p] = "waiting" /\ holder = NoProc

Repeat(p) ==
  /\ Granted(p)
  /\ Completed(req[p])
  /\ stages' = Cleaned
  /\ told' = told \cup {req[p]}
  /\ Goes(p, "idle")
  /\ UNCHANGED <<file, receipt, holder, req, at>>

Refuse(p) ==
  /\ Granted(p)
  /\ ~Completed(req[p])
  /\ ~Fresh(req[p]) \/ ~Preconditions(req[p])
  /\ stages' = Cleaned
  /\ Goes(p, "idle")
  /\ UNCHANGED <<file, receipt, holder, req, at, told>>

Enter(p) ==
  /\ Granted(p)
  /\ Fresh(req[p]) /\ Preconditions(req[p])
  /\ holder' = p
  /\ stages' = Cleaned
  /\ at' = [at EXCEPT ![p] = FirstWrite]
  /\ Goes(p, "working")
  /\ UNCHANGED <<file, receipt, req, told>>

\* An earlier attempt, or someone else, already put these bytes there.
Skip(p) ==
  /\ pc[p] = "working" /\ AtWrite(p)
  /\ file[Item(p).path] = Item(p).content
  /\ at' = [at EXCEPT ![p] = @ + 1]
  /\ UNCHANGED <<file, receipt, stages, holder, pc, req, told>>

\* The target holds other bytes, or the readback before the receipt differs.
Abort(p) ==
  /\ pc[p] = "working"
  /\ \/ AtWrite(p) /\ file[Item(p).path] \notin {Missing, Item(p).content}
     \/ AtReceipt(p) /\ ~ReadsBack(req[p])
  /\ Unlock
  /\ Goes(p, "idle")
  /\ UNCHANGED <<file, receipt, stages, req, at, told>>

\* Something is left to publish: a missing file, or the receipt once all
\* files read back.
Ready(p) ==
  \/ AtWrite(p) /\ file[Item(p).path] = Missing
  \/ AtReceipt(p) /\ ReadsBack(req[p])

Stage(p) ==
  /\ pc[p] = "working" /\ Ready(p)
  /\ stages' = stages \cup {p}
  /\ Goes(p, "staged")
  /\ UNCHANGED <<file, receipt, holder, req, at, told>>

\* Slip: the stage is renamed over whatever is there.
Replaceable(p) == TRUE

\* link, unlike rename, needs a free name.
Linkable(p) == file[Item(p).path] = Missing

LinkFile(p) ==
  /\ pc[p] = "staged" /\ AtWrite(p)
  /\ Linkable(p)
  /\ file' = [file EXCEPT ![Item(p).path] = Item(p).content]
  /\ Goes(p, "linked")
  /\ UNCHANGED <<receipt, stages, holder, req, at, told>>

LinkReceipt(p) ==
  /\ pc[p] = "staged" /\ AtReceipt(p)
  /\ receipt' = [receipt EXCEPT ![req[p].key] = req[p]]
  /\ Goes(p, "linked")
  /\ UNCHANGED <<file, stages, holder, req, at, told>>

\* FileExistsError: the target appeared since it was read.
LinkExists(p) ==
  /\ pc[p] = "staged" /\ AtWrite(p)
  /\ ~Linkable(p)
  /\ stages' = stages \ {p}
  /\ Unlock
  /\ Goes(p, "idle")
  /\ UNCHANGED <<file, receipt, req, at, told>>

Unstage(p) ==
  /\ pc[p] = "linked"
  /\ stages' = stages \ {p}
  /\ at' = [at EXCEPT ![p] = @ + 1]
  /\ Goes(p, "working")
  /\ UNCHANGED <<file, receipt, holder, req, told>>

Finish(p) ==
  /\ pc[p] = "working" /\ PastReceipt(p)
  /\ told' = told \cup {req[p]}
  /\ Unlock
  /\ Goes(p, "idle")
  /\ UNCHANGED <<file, receipt, stages, req, at>>

-----------------------------------------------------------------------------
(* The environment *)

\* The process is killed; what it linked and staged stays.
Killed(p) ==
  /\ pc[p] # "idle"
  /\ IF holder = p THEN Unlock ELSE UNCHANGED holder
  /\ Goes(p, "idle")
  /\ UNCHANGED <<file, receipt, stages, req, at, told>>

\* A file appears that no request of this writer created.
Appears(path, content) ==
  /\ file[path] = Missing
  /\ file' = [file EXCEPT ![path] = content]
  /\ UNCHANGED <<receipt, stages, holder, pc, req, at, told>>

-----------------------------------------------------------------------------

Init ==
  /\ file = [x \in Paths |-> Missing]
  /\ receipt = [k \in Keys |-> NoRequest]
  /\ stages = {}
  /\ holder = NoProc
  /\ pc = [p \in Procs |-> "idle"]
  /\ req \in [Procs -> Requests]
  /\ at = [p \in Procs |-> 1]
  /\ told = {}

Work(p) ==
  \/ Skip(p) \/ Abort(p) \/ Stage(p) \/ LinkFile(p) \/ LinkReceipt(p)
  \/ LinkExists(p) \/ Unstage(p) \/ Finish(p)

Begin(p) == Repeat(p) \/ Refuse(p) \/ Enter(p)

Next ==
  \/ \E p \in Procs :
       Work(p) \/ Begin(p) \/ Killed(p) \/ \E r \in Requests : Call(p, r)
  \/ \E path \in Paths, content \in Contents : Appears(path, content)

Spec == Init /\ [][Next]_vars

\* A process that was not killed runs on, and flock does not starve a waiter.
FairSpec ==
  Spec /\ \A p \in Procs : WF_vars(Work(p)) /\ SF_vars(Begin(p))

-----------------------------------------------------------------------------
(* What the writer promises *)

TypeOK ==
  /\ file \in [Paths -> Contents \cup {Missing}]
  /\ receipt \in [Keys -> Requests \cup {NoRequest}]
  /\ stages \subseteq Procs
  /\ holder \in Procs \cup {NoProc}
  /\ pc \in [Procs -> Places]
  /\ req \in [Procs -> Requests]
  /\ at \in [Procs -> Nat \ {0}]
  /\ told \subseteq Requests

\* "Incomplete multi-file writes remain inert without a completed receipt":
\* a receipt exists only when every file of its request has its exact bytes,
\* however many attempts, kills and foreign files went before.
ReceiptMeansFiles ==
  \A k \in Keys : receipt[k] # NoRequest =>
    receipt[k].key = k /\ ReadsBack(receipt[k])

\* A caller that was told "completed" can rely on it for good, and no two
\* callers of one idempotency key are told so of different requests.
ToldTruly ==
  \A r \in told :
    /\ receipt[r.key] = r
    /\ ReadsBack(r)
    /\ \A q \in told : q.key = r.key => q = r

\* Published files and receipts never change and never go.
Immutable ==
  [][/\ \A x \in Paths : file[x] # Missing => file'[x] = file[x]
     /\ \A k \in Keys : receipt[k] # NoRequest => receipt'[k] = receipt[k]]_vars

\* Every call ends, with an answer or with its process.
CallsEnd == \A p \in Procs : pc[p] # "idle" ~> pc[p] = "idle"

-----------------------------------------------------------------------------
(* What a reader sees that trusts receipts only *)

Store == INSTANCE AtomicStore WITH
  committed <- {receipt[k] : k \in Keys} \ {NoRequest}

\* To such a reader every request takes effect at once and completely.
WritesAreAtomic == Store!Spec

=============================================================================
