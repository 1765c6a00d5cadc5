------------------------------ MODULE Delivery ------------------------------
(***************************************************************************)
(* pipeline/postiz_connector.py, deliver: one approved release goes to one *)
(* Postiz integration.  All calls here share one intent id, so they differ *)
(* only in what the id leaves out of the intent: its requested_at stamp.   *)
(* The intent and the receipt are read without a lock and written through  *)
(* the root writer (RootWriter, for a request of one file): a file, then   *)
(* the receipt that covers it.  Callers may overlap and be killed; a       *)
(* request may reach Postiz late, or never, and its answer may be lost.    *)
(*                                                                         *)
(* Release verification, configuration and media checks reject before      *)
(* anything is read or written and are left out.                           *)
(***************************************************************************)
EXTENDS Naturals, FiniteSets

CONSTANTS
  Procs,    \* processes and threads that call deliver
  NoProc,
  Stamps,   \* requested_at, which intents of one id may differ in
  Posts,    \* the posts that requests to Postiz would create
  NoPost,
  Missing   \* no such file

Files == {"intent", "receipt"}

\* The bytes of an intent (NoPost) or of a receipt.
Bytes == [stamp : Stamps, post : Posts \cup {NoPost}]

ASSUME DeliveryAssumption ==
  /\ NoProc \notin Procs
  /\ NoPost \notin Posts
  /\ Missing \notin Bytes

VARIABLES
  file,     \* the intent and the receipt of the release
  covered,  \* files with a completed root-writer receipt
  holder,   \* the process in the workspace flock
  pc,       \* where each call is
  stamp,    \* the stamp each call was made with
  out,      \* the post each call asked Postiz for
  late,     \* calls that began when the intent was already there
  sent,     \* requests that left for Postiz, each with its call's stamp
  posts,    \* what Postiz created
  told      \* receipts that calls returned

records == <<file, covered, holder>>
calls == <<pc, stamp, out, late>>
postiz == <<sent, posts>>

vars == <<records, calls, postiz, told>>

Places == {"idle", "reading", "unreceipted", "intent", "intended", "asking",
           "receipt", "delivered", "raised"}

Goes(p, place) == pc' = [pc EXCEPT ![p] = place]

-----------------------------------------------------------------------------
(* The calls *)

Call(p, s) ==
  /\ pc[p] = "idle"
  /\ Goes(p, "reading")
  /\ stamp' = [stamp EXCEPT ![p] = s]
  /\ out' = [out EXCEPT ![p] = NoPost]
  /\ late' = IF file["intent"] = Missing THEN late \ {p} ELSE late \cup {p}
  /\ UNCHANGED records /\ UNCHANGED postiz /\ UNCHANGED told

\* _receipt_covering finds the root writer's receipt.
Trusted == "receipt" \in covered

\* existing_receipt is answered if it is covered; its stamp is not compared.
ReadReceipt(p) ==
  /\ pc[p] = "reading"
  /\ file["receipt"] # Missing
  /\ IF Trusted
     THEN /\ Goes(p, "delivered")
          /\ told' = told \cup {file["receipt"]}
     ELSE Goes(p, "raised") /\ UNCHANGED told
  /\ UNCHANGED records /\ UNCHANGED postiz /\ UNCHANGED <<stamp, out, late>>

NoReceipt(p) ==
  /\ pc[p] = "reading"
  /\ file["receipt"] = Missing
  /\ Goes(p, "unreceipted")
  /\ UNCHANGED records /\ UNCHANGED postiz /\ UNCHANGED <<stamp, out, late, told>>

\* What the call writes into a file; only the receipt names a post.
Content(p) == [stamp |-> stamp[p], post |-> out[p]]

\* An intent stops the call whatever it says: conflict, no cover or
\* "requires reconciliation".
Stops(p) == file["intent"] # Missing

ReadIntent(p) ==
  /\ pc[p] = "unreceipted"
  /\ Goes(p, IF Stops(p) THEN "raised" ELSE "intent")
  /\ UNCHANGED records /\ UNCHANGED postiz /\ UNCHANGED <<stamp, out, late, told>>

-----------------------------------------------------------------------------
(* The root writer, for the one file f of a call at place f *)

Afterwards(f) == IF f = "intent" THEN "intended" ELSE "delivered"

\* The receipt that a call ending its write of f returns.
Returned(p, f) == IF f = "receipt" THEN {Content(p)} ELSE {}

\* Slip: whoever gets the lock writes, whatever is there.
Overwrites(p, f) == f \notin covered \/ file[f] # Content(p)

\* The file is missing, or left without its cover by a killed call.
Writes(p, f) == f \notin covered /\ file[f] \in {Missing, Content(p)}

LinkRecord(p, f) ==
  /\ pc[p] = f /\ holder = NoProc
  /\ Writes(p, f)
  /\ file' = [file EXCEPT ![f] = Content(p)]
  /\ holder' = p
  /\ UNCHANGED covered /\ UNCHANGED calls /\ UNCHANGED postiz /\ UNCHANGED told

CoverRecord(p, f) ==
  /\ pc[p] = f /\ holder = p
  /\ covered' = covered \cup {f}
  /\ holder' = NoProc
  /\ Goes(p, Afterwards(f))
  /\ told' = told \cup Returned(p, f)
  /\ UNCHANGED file /\ UNCHANGED postiz /\ UNCHANGED <<stamp, out, late>>

\* The same request was completed before: answered "completed" again, which
\* deliver does not tell from its own write.
RepeatRecord(p, f) ==
  /\ pc[p] = f /\ holder = NoProc
  /\ f \in covered /\ file[f] = Content(p)
  /\ Goes(p, Afterwards(f))
  /\ told' = told \cup Returned(p, f)
  /\ UNCHANGED records /\ UNCHANGED postiz /\ UNCHANGED <<stamp, out, late>>

RefuseRecord(p, f) ==
  /\ pc[p] = f /\ holder = NoProc
  /\ file[f] \notin {Missing, Content(p)}
  /\ Goes(p, "raised")
  /\ UNCHANGED records /\ UNCHANGED postiz /\ UNCHANGED <<stamp, out, late, told>>

-----------------------------------------------------------------------------
(* The request to Postiz *)

\* Uploads went well and POST /posts leaves.
Send(p, post) ==
  /\ pc[p] = "intended"
  /\ \A r \in sent : r.post # post
  /\ sent' = sent \cup {[post |-> post, stamp |-> stamp[p]]}
  /\ out' = [out EXCEPT ![p] = post]
  /\ Goes(p, "asking")
  /\ UNCHANGED records /\ UNCHANGED <<stamp, late, posts, told>>

\* Postiz creates the post, perhaps after its caller gave up.
Create(r) ==
  /\ r \in sent
  /\ r.post \notin posts
  /\ posts' = posts \cup {r.post}
  /\ UNCHANGED records /\ UNCHANGED calls /\ UNCHANGED <<sent, told>>

\* Postiz answers only for a post it created.
Created(p) == out[p] \in posts

Answered(p) ==
  /\ pc[p] = "asking"
  /\ Created(p)
  /\ Goes(p, "receipt")
  /\ UNCHANGED records /\ UNCHANGED postiz /\ UNCHANGED <<stamp, out, late, told>>

\* An upload or the POST fails, times out or gets a malformed answer.
Unanswered(p) ==
  /\ pc[p] \in {"intended", "asking"}
  /\ Goes(p, "raised")
  /\ UNCHANGED records /\ UNCHANGED postiz /\ UNCHANGED <<stamp, out, late, told>>

-----------------------------------------------------------------------------

\* The caller has its answer.
Return(p) ==
  /\ pc[p] \in {"delivered", "raised"}
  /\ Goes(p, "idle")
  /\ UNCHANGED records /\ UNCHANGED postiz /\ UNCHANGED <<stamp, out, late, told>>

\* The process is killed; the kernel drops its lock.
Killed(p) ==
  /\ pc[p] # "idle"
  /\ holder' = IF holder = p THEN NoProc ELSE holder
  /\ Goes(p, "idle")
  /\ UNCHANGED <<file, covered, stamp, out, late, told>> /\ UNCHANGED postiz

Init ==
  /\ file = [f \in Files |-> Missing]
  /\ covered = {}
  /\ holder = NoProc
  /\ pc = [p \in Procs |-> "idle"]
  /\ stamp \in [Procs -> Stamps]
  /\ out = [p \in Procs |-> NoPost]
  /\ late = {}
  /\ sent = {}
  /\ posts = {}
  /\ told = {}

WriteRecord(p, f) ==
  LinkRecord(p, f) \/ CoverRecord(p, f) \/ RepeatRecord(p, f) \/ RefuseRecord(p, f)

\* What a call does by itself once it has begun.
Deliver(p) ==
  \/ ReadReceipt(p) \/ NoReceipt(p) \/ ReadIntent(p)
  \/ \E f \in Files : WriteRecord(p, f)
  \/ \E post \in Posts : Send(p, post)
  \/ Answered(p) \/ Unanswered(p)

Next ==
  \/ \E p \in Procs :
       Deliver(p) \/ Return(p) \/ Killed(p) \/ \E s \in Stamps : Call(p, s)
  \/ \E r \in sent : Create(r)

Spec == Init /\ [][Next]_vars

-----------------------------------------------------------------------------
(* What the connector promises *)

TypeOK ==
  /\ file \in [Files -> Bytes \cup {Missing}]
  /\ covered \subseteq Files
  /\ holder \in Procs \cup {NoProc}
  /\ pc \in [Procs -> Places]
  /\ stamp \in [Procs -> Stamps]
  /\ out \in [Procs -> Posts \cup {NoPost}]
  /\ late \subseteq Procs
  /\ sent \subseteq [post : Posts, stamp : Stamps]
  /\ posts \subseteq Posts
  /\ told \subseteq [stamp : Stamps, post : Posts]

\* "Deliver approved text once": however often the process is killed and the
\* call repeated, Postiz is asked for at most one post.
PostedOnce == Cardinality(sent) <= 1

\* Where calls overlap, what is posted twice is bounded by who overlaps and not
\* by how often anybody repeats: each caller is good for one post at most.
PostsBounded == Cardinality(sent) <= Cardinality(Procs)

\* "A repeat finds the intent and stops": a call that begins once the intent
\* is there, covered or not, never asks Postiz for anything, however calls
\* overlap.
RepeatsStop ==
  \A p \in late : pc[p] \notin {"intended", "asking", "receipt"}

\* Every request that ever left is preceded by a durable intent, and by that
\* very one: two conflicting requests never both leave.
SentAsIntended ==
  \A r \in sent :
    "intent" \in covered /\ file["intent"] = [stamp |-> r.stamp, post |-> NoPost]

\* A stored receipt, even one its writer never completed, names a post that
\* Postiz created for the recorded intent.
ReceiptNamesPost ==
  file["receipt"] # Missing =>
    /\ file["receipt"].post \in posts
    /\ file["receipt"].stamp = file["intent"].stamp

\* Whoever is told of a delivery is told of the one completed receipt.
ToldOfReceipt ==
  \A b \in told : "receipt" \in covered /\ b = file["receipt"]

=============================================================================
