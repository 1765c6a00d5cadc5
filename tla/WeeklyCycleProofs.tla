------------------------- MODULE WeeklyCycleProofs -------------------------
(***************************************************************************)
(* Theorems about Studio and WeeklyCycle, for every number of desk threads,*)
(* requests, contents and kills.                                           *)
(***************************************************************************)
EXTENDS WeeklyCycle, FiniteSetTheorems, TLAPS

-----------------------------------------------------------------------------
(* The inductive invariant of Studio *)

Call == [pc : {"blob", "apply", "linked", "saved"}, req : Requests, file : Files]

Typed ==
  /\ record \in [Names -> Files \cup {None}]
  /\ covered \subseteq Saved
  /\ clock \in Nat
  /\ call \in [Threads -> Call \cup {NoCall}]
  /\ task \in [Names -> {None, "active", "over"}]

Materials == OfKind("material")

\* What a request is saved as.
Made(f) ==
  \/ f.kind = f.req.kind /\ f.of = f.req.of
  \/ /\ f.req.kind = "material" /\ f.kind = "material_reuse"
     /\ f.of \in Materials /\ record[f.of].of = f.req.of

\* What a file refers to is receipted.
Rests(f) ==
  /\ f.kind \in {"material_reuse", "slot", "cancel_slot"} => f.of \in covered
  /\ f.kind = "proposal" /\ f.of # None => f.of \in covered

\* What a call may rely on at each place.
Fit(t) ==
  LET c == call[t] IN
  /\ c.file.req = c.req /\ Made(c.file) /\ Rests(c.file)
  /\ c.file.kind = "material" /\ c.pc # "blob" => c.file.of \in blob
  /\ c.pc \in {"linked", "saved"} => record[c.req.id] = c.file
  /\ c.pc = "saved" => c.req.id \in covered

\* What holds of every record file.
Filed(i) ==
  /\ record[i].req.id = i /\ Made(record[i]) /\ Rests(record[i])
  /\ record[i].kind = "material" => record[i].of \in blob

\* What was read under the Studio lock still holds.
Sure(t) ==
  call[t].file.kind = "material" /\ call[t].pc \in {"blob", "apply"} =>
    Copies(call[t].file.of) = {} /\ Cardinality(Materials) < MaxMaterials

\* While Studio has one process, it has one call at a time.
Single ==
  /\ \A t, u \in Threads : Busy(t) /\ Busy(u) => t = u
  /\ \A i, j \in Materials : record[i].of = record[j].of => i = j
  /\ Cardinality(Materials) <= MaxMaterials
  /\ \A t \in Threads : Busy(t) => Sure(t)

StudioInv ==
  /\ Typed
  /\ \A t \in Threads : Busy(t) => Fit(t)
  /\ \A i \in Saved : Filed(i)
  /\ IsFiniteSet(Materials)
  /\ ~crowded => Single

-----------------------------------------------------------------------------
(* Records only grow *)

\* A record file never changes; receipts and blobs stay.
Grows ==
  /\ \A i \in Saved : record'[i] = record[i]
  /\ covered \subseteq covered' /\ blob \subseteq blob'

LEMMA SavedStay ==
  ASSUME Grows, NEW i \in Saved
  PROVE  i \in Saved' /\ record'[i] = record[i]
BY DEF Grows, Saved

LEMMA MaterialsStay ==
  ASSUME Grows, NEW i \in Materials
  PROVE  i \in Materials' /\ record'[i] = record[i]
BY SavedStay DEF Materials, OfKind

\* What a file says and rests on stays true.
LEMMA MadeStays ==
  ASSUME Grows, NEW f, Made(f), Rests(f)
  PROVE  Made(f)' /\ Rests(f)'
<1>1. Made(f)'
  BY MaterialsStay DEF Made
<1>2. Rests(f)'
  BY DEF Rests, Grows
<1> QED
  BY <1>1, <1>2

LEMMA FiledStays ==
  ASSUME Grows, NEW i \in Saved, Filed(i)
  PROVE  Filed(i)'
<1>1. PICK f : f = record[i]
  OBVIOUS
<1>2. record'[i] = f
  BY <1>1, SavedStay
<1>3. Made(f) /\ Rests(f)
  BY <1>1 DEF Filed
<1>4. Made(f)' /\ Rests(f)'
  BY <1>3, MadeStays
<1>5. f.req.id = i /\ (f.kind = "material" => f.of \in blob')
  BY <1>1 DEF Filed, Grows
<1> QED
  BY <1>2, <1>4, <1>5 DEF Filed

\* A call that does not move keeps what it relies on.
LEMMA FitStays ==
  ASSUME Typed, Grows, NEW t \in Threads, Busy(t), Fit(t), call'[t] = call[t]
  PROVE  Fit(t)'
<1>1. PICK c : c = call[t]
  OBVIOUS
<1>2. c \in Call
  BY <1>1 DEF Typed, Busy
<1>3. c.file.req = c.req /\ Made(c.file) /\ Rests(c.file)
  BY <1>1 DEF Fit
<1>4. Made(c.file)' /\ Rests(c.file)'
  BY <1>3, MadeStays
<1>5. c.pc \in {"linked", "saved"} => record'[c.req.id] = c.file
  <2> SUFFICES ASSUME c.pc \in {"linked", "saved"} PROVE record'[c.req.id] = c.file
    OBVIOUS
  <2>1. record[c.req.id] = c.file
    BY <1>1 DEF Fit
  <2>2. c.file \in Files /\ c.req.id \in Names
    BY <1>2 DEF Call, Requests
  <2>3. c.req.id \in Saved
    BY <2>1, <2>2, StudioAssumption DEF Saved
  <2> QED
    BY <2>1, <2>3 DEF Grows
<1>6. /\ c.file.kind = "material" /\ c.pc # "blob" => c.file.of \in blob'
      /\ c.pc = "saved" => c.req.id \in covered'
  BY <1>1 DEF Fit, Grows
<1>7. call'[t] = c
  BY <1>1
<1> QED
  BY <1>3, <1>4, <1>5, <1>6, <1>7 DEF Fit

-----------------------------------------------------------------------------
(* The steps of Studio *)

\* Steps that write nothing and at most end calls.
LEMMA QuietStep ==
  ASSUME StudioInv, UNCHANGED <<record, covered, blob, clock, crowded>>,
         task' \in [Names -> {None, "active", "over"}],
         call' \in [Threads -> Call \cup {NoCall}],
         \A u \in Threads : call'[u] = call[u] \/ call'[u] = NoCall
  PROVE  StudioInv'
<1>1. Grows
  BY DEF Grows
<1>2. Typed'
  BY DEF StudioInv, Typed, Saved
<1>3. ASSUME NEW t \in Threads, Busy(t)' PROVE Fit(t)' /\ Busy(t) /\ call'[t] = call[t]
  <2>1. call'[t] = call[t] /\ Busy(t)
    BY <1>3 DEF Busy
  <2> QED
    BY <1>1, <2>1, FitStays DEF StudioInv
<1>4. \A i \in Saved' : Filed(i)'
  BY <1>1, FiledStays DEF StudioInv, Saved
<1>5. Materials' = Materials
  BY DEF Materials, OfKind, Saved
<1>6. ~crowded' => Single'
  <2> SUFFICES ASSUME ~crowded' PROVE Single'
    OBVIOUS
  <2>1. Single
    BY DEF StudioInv
  <2>2. \A c : Copies(c)' = Copies(c)
    BY DEF Copies, OfKind, Saved
  <2>3. ASSUME NEW t \in Threads, Busy(t)' PROVE Sure(t)'
    BY <1>3, <1>5, <2>1, <2>2, <2>3 DEF Single, Sure
  <2>4. \A t, u \in Threads : Busy(t)' /\ Busy(u)' => t = u
    BY <1>3, <2>1 DEF Single
  <2> QED
    BY <1>5, <2>1, <2>3, <2>4 DEF Single
<1> QED
  BY <1>2, <1>3, <1>4, <1>5, <1>6 DEF StudioInv

\* What a request may become: a copy of a material only points to the first.
LEMMA Payloads ==
  ASSUME StudioInv, NEW q \in Requests, Refers(q), Verified, NEW y \in Payload(q), Fits(y),
         NEW f, f = [req |-> q, kind |-> y.kind, of |-> y.of, at |-> clock]
  PROVE  /\ f \in Files /\ Made(f) /\ Rests(f)
         /\ f.kind = "material" => Copies(f.of) = {} /\ Cardinality(Materials) < MaxMaterials
<1>0. \A i \in Saved : i \in covered /\ i \in Names
  BY DEF Verified, Saved
<1>1. CASE q.kind = "material" /\ Copies(q.of) # {}
  <2>1. PICK i \in Copies(q.of) : y = [kind |-> "material_reuse", of |-> i]
    BY <1>1 DEF Payload
  <2>2. i \in Materials /\ record[i].of = q.of /\ i \in Saved
    BY DEF Copies, Materials, OfKind
  <2>3. f.kind = "material_reuse" /\ f.of = i /\ f.req = q
    BY <2>1
  <2>4. f \in Files
    BY <1>0, <2>1, <2>2 DEF Files, Subjects, StudioInv, Typed
  <2> QED
    BY <1>0, <1>1, <2>2, <2>3, <2>4 DEF Made, Rests
<1>2. CASE ~(q.kind = "material" /\ Copies(q.of) # {})
  <2>1. y = [kind |-> q.kind, of |-> q.of]
    BY <1>2 DEF Payload
  <2>2. f.kind = q.kind /\ f.of = q.of /\ f.req = q
    BY <2>1
  <2>3. q.kind \in Kinds /\ q.of \in Subjects
    BY DEF Requests
  <2>4. f \in Files
    BY <2>1, <2>3 DEF Files, StudioInv, Typed
  <2>5. q.kind \in {"slot", "cancel_slot"} => q.of \in Saved
    BY DEF Refers, OfKind, Active
  <2>6. q.kind = "proposal" /\ q.of # None => q.of \in Saved
    BY DEF Refers, OfKind
  <2>7. Rests(f)
    BY <1>0, <2>2, <2>3, <2>5, <2>6 DEF Rests, Kinds
  <2>8. f.kind = "material" => Copies(f.of) = {} /\ Cardinality(Materials) < MaxMaterials
    BY <1>2, <2>1, <2>2 DEF Fits, Materials
  <2> QED
    BY <2>2, <2>4, <2>7, <2>8 DEF Made
<1> QED
  BY <1>1, <1>2

LEMMA BuildStep ==
  ASSUME StudioInv, NEW t \in Threads, NEW q \in Requests, Build(t, q)
  PROVE  StudioInv'
<1>1. PICK y \in Payload(q) :
        call' = [call EXCEPT ![t] =
          [pc |-> Stage(y), req |-> q, file |-> [req |-> q, kind |-> y.kind, of |-> y.of, at |-> clock]]]
  BY DEF Build
<1>2. PICK f : f = [req |-> q, kind |-> y.kind, of |-> y.of, at |-> clock]
  OBVIOUS
<1>3. Refers(q) /\ Verified /\ Fits(y)
  <2>1. CASE q.kind = "material" /\ Copies(q.of) # {}
    <3>1. y.kind = "material_reuse"
      BY <2>1 DEF Payload
    <3> QED
      BY <3>1 DEF Build, Allowed, Fits
  <2>2. CASE ~(q.kind = "material" /\ Copies(q.of) # {})
    <3>1. Payload(q) = {y}
      BY <2>2 DEF Payload
    <3> QED
      BY <3>1 DEF Build, Allowed
  <2> QED
    BY <2>1, <2>2
<1>4. /\ f \in Files /\ Made(f) /\ Rests(f)
      /\ f.kind = "material" => Copies(f.of) = {} /\ Cardinality(Materials) < MaxMaterials
  BY <1>2, <1>3, Payloads
<1>5. PICK s \in {"blob", "apply"} : s = Stage(y) /\ (f.kind = "material" => s = "blob")
  BY <1>2 DEF Stage
<1>6. PICK c : c = [pc |-> s, req |-> q, file |-> f]
  OBVIOUS
<1>7. c \in Call /\ c.pc = s /\ c.req = q /\ c.file = f /\ f.req = q
  BY <1>2, <1>4, <1>6 DEF Call
<1>8. call' = [call EXCEPT ![t] = c]
  BY <1>1, <1>2, <1>5, <1>6
<1>9. UNCHANGED <<record, covered, blob, lock, task>> /\ clock' \in Nat
  BY DEF Build, StudioInv, Typed
<1>10. Grows
  BY <1>9 DEF Grows
<1>11. Typed'
  BY <1>7, <1>8, <1>9 DEF StudioInv, Typed, Saved
<1>12. call'[t] = c /\ \A u \in Threads \ {t} : call'[u] = call[u]
  BY <1>8 DEF StudioInv, Typed
<1>13. Fit(t)'
  <2>1. Made(f)' /\ Rests(f)'
    BY <1>4, <1>10, MadeStays
  <2> QED
    BY <1>5, <1>7, <1>12, <2>1 DEF Fit
<1>14. \A u \in Threads : Busy(u)' => Fit(u)'
  BY <1>10, <1>12, <1>13, FitStays DEF StudioInv, Busy
<1>15. \A i \in Saved' : Filed(i)'
  BY <1>9, <1>10, FiledStays DEF StudioInv, Saved
<1>16. Materials' = Materials /\ \A x : Copies(x)' = Copies(x)
  BY <1>9 DEF Materials, Copies, OfKind, Saved
<1>17. ~crowded' => Single'
  <2> SUFFICES ASSUME ~crowded' PROVE Single'
    OBVIOUS
  <2>1. ~crowded /\ \A u \in Threads \ Process(t) : ~Busy(u)
    BY DEF Build
  <2>2. \A u \in Threads : ~Busy(u)
    BY <2>1 DEF Build, StudioLockFree
  <2>3. \A u \in Threads : Busy(u)' => u = t
    BY <1>12, <2>2 DEF Busy
  <2>4. Sure(t)'
    BY <1>4, <1>7, <1>12, <1>16 DEF Sure
  <2>5. /\ \A i, j \in Materials' : record'[i].of = record'[j].of => i = j
        /\ Cardinality(Materials') <= MaxMaterials
    BY <1>9, <1>16, <2>1 DEF StudioInv, Single
  <2>6. \A u \in Threads : Busy(u)' => Sure(u)'
    BY <2>3, <2>4
  <2>7. \A u, v \in Threads : Busy(u)' /\ Busy(v)' => u = v
    BY <2>3
  <2> QED
    BY <2>5, <2>6, <2>7 DEF Single
<1> QED
  BY <1>11, <1>14, <1>15, <1>16, <1>17 DEF StudioInv

\* A call that moves on has this shape afterwards.
LEMMA Moved ==
  ASSUME Typed, NEW t \in Threads, Busy(t),
         NEW pc \in {"apply", "linked", "saved"},
         call' = [call EXCEPT ![t].pc = pc]
  PROVE  /\ call[t] \in Call
         /\ call' \in [Threads -> Call \cup {NoCall}]
         /\ call'[t].pc = pc /\ call'[t].req = call[t].req /\ call'[t].file = call[t].file
         /\ \A u \in Threads \ {t} : call'[u] = call[u]
         /\ \A u \in Threads : Busy(u)' <=> Busy(u)
<1>1. call[t] \in Call
  BY DEF Typed, Busy
<1>2. PICK c : c = [call[t] EXCEPT !.pc = pc]
  OBVIOUS
<1>3. c \in Call /\ c.pc = pc /\ c.req = call[t].req /\ c.file = call[t].file
  BY <1>1, <1>2 DEF Call
<1>4. call' = [call EXCEPT ![t] = c]
  BY <1>2
<1>5. call'[t] = c /\ \A u \in Threads \ {t} : call'[u] = call[u]
  BY <1>4 DEF Typed
<1>6. call' \in [Threads -> Call \cup {NoCall}]
  BY <1>3, <1>4 DEF Typed
<1>7. c # NoCall
  <2>1. NoCall.pc = "idle"
    BY DEF NoCall
  <2> QED
    BY <1>3, <2>1
<1> QED
  BY <1>1, <1>3, <1>5, <1>6, <1>7 DEF Busy

LEMMA StoreBlobStep ==
  ASSUME StudioInv, NEW t \in Threads, Busy(t), StoreBlob(t)
  PROVE  StudioInv'
<1>1. /\ call[t] \in Call
      /\ call' \in [Threads -> Call \cup {NoCall}]
      /\ call'[t].pc = "apply" /\ call'[t].req = call[t].req /\ call'[t].file = call[t].file
      /\ \A u \in Threads \ {t} : call'[u] = call[u]
      /\ \A u \in Threads : Busy(u)' <=> Busy(u)
  BY Moved DEF StoreBlob, StudioInv
<1>2. /\ UNCHANGED <<record, covered, clock, task, crowded>>
      /\ blob' = blob \cup {call[t].req.of} /\ call[t].pc = "blob"
  BY DEF StoreBlob
<1>3. Grows
  BY <1>2 DEF Grows
<1>4. Typed'
  BY <1>1, <1>2 DEF StudioInv, Typed, Saved
<1>5. PICK f : f = call[t].file
  OBVIOUS
<1>6. f.req = call[t].req /\ Made(f) /\ Rests(f)
  BY <1>5 DEF StudioInv, Fit
<1>7. f.kind = "material" => f.of \in blob'
  BY <1>2, <1>6 DEF Made
<1>8. Made(f)' /\ Rests(f)'
  BY <1>3, <1>6, MadeStays
<1>9. Fit(t)'
  BY <1>1, <1>5, <1>6, <1>7, <1>8 DEF Fit
<1>10. \A u \in Threads : Busy(u)' => Fit(u)'
  BY <1>1, <1>3, <1>9, FitStays DEF StudioInv
<1>11. \A i \in Saved' : Filed(i)'
  BY <1>2, <1>3, FiledStays DEF StudioInv, Saved
<1>12. Materials' = Materials /\ \A x : Copies(x)' = Copies(x)
  BY <1>2 DEF Materials, Copies, OfKind, Saved
<1>13. ~crowded' => Single'
  <2> SUFFICES ASSUME ~crowded' PROVE Single'
    OBVIOUS
  <2>1. Single
    BY <1>2 DEF StudioInv
  <2>2. ASSUME NEW u \in Threads, Busy(u)' PROVE Sure(u)'
    <3>1. Busy(u) /\ Sure(u)
      BY <1>1, <2>1, <2>2 DEF Single
    <3>2. CASE u = t
      BY <1>1, <1>2, <1>12, <3>1, <3>2 DEF Sure
    <3>3. CASE u # t
      BY <1>1, <1>12, <3>1, <3>3 DEF Sure
    <3> QED
      BY <3>2, <3>3
  <2>3. \A u, v \in Threads : Busy(u)' /\ Busy(v)' => u = v
    BY <1>1, <2>1 DEF Single
  <2> QED
    BY <1>2, <1>12, <2>1, <2>2, <2>3 DEF Single
<1> QED
  BY <1>4, <1>10, <1>11, <1>12, <1>13 DEF StudioInv

LEMMA LinkStep ==
  ASSUME StudioInv, NEW t \in Threads, Busy(t), Link(t)
  PROVE  StudioInv'
<1>1. /\ call[t] \in Call
      /\ call' \in [Threads -> Call \cup {NoCall}]
      /\ call'[t].pc = "linked" /\ call'[t].req = call[t].req /\ call'[t].file = call[t].file
      /\ \A u \in Threads \ {t} : call'[u] = call[u]
      /\ \A u \in Threads : Busy(u)' <=> Busy(u)
  BY Moved DEF Link, StudioInv
<1>2. PICK f, i : f = call[t].file /\ i = call[t].req.id
  OBVIOUS
<1>3. /\ UNCHANGED <<covered, blob, clock, task, crowded>>
      /\ record' = [record EXCEPT ![i] = f] /\ record[i] = None /\ call[t].pc = "apply"
  BY <1>2 DEF Link
<1>4. f \in Files /\ i \in Names /\ f # None
  BY <1>1, <1>2, StudioAssumption DEF Call, Requests
<1>5. record'[i] = f /\ \A j \in Names \ {i} : record'[j] = record[j]
  BY <1>3, <1>4 DEF StudioInv, Typed
<1>6. Saved' = Saved \cup {i} /\ i \notin Saved
  BY <1>3, <1>4, <1>5 DEF Saved
<1>7. Grows
  BY <1>3, <1>5, <1>6 DEF Grows, Saved
<1>8. Typed'
  BY <1>1, <1>3, <1>4, <1>6 DEF StudioInv, Typed
<1>9. /\ f.req = call[t].req /\ Made(f) /\ Rests(f)
      /\ f.kind = "material" => f.of \in blob
  BY <1>2, <1>3 DEF StudioInv, Fit
<1>10. Made(f)' /\ Rests(f)'
  BY <1>7, <1>9, MadeStays
<1>11. Fit(t)'
  BY <1>1, <1>2, <1>3, <1>5, <1>9, <1>10 DEF Fit
<1>12. \A u \in Threads : Busy(u)' => Fit(u)'
  BY <1>1, <1>7, <1>11, FitStays DEF StudioInv
<1>13. Filed(i)'
  BY <1>2, <1>3, <1>5, <1>9, <1>10 DEF Filed
<1>14. \A j \in Saved' : Filed(j)'
  <2>1. \A j \in Saved : Filed(j)'
    BY <1>7, FiledStays DEF StudioInv
  <2> QED
    BY <1>6, <1>13, <2>1
<1>15. Materials' = Materials \cup (IF f.kind = "material" THEN {i} ELSE {}) /\ i \notin Materials
  BY <1>5, <1>6 DEF Materials, OfKind, Saved
<1>16. IsFiniteSet(Materials')
  BY <1>15, FS_AddElement DEF StudioInv
<1>17. ~crowded' => Single'
  <2> SUFFICES ASSUME ~crowded' PROVE Single'
    OBVIOUS
  <2>1. Single
    BY <1>3 DEF StudioInv
  <2>2. f.kind = "material" => Copies(f.of) = {} /\ Cardinality(Materials) < MaxMaterials
    BY <1>2, <1>3, <2>1 DEF Single, Sure
  <2>3. \A u, v \in Threads : Busy(u)' /\ Busy(v)' => u = v
    BY <1>1, <2>1 DEF Single
  <2>4. \A u \in Threads : Busy(u)' => Sure(u)'
    <3>1. \A u \in Threads : Busy(u)' => u = t
      BY <1>1, <2>1 DEF Single
    <3>2. Sure(t)'
      BY <1>1 DEF Sure
    <3> QED
      BY <3>1, <3>2
  <2>5. \A j \in Materials : j \in Names /\ j # i /\ record'[j] = record[j]
    BY <1>5, <1>15 DEF Materials, OfKind, Saved
  <2>6. CASE f.kind # "material"
    <3>1. Materials' = Materials
      BY <1>15, <2>6
    <3>2. \A j, k \in Materials' : record'[j].of = record'[k].of => j = k
      BY <2>1, <2>5, <3>1 DEF Single
    <3>3. Cardinality(Materials') <= MaxMaterials
      BY <2>1, <3>1 DEF Single
    <3> QED
      BY <2>3, <2>4, <3>2, <3>3 DEF Single
  <2>7. CASE f.kind = "material"
    <3>1. Materials' = Materials \cup {i}
      BY <1>15, <2>7
    <3>2. \A j \in Materials : record[j].of # f.of
      BY <2>2, <2>7 DEF Copies, Materials
    <3>3. \A j, k \in Materials' : record'[j].of = record'[k].of => j = k
      BY <1>5, <2>1, <2>5, <3>1, <3>2 DEF Single
    <3>4. Cardinality(Materials \cup {i}) = Cardinality(Materials) + 1
      BY <1>15, FS_AddElement DEF StudioInv
    <3>5. Cardinality(Materials) \in Nat
      BY FS_CardinalityType DEF StudioInv
    <3>6. Cardinality(Materials') <= MaxMaterials
      BY <2>2, <2>7, <3>1, <3>4, <3>5, StudioAssumption
    <3> QED
      BY <2>3, <2>4, <3>3, <3>6 DEF Single
  <2> QED
    BY <2>6, <2>7
<1> QED
  BY <1>8, <1>12, <1>14, <1>16, <1>17 DEF StudioInv

LEMMA CoverStep ==
  ASSUME StudioInv, NEW t \in Threads, Busy(t), Cover(t)
  PROVE  StudioInv'
<1>1. /\ call[t] \in Call
      /\ call' \in [Threads -> Call \cup {NoCall}]
      /\ call'[t].pc = "saved" /\ call'[t].req = call[t].req /\ call'[t].file = call[t].file
      /\ \A u \in Threads \ {t} : call'[u] = call[u]
      /\ \A u \in Threads : Busy(u)' <=> Busy(u)
  BY Moved DEF Cover, StudioInv
<1>2. PICK f, i : f = call[t].file /\ i = call[t].req.id
  OBVIOUS
<1>3. /\ UNCHANGED <<record, blob, clock, task, crowded>>
      /\ covered' = covered \cup {i} /\ call[t].pc = "linked"
  BY <1>2 DEF Cover
<1>4. /\ f \in Files /\ i \in Names /\ f # None /\ record[i] = f
      /\ f.req = call[t].req /\ Made(f) /\ Rests(f)
      /\ f.kind = "material" => f.of \in blob
  BY <1>1, <1>2, <1>3, StudioAssumption DEF Call, Requests, StudioInv, Fit
<1>5. Grows
  BY <1>3 DEF Grows
<1>6. Typed'
  BY <1>1, <1>3, <1>4 DEF StudioInv, Typed, Saved
<1>7. Made(f)' /\ Rests(f)'
  BY <1>4, <1>5, MadeStays
<1>8. Fit(t)'
  BY <1>1, <1>2, <1>3, <1>4, <1>7 DEF Fit
<1>9. \A u \in Threads : Busy(u)' => Fit(u)'
  BY <1>1, <1>5, <1>8, FitStays DEF StudioInv
<1>10. \A j \in Saved' : Filed(j)'
  BY <1>3, <1>5, FiledStays DEF StudioInv, Saved
<1>11. Materials' = Materials
  BY <1>3 DEF Materials, OfKind, Saved
<1>12. ~crowded' => Single'
  <2> SUFFICES ASSUME ~crowded' PROVE Single'
    OBVIOUS
  <2>1. Single
    BY <1>3 DEF StudioInv
  <2>2. \A u \in Threads : Busy(u)' => u = t
    BY <1>1, <2>1 DEF Single
  <2>3. Sure(t)'
    BY <1>1 DEF Sure
  <2>4. \A u \in Threads : Busy(u)' => Sure(u)'
    BY <2>2, <2>3
  <2>5. \A u, v \in Threads : Busy(u)' /\ Busy(v)' => u = v
    BY <2>2
  <2> QED
    BY <1>3, <1>11, <2>1, <2>4, <2>5 DEF Single
<1> QED
  BY <1>6, <1>9, <1>10, <1>11, <1>12 DEF StudioInv
\* Receipts only cover records that are there, so what was read stays.
LEMMA GrowsStep ==
  ASSUME StudioInv, NEW t \in Threads, Busy(t), StoreBlob(t) \/ Link(t) \/ Cover(t)
  PROVE  /\ Grows
         /\ \A i \in Saved' : i \in Saved \/ (i = call[t].req.id /\ record'[i] = call[t].file)
<1>1. CASE StoreBlob(t)
  BY <1>1 DEF StoreBlob, Grows, Saved
<1>2. CASE Link(t)
  <2>1. PICK f, i : f = call[t].file /\ i = call[t].req.id
    OBVIOUS
  <2>2. /\ UNCHANGED <<covered, blob>>
        /\ record' = [record EXCEPT ![i] = f] /\ record[i] = None
    BY <1>2, <2>1 DEF Link
  <2>3. \A j \in Names : record'[j] = IF j = i THEN f ELSE record[j]
    BY <2>2 DEF StudioInv, Typed
  <2> QED
    BY <2>1, <2>2, <2>3 DEF Grows, Saved
<1>3. CASE Cover(t)
  BY <1>3 DEF Cover, Grows, Saved
<1> QED
  BY <1>1, <1>2, <1>3

\* A save that moves on, in one statement.
LEMMA SaveStep ==
  ASSUME StudioInv, NEW t \in Threads, StoreBlob(t) \/ Link(t) \/ Cover(t)
  PROVE  /\ StudioInv' /\ Grows /\ Busy(t) /\ UNCHANGED task
         /\ call'[t].req = call[t].req
         /\ \A u \in Threads \ {t} : call'[u] = call[u]
         /\ \A u \in Threads : Busy(u)' <=> Busy(u)
         /\ \A i \in Saved' : i \in Saved \/ (i = call[t].req.id /\ record'[i] = call[t].file)
<1>1. Busy(t)
  BY DEF StoreBlob, Link, Cover, Busy, NoCall
<1>2. StudioInv'
  BY <1>1, StoreBlobStep, LinkStep, CoverStep
<1>3. \E pc \in {"apply", "linked", "saved"} : call' = [call EXCEPT ![t].pc = pc]
  BY DEF StoreBlob, Link, Cover
<1>4. /\ call'[t].req = call[t].req
      /\ \A u \in Threads \ {t} : call'[u] = call[u]
      /\ \A u \in Threads : Busy(u)' <=> Busy(u)
  BY <1>1, <1>3, Moved DEF StudioInv
<1>5. UNCHANGED task
  BY DEF StoreBlob, Link, Cover
<1> QED
  BY <1>1, <1>2, <1>4, <1>5, GrowsStep

\* What changes no file leaves every fact about files alone.
LEMMA StillStep ==
  ASSUME StudioInv, UNCHANGED <<record, covered, blob, clock, crowded>>,
         task' \in [Names -> {None, "active", "over"}],
         call' \in [Threads -> Call \cup {NoCall}],
         \A u \in Threads : call'[u] = call[u] \/ call'[u] = NoCall
  PROVE  StudioInv' /\ Grows /\ Saved' = Saved
BY QuietStep DEF Grows, Saved

-----------------------------------------------------------------------------
(* The inductive invariant of the weekly cycle *)

CycleTypes ==
  {NoCycle}
    \cup [step : {"suggest", "look"}, topic : Topics]
    \cup [step : {"material", "proposal", "done"}, topic : Topics, joined : BOOLEAN]

\* The material that the week's proposal is about.
Source == IF record[Mat].kind = "material" THEN Mat ELSE record[Mat].of

\* The week's records were asked for in this order, about one topic.
WeekFiled ==
  /\ Sugg \in Saved =>
       record[Sugg].req.kind = "suggestion" /\ record[Sugg].req.of \in Topics
  /\ Mat \in Saved =>
       /\ Sugg \in covered
       /\ record[Mat].req = [id |-> Mat, kind |-> "material", of |-> record[Sugg].of]
  /\ Prop \in Saved =>
       /\ Mat \in covered
       /\ record[Prop].req = [id |-> Prop, kind |-> "proposal", of |-> Source]

\* Only the weekly process uses the week's identities.
OwnIds ==
  /\ Busy(Weekly) => cycle.step \in Steps /\ call[Weekly].req = Asked
  /\ \A t \in Server : Busy(t) => call[t].req.id \in Ids

\* Where the cycle is, what comes before is recorded.
OnTheWay ==
  /\ cycle.step \in {"look", "material", "proposal", "done"} =>
       Sugg \in covered /\ record[Sugg].of = cycle.topic
  /\ cycle.step \in {"proposal", "done"} => Mat \in covered

StillFree == Looked /\ ~cycle.joined => InHand = {}

WeeklyInv ==
  /\ StudioInv /\ WeekFiled
  /\ cycle \in CycleTypes /\ OwnIds /\ OnTheWay /\ StillFree
-----------------------------------------------------------------------------
(* What the weekly cycle relies on stays *)

LEMMA SourceStays ==
  ASSUME Grows, Mat \in Saved
  PROVE  Source' = Source
BY SavedStay DEF Source

LEMMA WeekStays ==
  ASSUME StudioInv, Grows, WeekFiled, \A i \in {Sugg, Mat, Prop} : i \in Saved' => i \in Saved
  PROVE  WeekFiled'
<1>1. \A i \in Saved : record'[i] = record[i]
  BY DEF Grows
<1>2. covered \subseteq covered' /\ covered \subseteq Saved
  BY DEF Grows, StudioInv, Typed
<1>3. Sugg \in Saved' =>
        record'[Sugg].req.kind = "suggestion" /\ record'[Sugg].req.of \in Topics
  BY <1>1 DEF WeekFiled
<1>4. Mat \in Saved' =>
        /\ Sugg \in covered'
        /\ record'[Mat].req = [id |-> Mat, kind |-> "material", of |-> record'[Sugg].of]
  BY <1>1, <1>2 DEF WeekFiled
<1>5. Prop \in Saved' =>
        /\ Mat \in covered'
        /\ record'[Prop].req = [id |-> Prop, kind |-> "proposal", of |-> Source']
  BY <1>1, <1>2, SourceStays DEF WeekFiled
<1> QED
  BY <1>3, <1>4, <1>5 DEF WeekFiled

\* A call's request is what the cycle would still ask for.
LEMMA AskedStays ==
  ASSUME StudioInv, Grows, OnTheWay, UNCHANGED cycle, cycle.step \in Steps
  PROVE  Asked' = Asked
<1>1. CASE cycle.step \in {"suggest", "material"}
  BY <1>1 DEF Asked, Request
<1>2. CASE cycle.step = "proposal"
  <2>1. Mat \in Saved
    BY <1>2 DEF OnTheWay, StudioInv, Typed
  <2>2. Source' = Source
    BY <2>1, SourceStays
  <2>3. Asked = [id |-> Prop, kind |-> "proposal", of |-> Source]
    BY <1>2 DEF Asked, Request, Source
  <2>4. Asked' = [id |-> Prop, kind |-> "proposal", of |-> Source']
    BY <1>2 DEF Asked, Request, Source
  <2> QED
    BY <2>2, <2>3, <2>4
<1> QED
  BY <1>1, <1>2 DEF Steps

LEMMA WayStays ==
  ASSUME StudioInv, Grows, OnTheWay, UNCHANGED cycle
  PROVE  OnTheWay'
<1>1. covered \subseteq Saved /\ covered \subseteq covered'
  BY DEF StudioInv, Typed, Grows
<1>2. \A i \in covered : record'[i] = record[i]
  BY <1>1 DEF Grows
<1> QED
  BY <1>1, <1>2 DEF OnTheWay

\* A step that leaves the cycle where it is.
LEMMA CycleStays ==
  ASSUME WeeklyInv, StudioInv', WeekFiled', Grows, UNCHANGED cycle, InHand' \subseteq InHand,
         Busy(Weekly)' => Busy(Weekly) /\ call'[Weekly].req = call[Weekly].req,
         \A t \in Server : Busy(t)' => call'[t].req.id \in Ids
  PROVE  WeeklyInv'
<1>1. OnTheWay'
  BY WayStays DEF WeeklyInv
<1>2. Busy(Weekly)' => cycle.step \in Steps /\ call'[Weekly].req = Asked'
  BY AskedStays DEF WeeklyInv, OwnIds
<1>3. OwnIds'
  BY <1>2 DEF OwnIds
<1>4. StillFree'
  BY DEF WeeklyInv, StillFree, Looked
<1> QED
  BY <1>1, <1>3, <1>4 DEF WeeklyInv

\* A step after which the weekly process rests.
LEMMA CycleRests ==
  ASSUME WeeklyInv, StudioInv', WeekFiled', cycle' = NoCycle, ~Busy(Weekly)',
         \A t \in Server : Busy(t)' => call'[t].req.id \in Ids
  PROVE  WeeklyInv'
<1>1. cycle' \in CycleTypes
  BY DEF CycleTypes
<1>2. OwnIds'
  BY DEF OwnIds
<1>3. cycle'.step = "off"
  BY DEF NoCycle
<1>4. OnTheWay' /\ StillFree'
  BY <1>3 DEF OnTheWay, StillFree, Looked
<1> QED
  BY <1>1, <1>2, <1>4 DEF WeeklyInv

\* What the cycle knows at each place.
LEMMA Places ==
  ASSUME cycle \in CycleTypes
  PROVE  /\ cycle.step \in {"suggest", "look"} => cycle = [step |-> cycle.step, topic |-> cycle.topic] /\ cycle.topic \in Topics
         /\ Looked => /\ cycle = [step |-> cycle.step, topic |-> cycle.topic, joined |-> cycle.joined]
                      /\ cycle.topic \in Topics /\ cycle.joined \in BOOLEAN
<1>1. CASE cycle = NoCycle
  <2>1. cycle.step = "off"
    BY <1>1 DEF NoCycle
  <2> QED
    BY <2>1 DEF Looked
<1>2. CASE cycle \in [step : {"suggest", "look"}, topic : Topics]
  BY <1>2 DEF Looked
<1>3. CASE cycle \in [step : {"material", "proposal", "done"}, topic : Topics, joined : BOOLEAN]
  BY <1>3 DEF Looked
<1> QED
  BY <1>1, <1>2, <1>3 DEF CycleTypes

\* The record of this step is there, and the cycle goes on to the next.
LEMMA CycleProceeds ==
  ASSUME WeeklyInv, cycle.step \in Steps, Known(Asked), Asked.id \in covered, Proceeds,
         UNCHANGED <<record, covered, blob, task>>, StudioInv', WeekFiled', ~Busy(Weekly)',
         \A t \in Server : Busy(t)' => call'[t].req.id \in Ids
  PROVE  WeeklyInv'
<1>1. OwnIds'
  BY DEF OwnIds
<1>2. InHand' = InHand
  BY DEF InHand
<1>3. CASE cycle.step = "suggest"
  <2>1. cycle = [step |-> "suggest", topic |-> cycle.topic] /\ cycle.topic \in Topics
    BY <1>3, Places DEF WeeklyInv
  <2>2. cycle' = [step |-> "look", topic |-> cycle.topic]
    BY <1>3, <2>1 DEF Proceeds, Follows
  <2>3. Asked = [id |-> Sugg, kind |-> "suggestion", of |-> cycle.topic]
    BY <1>3 DEF Asked, Request
  <2>4. record[Sugg].req = Asked /\ Sugg \in Saved
    BY <2>3 DEF Known
  <2>5. Filed(Sugg)
    BY <2>4 DEF WeeklyInv, StudioInv
  <2>6. record[Sugg].of = cycle.topic
    BY <2>3, <2>4, <2>5 DEF Filed, Made
  <2>7. cycle' \in CycleTypes
    BY <2>1, <2>2 DEF CycleTypes
  <2>8. OnTheWay'
    BY <2>2, <2>3, <2>6 DEF OnTheWay
  <2>9. StillFree'
    BY <2>2 DEF StillFree, Looked
  <2> QED
    BY <1>1, <2>7, <2>8, <2>9 DEF WeeklyInv
<1>4. CASE cycle.step \in {"material", "proposal"}
  <2>1. /\ cycle = [step |-> cycle.step, topic |-> cycle.topic, joined |-> cycle.joined]
        /\ cycle.topic \in Topics /\ cycle.joined \in BOOLEAN
    BY <1>4, Places DEF WeeklyInv, Looked
  <2>2. PICK next \in {"proposal", "done"} : next = Follows(cycle.step)
    BY <1>4 DEF Follows
  <2>3. cycle' = [step |-> next, topic |-> cycle.topic, joined |-> cycle.joined]
    BY <2>1, <2>2 DEF Proceeds
  <2>4. cycle' \in CycleTypes
    BY <2>1, <2>3 DEF CycleTypes
  <2>5. Sugg \in covered /\ record[Sugg].of = cycle.topic
    BY <1>4 DEF WeeklyInv, OnTheWay
  <2>6. Mat \in covered
    <3>1. CASE cycle.step = "material"
      BY <3>1 DEF Asked, Request
    <3>2. CASE cycle.step = "proposal"
      BY <3>2 DEF WeeklyInv, OnTheWay
    <3> QED
      BY <1>4, <3>1, <3>2
  <2>7. OnTheWay'
    BY <2>3, <2>5, <2>6 DEF OnTheWay
  <2>8. StillFree'
    BY <1>2, <1>4, <2>3 DEF StillFree, Looked, WeeklyInv
  <2> QED
    BY <1>1, <2>4, <2>7, <2>8 DEF WeeklyInv
<1> QED
  BY <1>3, <1>4 DEF Steps
-----------------------------------------------------------------------------
(* The steps of the weekly cycle *)

\* studio.write starts a call and writes nothing yet.
LEMMA Started ==
  ASSUME StudioInv, NEW t \in Threads, NEW q \in Requests, Build(t, q)
  PROVE  /\ StudioInv' /\ Grows /\ UNCHANGED <<record, covered, blob, task>>
         /\ call'[t].req = q /\ ~Busy(t)
         /\ \A u \in Threads \ {t} : call'[u] = call[u]
<1>1. PICK y \in Payload(q) :
        call' = [call EXCEPT ![t] =
          [pc |-> Stage(y), req |-> q, file |-> [req |-> q, kind |-> y.kind, of |-> y.of, at |-> clock]]]
  BY DEF Build
<1>2. call'[t].req = q /\ \A u \in Threads \ {t} : call'[u] = call[u]
  BY <1>1 DEF StudioInv, Typed
<1>3. UNCHANGED <<record, covered, blob, task>>
  BY DEF Build
<1>4. t \in Process(t)
  BY DEF Process, Threads
<1>5. ~Busy(t)
  BY <1>4 DEF Build, StudioLockFree
<1> QED
  BY <1>2, <1>3, <1>5, BuildStep DEF Grows

\* The week's records that another step leaves alone.
LEMMA WeekUnwritten ==
  ASSUME WeeklyInv, Grows, UNCHANGED record
  PROVE  WeekFiled'
BY WeekStays DEF WeeklyInv, Saved

LEMMA CurateStep ==
  ASSUME WeeklyInv, Curate
  PROVE  WeeklyInv'
<1>1. /\ StudioInv' /\ Grows /\ WeekFiled' /\ UNCHANGED studioVars
      /\ cycle = NoCycle /\ Verified
  BY StillStep, WeekUnwritten DEF Curate, studioVars, WeeklyInv, StudioInv, Typed
<1>2. cycle.step = "off" /\ "off" \notin Steps
  BY <1>1 DEF NoCycle, Steps
<1>3. ~Busy(Weekly) /\ ~Busy(Weekly)'
  BY <1>1, <1>2 DEF WeeklyInv, OwnIds, Busy, studioVars
<1>4. OwnIds'
  BY <1>1, <1>3 DEF WeeklyInv, OwnIds, Busy, studioVars
<1>5. CASE Sugg \in Saved
  <2>1. cycle' = [step |-> "look", topic |-> record[Sugg].of]
    BY <1>5 DEF Curate
  <2>2. Filed(Sugg) /\ record[Sugg].req.kind = "suggestion" /\ record[Sugg].req.of \in Topics
    BY <1>5 DEF WeeklyInv, StudioInv, WeekFiled
  <2>3. record[Sugg].of \in Topics
    BY <2>2 DEF Filed, Made
  <2>4. Sugg \in covered
    BY <1>1, <1>5 DEF Verified, Saved
  <2>5. cycle' \in CycleTypes
    BY <2>1, <2>3 DEF CycleTypes
  <2>6. OnTheWay' /\ StillFree'
    BY <1>1, <2>1, <2>4 DEF OnTheWay, StillFree, Looked, studioVars
  <2> QED
    BY <1>1, <1>4, <2>5, <2>6 DEF WeeklyInv
<1>6. CASE Sugg \notin Saved
  <2>1. PICK topic \in Topics : cycle' = [step |-> "suggest", topic |-> topic]
    BY <1>6 DEF Curate
  <2>2. cycle' \in CycleTypes
    BY <2>1 DEF CycleTypes
  <2>3. OnTheWay' /\ StillFree'
    BY <2>1 DEF OnTheWay, StillFree, Looked
  <2> QED
    BY <1>1, <1>4, <2>2, <2>3 DEF WeeklyInv
<1> QED
  BY <1>5, <1>6

LEMMA LookStep ==
  ASSUME WeeklyInv, Look
  PROVE  WeeklyInv'
<1>1. /\ StudioInv' /\ Grows /\ WeekFiled' /\ UNCHANGED studioVars
      /\ cycle.step = "look" /\ ~Busy(Weekly)
  BY StillStep, WeekUnwritten DEF Look, At, studioVars, WeeklyInv, StudioInv, Typed
<1>2. ~Busy(Weekly)' /\ \A t \in Server : Busy(t)' => call'[t].req.id \in Ids
  BY <1>1 DEF WeeklyInv, OwnIds, Busy, studioVars
<1>3. CASE InHand # {}
  BY <1>1, <1>2, <1>3, CycleRests DEF Look, Waits
<1>4. CASE InHand = {}
  <2>1. cycle' = [step |-> "material", topic |-> cycle.topic, joined |-> FALSE]
    BY <1>4 DEF Look, Waits
  <2>2. cycle.topic \in Topics
    BY <1>1, Places DEF WeeklyInv
  <2>3. cycle' \in CycleTypes
    BY <2>1, <2>2 DEF CycleTypes
  <2>4. OwnIds'
    BY <1>2 DEF OwnIds
  <2>5. OnTheWay'
    BY <1>1, <2>1 DEF WeeklyInv, OnTheWay, studioVars
  <2>6. StillFree'
    BY <1>1, <1>4 DEF StillFree, InHand, studioVars
  <2> QED
    BY <1>1, <2>3, <2>4, <2>5, <2>6 DEF WeeklyInv
<1> QED
  BY <1>3, <1>4

\* What the cycle asks for is a request of its own.
LEMMA AskedIsRequest ==
  ASSUME WeeklyInv, cycle.step \in Steps
  PROVE  Asked \in Requests /\ Asked.id \in {Sugg, Mat, Prop}
<1>1. cycle.topic \in Subjects
  BY Places, WeeklyAssumption DEF WeeklyInv, Steps, Looked, Subjects
<1>2. CASE cycle.step \in {"suggest", "material"}
  BY <1>1, <1>2, WeeklyAssumption DEF Asked, Request, Requests, Names, Kinds
<1>3. CASE cycle.step = "proposal"
  <2>1. Mat \in Saved
    BY <1>3 DEF WeeklyInv, OnTheWay, StudioInv, Typed
  <2>2. record[Mat].of \in Subjects
    BY <2>1 DEF WeeklyInv, StudioInv, Typed, Saved, Files
  <2>3. Source \in Subjects
    BY <2>2, WeeklyAssumption DEF Source, Subjects, Names
  <2>4. Asked = [id |-> Prop, kind |-> "proposal", of |-> Source]
    BY <1>3 DEF Asked, Request, Source
  <2> QED
    BY <2>3, <2>4, WeeklyAssumption DEF Requests, Names, Kinds
<1> QED
  BY <1>2, <1>3 DEF Steps

LEMMA AskStep ==
  ASSUME WeeklyInv, Ask
  PROVE  WeeklyInv'
<1>1. PICK q \in Requests : q = Asked
  BY AskedIsRequest DEF Ask
<1>2. cycle.step \in Steps /\ Build(Weekly, q) /\ UNCHANGED cycle /\ Weekly \in Threads
  BY <1>1 DEF Ask, Threads
<1>3. /\ StudioInv' /\ Grows /\ UNCHANGED <<record, covered, blob, task>>
      /\ call'[Weekly].req = q
      /\ \A u \in Threads \ {Weekly} : call'[u] = call[u]
  BY <1>2, Started DEF WeeklyInv
<1>4. WeekFiled' /\ OnTheWay' /\ Asked' = Asked
  BY <1>2, <1>3, WeekUnwritten, WayStays, AskedStays DEF WeeklyInv
<1>5. OwnIds'
  BY <1>1, <1>2, <1>3, <1>4, StudioAssumption DEF WeeklyInv, OwnIds, Busy, Threads
<1>6. StillFree'
  BY <1>2, <1>3 DEF WeeklyInv, StillFree, Looked, InHand
<1> QED
  BY <1>2, <1>3, <1>4, <1>5, <1>6 DEF WeeklyInv

LEMMA TakeUpStep ==
  ASSUME WeeklyInv, TakeUp
  PROVE  WeeklyInv'
<1>1. /\ StudioInv' /\ Grows /\ WeekFiled' /\ UNCHANGED studioVars
      /\ cycle.step \in Steps /\ ~Busy(Weekly) /\ Verified /\ Known(Asked) /\ Proceeds
  BY StillStep, WeekUnwritten DEF TakeUp, studioVars, WeeklyInv, StudioInv, Typed
<1>2. ~Busy(Weekly)' /\ \A t \in Server : Busy(t)' => call'[t].req.id \in Ids
  BY <1>1 DEF WeeklyInv, OwnIds, Busy, studioVars
<1>3. Asked.id \in covered
  BY <1>1 DEF Known, Verified, Saved
<1> QED
  BY <1>1, <1>2, <1>3, CycleProceeds DEF studioVars

LEMMA GiveUpStep ==
  ASSUME WeeklyInv, GiveUp
  PROVE  WeeklyInv'
<1>1. /\ StudioInv' /\ Grows /\ WeekFiled' /\ UNCHANGED studioVars
      /\ ~Busy(Weekly) /\ cycle' = NoCycle
  BY StillStep, WeekUnwritten DEF GiveUp, studioVars, WeeklyInv, StudioInv, Typed
<1>2. ~Busy(Weekly)' /\ \A t \in Server : Busy(t)' => call'[t].req.id \in Ids
  BY <1>1 DEF WeeklyInv, OwnIds, Busy, studioVars
<1> QED
  BY <1>1, <1>2, CycleRests
\* What the weekly process links is the week's next record.
LEMMA OwnWrite ==
  ASSUME WeeklyInv, Busy(Weekly), Grows,
         \A i \in Saved' : i \in Saved \/ (i = call[Weekly].req.id /\ record'[i] = call[Weekly].file)
  PROVE  WeekFiled'
<1>1. PICK f : f = call[Weekly].file
  OBVIOUS
<1>2. cycle.step \in Steps /\ call[Weekly].req = Asked /\ f.req = Asked
  BY <1>1, StudioAssumption DEF WeeklyInv, OwnIds, StudioInv, Fit, Threads
<1>3. \A i \in Saved' : i \in Saved \/ (i = Asked.id /\ record'[i] = f)
  BY <1>1, <1>2
<1>4. covered \subseteq Saved /\ covered \subseteq covered' /\ \A i \in Saved : record'[i] = record[i]
  BY DEF WeeklyInv, StudioInv, Typed, Grows
<1>5. /\ cycle.step = "suggest" => Asked = [id |-> Sugg, kind |-> "suggestion", of |-> cycle.topic]
      /\ cycle.step = "material" => Asked = [id |-> Mat, kind |-> "material", of |-> cycle.topic]
      /\ cycle.step = "proposal" => Asked = [id |-> Prop, kind |-> "proposal", of |-> Source]
  BY DEF Asked, Request, Source
<1>6. cycle.topic \in Topics
  BY <1>2, Places DEF WeeklyInv, Steps, Looked
<1>7. ASSUME Sugg \in Saved'
      PROVE  record'[Sugg].req.kind = "suggestion" /\ record'[Sugg].req.of \in Topics
  <2>1. CASE Sugg \in Saved
    BY <1>4, <2>1 DEF WeeklyInv, WeekFiled
  <2>2. CASE Sugg \notin Saved
    <3>1. Asked.id = Sugg /\ record'[Sugg] = f
      BY <1>3, <1>7, <2>2
    <3>2. cycle.step = "suggest"
      BY <1>2, <1>5, <3>1, WeeklyAssumption DEF Steps
    <3> QED
      BY <1>2, <1>5, <1>6, <3>1, <3>2
  <2> QED
    BY <2>1, <2>2
<1>8. ASSUME Mat \in Saved'
      PROVE  /\ Sugg \in covered'
             /\ record'[Mat].req = [id |-> Mat, kind |-> "material", of |-> record'[Sugg].of]
  <2>1. CASE Mat \in Saved
    BY <1>4, <2>1 DEF WeeklyInv, WeekFiled
  <2>2. CASE Mat \notin Saved
    <3>1. Asked.id = Mat /\ record'[Mat] = f
      BY <1>3, <1>8, <2>2
    <3>2. cycle.step = "material"
      BY <1>2, <1>5, <3>1, WeeklyAssumption DEF Steps
    <3>3. Sugg \in covered /\ record'[Sugg].of = cycle.topic
      BY <1>4, <3>2 DEF WeeklyInv, OnTheWay
    <3> QED
      BY <1>2, <1>4, <1>5, <3>1, <3>2, <3>3
  <2> QED
    BY <2>1, <2>2
<1>9. ASSUME Prop \in Saved'
      PROVE  /\ Mat \in covered'
             /\ record'[Prop].req = [id |-> Prop, kind |-> "proposal", of |-> Source']
  <2>1. CASE Prop \in Saved
    BY <1>4, <2>1, SourceStays DEF WeeklyInv, WeekFiled
  <2>2. CASE Prop \notin Saved
    <3>1. Asked.id = Prop /\ record'[Prop] = f
      BY <1>3, <1>9, <2>2
    <3>2. cycle.step = "proposal"
      BY <1>2, <1>5, <3>1, WeeklyAssumption DEF Steps
    <3>3. Mat \in covered
      BY <3>2 DEF WeeklyInv, OnTheWay
    <3>4. Source' = Source
      BY <1>4, <3>3, SourceStays
    <3> QED
      BY <1>2, <1>4, <1>5, <3>1, <3>2, <3>3, <3>4
  <2> QED
    BY <2>1, <2>2
<1> QED
  BY <1>7, <1>8, <1>9 DEF WeekFiled

\* A call that comes back wrote everything before.
LEMMA Returned ==
  ASSUME StudioInv, NEW t \in Threads, ReadBack(t)
  PROVE  /\ StudioInv' /\ Grows /\ UNCHANGED <<record, covered, blob, task>>
         /\ ~Busy(t)' /\ \A u \in Threads \ {t} : call'[u] = call[u]
         /\ Known(call[t].req) /\ call[t].req.id \in covered
<1>1. /\ UNCHANGED <<record, covered, blob, clock, task, crowded>>
      /\ call' = [call EXCEPT ![t] = NoCall] /\ call[t].pc = "saved"
  BY DEF ReadBack, Return
<1>2. Busy(t)
  BY <1>1 DEF Busy, NoCall
<1>3. /\ call' \in [Threads -> Call \cup {NoCall}] /\ call'[t] = NoCall
      /\ \A u \in Threads \ {t} : call'[u] = call[u]
  BY <1>1 DEF StudioInv, Typed
<1>4. StudioInv' /\ Grows
  BY <1>1, <1>3, StillStep DEF StudioInv, Typed
<1>5. PICK c : c = call[t]
  OBVIOUS
<1>6. c \in Call /\ c.file.req = c.req /\ record[c.req.id] = c.file /\ c.req.id \in covered
  BY <1>1, <1>2, <1>5 DEF StudioInv, Typed, Fit, Busy
<1>7. c.req.id \in Saved
  BY <1>6 DEF StudioInv, Typed
<1>8. Known(c.req)
  BY <1>6, <1>7 DEF Known
<1> QED
  BY <1>1, <1>3, <1>4, <1>5, <1>6, <1>8 DEF Busy

LEMMA WeeklySavesStep ==
  ASSUME WeeklyInv, WeeklySaves
  PROVE  WeeklyInv'
<1>0. Weekly \in Threads /\ Weekly \notin Server /\ Server \subseteq Threads
  BY StudioAssumption DEF Threads
<1>1. CASE (StoreBlob(Weekly) \/ Link(Weekly) \/ Cover(Weekly)) /\ UNCHANGED cycle
  <2>1. /\ StudioInv' /\ Grows /\ Busy(Weekly) /\ UNCHANGED task
        /\ call'[Weekly].req = call[Weekly].req
        /\ \A u \in Threads \ {Weekly} : call'[u] = call[u]
        /\ \A i \in Saved' : i \in Saved \/ (i = call[Weekly].req.id /\ record'[i] = call[Weekly].file)
    BY <1>0, <1>1, SaveStep DEF WeeklyInv
  <2>2. WeekFiled'
    BY <2>1, OwnWrite
  <2>3. InHand' = InHand /\ \A t \in Server : Busy(t)' => call'[t].req.id \in Ids
    BY <1>0, <2>1 DEF InHand, WeeklyInv, OwnIds, Busy
  <2> QED
    BY <1>1, <2>1, <2>2, <2>3, CycleStays
<1>2. CASE ReadBack(Weekly) /\ IF Verified THEN Proceeds ELSE cycle' = NoCycle
  <2>1. /\ StudioInv' /\ Grows /\ UNCHANGED <<record, covered, blob, task>>
        /\ ~Busy(Weekly)' /\ \A u \in Threads \ {Weekly} : call'[u] = call[u]
        /\ Known(call[Weekly].req) /\ call[Weekly].req.id \in covered
    BY <1>0, <1>2, Returned DEF WeeklyInv
  <2>2. Busy(Weekly)
    BY <1>2 DEF ReadBack, Busy, NoCall
  <2>3. cycle.step \in Steps /\ Known(Asked) /\ Asked.id \in covered
    BY <2>1, <2>2 DEF WeeklyInv, OwnIds
  <2>4. WeekFiled' /\ \A t \in Server : Busy(t)' => call'[t].req.id \in Ids
    BY <1>0, <2>1, WeekUnwritten DEF WeeklyInv, OwnIds, Busy
  <2>5. CASE Verified
    BY <1>2, <2>1, <2>3, <2>4, <2>5, CycleProceeds
  <2>6. CASE ~Verified
    BY <1>2, <2>1, <2>4, <2>6, CycleRests
  <2> QED
    BY <2>5, <2>6
<1> QED
  BY <1>1, <1>2 DEF WeeklySaves

\* Handing a proposal to the broker writes no record.
LEMMA Admitted ==
  ASSUME WeeklyInv, NEW i \in Names, Admit(i)
  PROVE  /\ StudioInv' /\ Grows /\ WeekFiled'
         /\ UNCHANGED <<record, covered, blob, call>>
<1>1. UNCHANGED <<record, covered, blob, clock, lock, call, crowded, kills>>
  BY DEF Admit
<1>2. task' \in [Names -> {None, "active", "over"}]
  BY DEF Admit, WeeklyInv, StudioInv, Typed
<1>3. StudioInv' /\ Grows
  BY <1>1, <1>2, StillStep DEF WeeklyInv, StudioInv, Typed
<1> QED
  BY <1>1, <1>3, WeekUnwritten

LEMMA WeeklyAdmitsStep ==
  ASSUME WeeklyInv, WeeklyAdmits
  PROVE  WeeklyInv'
<1>1. /\ StudioInv' /\ Grows /\ WeekFiled' /\ UNCHANGED call
      /\ cycle' = NoCycle /\ ~Busy(Weekly)
  BY Admitted, WeeklyAssumption DEF WeeklyAdmits, At, Names
<1>2. ~Busy(Weekly)' /\ \A t \in Server : Busy(t)' => call'[t].req.id \in Ids
  BY <1>1 DEF WeeklyInv, OwnIds, Busy
<1> QED
  BY <1>1, <1>2, CycleRests
-----------------------------------------------------------------------------
(* The steps of the desk, the broker and the faults *)

LEMMA DeskAsksStep ==
  ASSUME WeeklyInv, NEW t \in Server, NEW q \in DeskRequests, DeskAsks(t, q)
  PROVE  WeeklyInv'
<1>1. q \in Requests /\ q.id \in Ids
  BY DEF DeskRequests, Requests, OfKind, Saved, Names, Kinds, Subjects
<1>2. t \in Threads /\ Server \subseteq Threads /\ Weekly \in Threads /\ t # Weekly
  BY StudioAssumption DEF Threads
<1>3. /\ StudioInv' /\ Grows /\ UNCHANGED <<record, covered, blob, task>>
      /\ call'[t].req = q
      /\ \A u \in Threads \ {t} : call'[u] = call[u]
  BY <1>1, <1>2, Started DEF DeskAsks, WeeklyInv
<1>4. \A u \in Server : Busy(u)' => call'[u].req.id \in Ids
  BY <1>1, <1>2, <1>3 DEF WeeklyInv, OwnIds, Busy
<1>5. Busy(Weekly)' => Busy(Weekly) /\ call'[Weekly].req = call[Weekly].req
  BY <1>2, <1>3 DEF Busy
<1>6. InHand' = InHand
  BY <1>3 DEF InHand
<1> QED
  BY <1>3, <1>4, <1>5, <1>6, WeekUnwritten, CycleStays DEF DeskAsks

LEMMA DeskSavesStep ==
  ASSUME WeeklyInv, NEW t \in Server, DeskSaves(t)
  PROVE  WeeklyInv'
<1>1. t \in Threads /\ Server \subseteq Threads /\ Weekly \in Threads /\ t # Weekly
  BY StudioAssumption DEF Threads
<1>2. CASE StoreBlob(t) \/ Link(t) \/ Cover(t)
  <2>1. /\ StudioInv' /\ Grows /\ Busy(t) /\ UNCHANGED task
        /\ call'[t].req = call[t].req
        /\ \A u \in Threads \ {t} : call'[u] = call[u]
        /\ \A i \in Saved' : i \in Saved \/ (i = call[t].req.id /\ record'[i] = call[t].file)
    BY <1>1, <1>2, SaveStep DEF WeeklyInv
  <2>2. call[t].req.id \in Ids /\ call[t].req.id \notin {Sugg, Mat, Prop}
    BY <2>1, StudioAssumption, WeeklyAssumption DEF WeeklyInv, OwnIds
  <2>3. WeekFiled'
    BY <2>1, <2>2, WeekStays DEF WeeklyInv
  <2>4. \A u \in Server : Busy(u)' => call'[u].req.id \in Ids
    BY <1>1, <2>1, <2>2 DEF WeeklyInv, OwnIds, Busy
  <2>5. Busy(Weekly)' => Busy(Weekly) /\ call'[Weekly].req = call[Weekly].req
    BY <1>1, <2>1 DEF Busy
  <2>6. InHand' = InHand
    BY <2>1 DEF InHand
  <2> QED
    BY <2>1, <2>3, <2>4, <2>5, <2>6, CycleStays DEF DeskSaves
<1>3. CASE ReadBack(t)
  <2>1. /\ StudioInv' /\ Grows /\ UNCHANGED <<record, covered, blob, task>>
        /\ ~Busy(t)' /\ \A u \in Threads \ {t} : call'[u] = call[u]
    BY <1>1, <1>3, Returned DEF WeeklyInv
  <2>2. \A u \in Server : Busy(u)' => call'[u].req.id \in Ids
    BY <1>1, <2>1 DEF WeeklyInv, OwnIds, Busy
  <2>3. Busy(Weekly)' => Busy(Weekly) /\ call'[Weekly].req = call[Weekly].req
    BY <1>1, <2>1 DEF Busy
  <2>4. InHand' = InHand
    BY <2>1 DEF InHand
  <2> QED
    BY <2>1, <2>2, <2>3, <2>4, WeekUnwritten, CycleStays DEF DeskSaves
<1> QED
  BY <1>2, <1>3 DEF DeskSaves, Saving

LEMMA DeskAdmitsStep ==
  ASSUME WeeklyInv, NEW i \in Ids, DeskAdmits(i)
  PROVE  WeeklyInv'
<1>1. /\ StudioInv' /\ Grows /\ WeekFiled'
      /\ UNCHANGED <<record, covered, blob, call>>
  BY Admitted DEF DeskAdmits, Names
<1>2. CASE Looked
  <2>1. /\ cycle = [step |-> cycle.step, topic |-> cycle.topic, joined |-> cycle.joined]
        /\ cycle.topic \in Topics
    BY <1>2, Places DEF WeeklyInv
  <2>2. cycle' = [step |-> cycle.step, topic |-> cycle.topic, joined |-> TRUE]
    BY <1>2, <2>1 DEF DeskAdmits
  <2>3. cycle' \in CycleTypes
    BY <1>2, <2>1, <2>2 DEF CycleTypes, Looked
  <2>4. OnTheWay'
    BY <1>1, <2>2 DEF WeeklyInv, OnTheWay
  <2>5. StillFree'
    BY <2>2 DEF StillFree
  <2>6. Busy(Weekly) => Asked' = Asked
    BY <1>1, <2>1, <2>2 DEF Asked, Request
  <2>7. OwnIds'
    BY <1>1, <2>2, <2>6 DEF WeeklyInv, OwnIds, Busy
  <2> QED
    BY <1>1, <2>3, <2>4, <2>5, <2>7 DEF WeeklyInv
<1>3. CASE ~Looked
  <2>1. cycle' = cycle
    BY <1>3 DEF DeskAdmits
  <2>2. OnTheWay' /\ (cycle.step \in Steps => Asked' = Asked)
    BY <1>1, <2>1, WayStays, AskedStays DEF WeeklyInv
  <2>3. OwnIds'
    BY <1>1, <2>1, <2>2 DEF WeeklyInv, OwnIds, Busy
  <2>4. StillFree'
    BY <1>3, <2>1 DEF StillFree, Looked
  <2> QED
    BY <1>1, <2>1, <2>2, <2>3, <2>4 DEF WeeklyInv
<1> QED
  BY <1>2, <1>3

LEMMA EndedStep ==
  ASSUME WeeklyInv, NEW i \in Names, Ended(i)
  PROVE  WeeklyInv'
<1>1. /\ UNCHANGED <<record, covered, blob, clock, lock, call, crowded, kills, cycle>>
      /\ task' = [task EXCEPT ![i] = "over"]
  BY DEF Ended, RouteEnds
<1>2. task' \in [Names -> {None, "active", "over"}] /\ InHand' \subseteq InHand
  BY <1>1 DEF WeeklyInv, StudioInv, Typed, InHand
<1>3. StudioInv' /\ Grows
  BY <1>1, <1>2, StillStep DEF WeeklyInv, StudioInv, Typed
<1>4. \A u \in Server : Busy(u)' => call'[u].req.id \in Ids
  BY <1>1 DEF WeeklyInv, OwnIds, Busy
<1> QED
  BY <1>1, <1>2, <1>3, <1>4, WeekUnwritten, CycleStays DEF Busy

LEMMA KilledStep ==
  ASSUME WeeklyInv, NEW t \in Threads, Killed(t)
  PROVE  WeeklyInv'
<1>0. Weekly \in Threads /\ Weekly \notin Server /\ Server \subseteq Threads
  BY StudioAssumption DEF Threads
<1>1. /\ UNCHANGED <<record, covered, blob, clock, task, crowded>>
      /\ call' = [u \in Threads |-> IF u \in Process(t) THEN NoCall ELSE call[u]]
  BY DEF Killed, Dies
<1>2. /\ \A u \in Threads : call'[u] = call[u] \/ call'[u] = NoCall
      /\ call' \in [Threads -> Call \cup {NoCall}]
  BY <1>1 DEF WeeklyInv, StudioInv, Typed
<1>3. StudioInv' /\ Grows /\ WeekFiled'
  BY <1>1, <1>2, StillStep, WeekUnwritten DEF WeeklyInv, StudioInv, Typed
<1>4. \A u \in Server : Busy(u)' => call'[u].req.id \in Ids
  BY <1>0, <1>2 DEF WeeklyInv, OwnIds, Busy
<1>5. CASE t = Weekly
  <2>1. ~Busy(Weekly)' /\ cycle' = NoCycle
    BY <1>0, <1>1, <1>5 DEF Busy, Process, Killed
  <2> QED
    BY <1>3, <1>4, <2>1, CycleRests
<1>6. CASE t # Weekly
  <2>1. cycle' = cycle /\ InHand' = InHand
    BY <1>1, <1>6 DEF Killed, InHand
  <2>2. Busy(Weekly)' => Busy(Weekly) /\ call'[Weekly].req = call[Weekly].req
    BY <1>0, <1>2 DEF Busy
  <2> QED
    BY <1>3, <1>4, <2>1, <2>2, CycleStays
<1> QED
  BY <1>5, <1>6

-----------------------------------------------------------------------------
(* The theorems *)

LEMMA WeeklyStarts == Init => WeeklyInv
<1> SUFFICES ASSUME Init PROVE WeeklyInv
  OBVIOUS
<1>1. /\ Saved = {} /\ Materials = {}
      /\ \A t \in Threads : ~Busy(t)
  BY StudioAssumption DEF Init, StudioInit, Saved, Materials, OfKind, Busy
<1>2. Typed
  BY <1>1 DEF Init, StudioInit, Typed
<1>3. IsFiniteSet(Materials) /\ Cardinality(Materials) = 0
  BY <1>1, FS_EmptySet
<1>4. Single
  BY <1>1, <1>3, StudioAssumption DEF Single
<1>5. StudioInv
  BY <1>1, <1>2, <1>3, <1>4 DEF StudioInv
<1>6. Weekly \in Threads /\ Server \subseteq Threads
  BY DEF Threads
<1>7. cycle = NoCycle /\ cycle.step = "off"
  BY DEF Init, NoCycle
<1>8. WeekFiled /\ cycle \in CycleTypes /\ OwnIds /\ OnTheWay /\ StillFree
  BY <1>1, <1>6, <1>7 DEF WeekFiled, CycleTypes, OwnIds, OnTheWay, StillFree, Looked
<1> QED
  BY <1>5, <1>8 DEF WeeklyInv

LEMMA WeeklyGoesOn == WeeklyInv /\ [Next]_vars => WeeklyInv'
<1> SUFFICES ASSUME WeeklyInv, [Next]_vars PROVE WeeklyInv'
  OBVIOUS
<1>1. CASE Curate
  BY <1>1, CurateStep
<1>2. CASE Look
  BY <1>2, LookStep
<1>3. CASE Ask
  BY <1>3, AskStep
<1>4. CASE TakeUp
  BY <1>4, TakeUpStep
<1>5. CASE GiveUp
  BY <1>5, GiveUpStep
<1>6. CASE WeeklySaves
  BY <1>6, WeeklySavesStep
<1>7. CASE WeeklyAdmits
  BY <1>7, WeeklyAdmitsStep
<1>8. CASE \E t \in Server : DeskSaves(t) \/ \E q \in DeskRequests : DeskAsks(t, q)
  BY <1>8, DeskSavesStep, DeskAsksStep
<1>9. CASE \E i \in Ids : DeskAdmits(i)
  BY <1>9, DeskAdmitsStep
<1>10. CASE \E i \in Names : Ended(i)
  BY <1>10, EndedStep
<1>11. CASE \E t \in Threads : Killed(t)
  BY <1>11, KilledStep
<1>12. CASE UNCHANGED vars
  <2>1. StudioInv' /\ Grows /\ WeekFiled' /\ UNCHANGED <<task, call, cycle>>
    BY <1>12, StillStep, WeekUnwritten DEF vars, WeeklyInv, StudioInv, Typed
  <2>2. InHand' = InHand /\ \A u \in Server : Busy(u)' => call'[u].req.id \in Ids
    BY <2>1 DEF WeeklyInv, OwnIds, Busy, InHand
  <2> QED
    BY <2>1, <2>2, CycleStays DEF Busy
<1> QED
  BY <1>1, <1>2, <1>3, <1>4, <1>5, <1>6, <1>7, <1>8, <1>9, <1>10, <1>11, <1>12 DEF Next

\* Everything below follows from these facts: what each call relies on, what
\* each record says, and where the weekly cycle is.
THEOREM WeeklyInvariant == Spec => []WeeklyInv
BY WeeklyStarts, WeeklyGoesOn, PTL DEF Spec
\* Record files, receipts and stored bytes never change or go away.
LEMMA WeeklyGrows == WeeklyInv /\ [Next]_vars => Grows
<1> SUFFICES ASSUME WeeklyInv, [Next]_vars PROVE Grows
  OBVIOUS
<1>1. ASSUME NEW t \in Threads, Saving(t) PROVE Grows
  BY <1>1, SaveStep, Returned DEF Saving, WeeklyInv
<1>2. ASSUME NEW t \in Threads, NEW q, Build(t, q) PROVE Grows
  BY <1>2 DEF Build, Grows
<1>3. CASE Curate \/ Look \/ TakeUp \/ GiveUp
  BY <1>3 DEF Curate, Look, TakeUp, GiveUp, studioVars, Grows
<1>4. CASE Ask
  BY <1>2, <1>4 DEF Ask, Threads
<1>5. CASE WeeklySaves
  BY <1>1, <1>5 DEF WeeklySaves, Saving, Threads
<1>6. CASE WeeklyAdmits
  BY <1>6 DEF WeeklyAdmits, Admit, Grows
<1>7. CASE \E t \in Server : DeskSaves(t) \/ \E q \in DeskRequests : DeskAsks(t, q)
  BY <1>1, <1>2, <1>7 DEF DeskSaves, DeskAsks, Threads
<1>8. CASE \E i \in Ids : DeskAdmits(i)
  BY <1>8 DEF DeskAdmits, Admit, Grows
<1>9. CASE \E i \in Names : Ended(i)
  BY <1>9 DEF Ended, RouteEnds, Grows
<1>10. CASE \E t \in Threads : Killed(t)
  BY <1>10 DEF Killed, Dies, Grows
<1>11. CASE UNCHANGED vars
  BY <1>11 DEF vars, Grows
<1> QED
  BY <1>3, <1>4, <1>5, <1>6, <1>7, <1>8, <1>9, <1>10, <1>11 DEF Next

\* Every record, call, clock and task keeps its type: a receipt is only of a
\* record that is there.
THEOREM StudioTyped == Spec => []Typed
<1>1. WeeklyInv => Typed
  BY DEF WeeklyInv, StudioInv
<1> QED
  BY <1>1, WeeklyInvariant, PTL

\* While one process at a time saves Studio records, the same bytes are
\* recorded once and the material limit holds (studio.py _write).
THEOREM TwinsNever == Spec => []NoTwins
<1>1. WeeklyInv => NoTwins
  <2> SUFFICES ASSUME WeeklyInv, ~crowded PROVE
        /\ \A c \in Contents : Cardinality(Copies(c)) <= 1
        /\ Cardinality(OfKind("material")) <= MaxMaterials
    BY DEF NoTwins
  <2>1. Single
    BY DEF WeeklyInv, StudioInv
  <2>2. ASSUME NEW c \in Contents PROVE Cardinality(Copies(c)) <= 1
    <3>1. \A i, j \in Copies(c) : i = j
      BY <2>1 DEF Single, Copies, Materials
    <3>2. CASE Copies(c) = {}
      BY <3>2, FS_EmptySet
    <3>3. CASE Copies(c) # {}
      <4>1. PICK i : Copies(c) = {i}
        BY <3>1, <3>3
      <4> QED
        BY <4>1, FS_Singleton
    <3> QED
      BY <3>2, <3>3
  <2> QED
    BY <2>1, <2>2 DEF Single, Materials
<1> QED
  BY <1>1, WeeklyInvariant, PTL

\* A record never points to what is not there, wherever a process is killed
\* between the blob, the link and the receipt (studio.py _write, _store_blob).
THEOREM DanglesNever == Spec => []NothingDangles
<1>1. WeeklyInv => NothingDangles
  BY DEF WeeklyInv, StudioInv, NothingDangles, Filed, Rests, OfKind
<1> QED
  BY <1>1, WeeklyInvariant, PTL

\* Starting the week again never mixes two topics (weekly_cycle.py run).
THEOREM TopicStays == Spec => []TopicHolds
<1>1. WeeklyInv => TopicHolds
  <2> SUFFICES ASSUME WeeklyInv, NEW i \in {Mat, Prop} \cap Saved
               PROVE  LET m == IF i = Prop THEN record[i].of ELSE i
                          f == IF record[m].kind = "material_reuse"
                               THEN record[record[m].of] ELSE record[m]
                      IN Sugg \in covered /\ f.of = record[Sugg].of
    BY DEF TopicHolds
  <2>1. covered \subseteq Saved
    BY DEF WeeklyInv, StudioInv, Typed
  <2>2. Mat \in Saved
    BY <2>1 DEF WeeklyInv, WeekFiled
  <2>3. Sugg \in covered /\ record[Mat].req = [id |-> Mat, kind |-> "material", of |-> record[Sugg].of]
    BY <2>2 DEF WeeklyInv, WeekFiled
  <2>4. Made(record[Mat])
    BY <2>2 DEF WeeklyInv, StudioInv, Filed
  <2>5. \/ record[Mat].kind = "material" /\ record[Mat].of = record[Sugg].of
        \/ /\ record[Mat].kind = "material_reuse"
           /\ record[Mat].of \in Materials /\ record[record[Mat].of].of = record[Sugg].of
    BY <2>3, <2>4 DEF Made
  <2>6. CASE i = Mat
    BY <2>3, <2>5, <2>6, WeeklyAssumption
  <2>7. CASE i = Prop
    <3>1. record[Prop].req = [id |-> Prop, kind |-> "proposal", of |-> Source] /\ Made(record[Prop])
      BY <2>7 DEF WeeklyInv, WeekFiled, StudioInv, Filed
    <3>2. record[Prop].of = Source
      BY <3>1 DEF Made
    <3>3. CASE record[Mat].kind = "material"
      BY <2>3, <2>5, <2>7, <3>2, <3>3 DEF Source
    <3>4. CASE record[Mat].kind # "material"
      <4>1. record[record[Mat].of].kind = "material"
        BY <2>5, <3>4 DEF Materials, OfKind
      <4> QED
        BY <2>3, <2>5, <2>7, <3>2, <3>4, <4>1 DEF Source
    <3> QED
      BY <3>3, <3>4
  <2> QED
    BY <2>6, <2>7
<1> QED
  BY <1>1, WeeklyInvariant, PTL

\* A slot that was cancelled or replaced is never planned again, in whatever
\* order later records arrive (studio.py _active_slots).
THEOREM SlotsNeverReturn == Spec => SlotsStayDown
<1>1. WeeklyInv /\ [Next]_vars => [\A s \in OfKind("slot") \ Active : s \notin Active']_vars
  <2> SUFFICES ASSUME WeeklyInv, [Next]_vars, NEW s \in OfKind("slot") \ Active
               PROVE  s \notin Active'
    OBVIOUS
  <2>1. Grows
    BY WeeklyGrows
  <2>2. s \in Saved
    BY DEF OfKind
  <2>3. record'[s] = record[s]
    BY <2>1, <2>2, SavedStay
  <2>4. PICK r \in Saved :
          /\ record[r].of = (IF record[r].kind = "slot" THEN record[s].of ELSE s)
          /\ record[r].kind \in {"slot", "cancel_slot"} /\ Later(r, s)
    BY <2>2 DEF Active, Cancelled, OfKind
  <2>5. r \in Saved' /\ record'[r] = record[r]
    BY <2>1, SavedStay
  <2>6. CASE record[r].kind = "slot"
    BY <2>3, <2>4, <2>5, <2>6 DEF Active, OfKind, Later
  <2>7. CASE record[r].kind = "cancel_slot"
    BY <2>3, <2>4, <2>5, <2>7 DEF Active, Cancelled, OfKind, Later
  <2> QED
    BY <2>4, <2>6, <2>7
<1> QED
  BY <1>1, WeeklyInvariant, PTL DEF Spec, SlotsStayDown

\* The cycle starts content only while nothing else is in hand, unless the desk
\* admitted a proposal since it looked (weekly_cycle.py _promote_if_idle).
THEOREM WeeklyStandsBack == Spec => WeeklyWaits
<1>1. WeeklyInv /\ [Next]_vars => [WeeklyAdmits => InHand \subseteq {Prop} \/ cycle.joined]_vars
  BY DEF WeeklyInv, StillFree, Looked, WeeklyAdmits, At
<1> QED
  BY <1>1, WeeklyInvariant, PTL DEF Spec, WeeklyWaits
=============================================================================
