-------------------------- MODULE RootWriterProofs --------------------------
(* Theorems about RootWriter, for any processes, paths and requests. *)
EXTENDS RootWriter, TLAPS

Inside == {"working", "staged", "linked"}

\* Only the process in the flock is between its first read and its answer.
Exclusive == \A p \in Procs : pc[p] \in Inside => holder = p

\* Until its receipt is linked a process in the flock owns a free key, and
\* what it is about to link the receipt over has been read back.
BeforeReceipt ==
  \A p \in Procs : pc[p] \in Inside =>
    /\ at[p] <= Len(req[p].writes) + 2
    /\ AtWrite(p) => Fresh(req[p])
    /\ AtReceipt(p) /\ pc[p] = "working" => Fresh(req[p])
    /\ AtReceipt(p) /\ pc[p] = "staged" => Fresh(req[p]) /\ ReadsBack(req[p])

\* Afterwards the receipt is the process's own.
AfterReceipt ==
  \A p \in Procs : pc[p] \in Inside =>
    /\ PastReceipt(p) => pc[p] = "working"
    /\ AtReceipt(p) /\ pc[p] = "linked" => receipt[req[p].key] = req[p]
    /\ PastReceipt(p) => receipt[req[p].key] = req[p]

WriterInv ==
  TypeOK /\ ReceiptMeansFiles /\ ToldTruly /\ Exclusive /\ BeforeReceipt
  /\ AfterReceipt

\* Linking a file where none was keeps every read back set of files.
LEMMA ReadsBackGrows ==
  ASSUME NEW r \in Requests, ReadsBack(r),
         file \in [Paths -> Contents \cup {Missing}],
         NEW x \in Paths, file[x] = Missing, NEW c \in Contents,
         file' = [file EXCEPT ![x] = c]
  PROVE  ReadsBack(r)'
<1> SUFFICES ASSUME NEW i \in 1..Len(r.writes)
             PROVE  file'[r.writes[i].path] = r.writes[i].content
  BY DEF ReadsBack
<1>1. r.writes[i] \in Write
  BY WriterAssumption
<1>2. file[r.writes[i].path] = r.writes[i].content
  BY DEF ReadsBack
<1>3. r.writes[i].path # x
  BY <1>1, <1>2, WriterAssumption DEF Write
<1> QED
  BY <1>1, <1>2, <1>3 DEF Write

LEMMA ItemTyped ==
  ASSUME TypeOK, NEW p \in Procs, AtWrite(p)
  PROVE  Item(p).path \in Paths /\ Item(p).content \in Contents
<1>1. req[p] \in Requests /\ at[p] \in 1..Len(req[p].writes)
  BY WriterAssumption DEF TypeOK, AtWrite
<1>2. req[p].writes \in Seq(Write)
  BY <1>1, WriterAssumption
<1>3. Item(p) \in Write
  BY <1>1, <1>2 DEF Item
<1> QED
  BY <1>3 DEF Write

-----------------------------------------------------------------------------
(* Steps that write nothing *)

\* A step that leaves files and receipts alone keeps what they say.
LEMMA StoreFrame ==
  ASSUME ReceiptMeansFiles, ToldTruly, UNCHANGED <<file, receipt>>,
         \A r \in told' : r \in told \/ Completed(r)
  PROVE  ReceiptMeansFiles' /\ ToldTruly'
BY DEF ReceiptMeansFiles, ToldTruly, Completed, ReadsBack

\* A process that leaves takes no other process's claims with it.
LEMMA Leaves ==
  ASSUME TypeOK, Exclusive, BeforeReceipt, AfterReceipt, NEW p \in Procs,
         pc' = [pc EXCEPT ![p] = "idle"],
         UNCHANGED <<file, receipt, req, at>>,
         \A q \in Procs \ {p} : holder = q => holder' = q
  PROVE  Exclusive' /\ BeforeReceipt' /\ AfterReceipt'
<1>1. \A q \in Procs : pc'[q] \in Inside => q # p /\ pc'[q] = pc[q] /\ pc[q] \in Inside
  BY DEF TypeOK, Inside
<1> QED
  BY <1>1
     DEF Exclusive, BeforeReceipt, AfterReceipt, AtWrite, AtReceipt, PastReceipt,
         Fresh, ReadsBack

LEMMA WriterStep == WriterInv /\ [Next]_vars => WriterInv'
<1> SUFFICES ASSUME WriterInv, [Next]_vars PROVE WriterInv'
  OBVIOUS
<1> USE DEF WriterInv
<1>1. ASSUME NEW p \in Procs, NEW r \in Requests, Call(p, r) PROVE WriterInv'
  <2>1. TypeOK'
    BY <1>1 DEF Call, Goes, TypeOK, Places
  <2>2. ReceiptMeansFiles' /\ ToldTruly'
    BY <1>1, StoreFrame DEF Call
  <2>3. \A q \in Procs : pc'[q] \in Inside =>
          q # p /\ pc'[q] = pc[q] /\ req'[q] = req[q]
    BY <1>1 DEF Call, Goes, TypeOK, Inside
  <2>4. Exclusive' /\ BeforeReceipt' /\ AfterReceipt'
    BY <1>1, <2>3
       DEF Call, Exclusive, BeforeReceipt, AfterReceipt, AtWrite, AtReceipt,
           PastReceipt, Fresh, ReadsBack
  <2> QED
    BY <2>1, <2>2, <2>4
<1>2. ASSUME NEW p \in Procs, Repeat(p) PROVE WriterInv'
  <2>1. TypeOK'
    BY <1>2 DEF Repeat, Cleaned, Goes, TypeOK, Places
  <2>2. ReceiptMeansFiles' /\ ToldTruly'
    BY <1>2, StoreFrame DEF Repeat
  <2>3. Exclusive' /\ BeforeReceipt' /\ AfterReceipt'
    BY <1>2, Leaves DEF Repeat, Goes
  <2> QED
    BY <2>1, <2>2, <2>3
<1>3. ASSUME NEW p \in Procs, Refuse(p) PROVE WriterInv'
  <2>1. TypeOK'
    BY <1>3 DEF Refuse, Cleaned, Goes, TypeOK, Places
  <2>2. ReceiptMeansFiles' /\ ToldTruly'
    BY <1>3, StoreFrame DEF Refuse
  <2>3. Exclusive' /\ BeforeReceipt' /\ AfterReceipt'
    BY <1>3, Leaves DEF Refuse, Goes
  <2> QED
    BY <2>1, <2>2, <2>3
<1>4. ASSUME NEW p \in Procs, Enter(p) PROVE WriterInv'
  <2>1. TypeOK'
    BY <1>4 DEF Enter, FirstWrite, Cleaned, Goes, TypeOK, Places
  <2>2. ReceiptMeansFiles' /\ ToldTruly'
    BY <1>4, StoreFrame DEF Enter
  <2>3. \A q \in Procs : pc'[q] \in Inside => q = p
    BY <1>4, WriterAssumption
       DEF Enter, Granted, Goes, TypeOK, Exclusive, Inside
  <2>4. at'[p] = 1 /\ pc'[p] = "working" /\ holder' = p
    BY <1>4 DEF Enter, FirstWrite, Goes, TypeOK
  <2>5. Len(req[p].writes) \in Nat \ {0}
    BY WriterAssumption DEF TypeOK
  <2>6. Exclusive' /\ BeforeReceipt' /\ AfterReceipt'
    BY <1>4, <2>3, <2>4, <2>5
       DEF Enter, Exclusive, BeforeReceipt, AfterReceipt, AtWrite, AtReceipt,
           PastReceipt, Fresh
  <2> QED
    BY <2>1, <2>2, <2>6
<1>5. ASSUME NEW p \in Procs, Skip(p) PROVE WriterInv'
  <2>1. TypeOK'
    BY <1>5 DEF Skip, TypeOK
  <2>2. ReceiptMeansFiles' /\ ToldTruly'
    BY <1>5, StoreFrame DEF Skip
  <2>3. at[p] \in Nat /\ at'[p] = at[p] + 1 /\ \A q \in Procs \ {p} : at'[q] = at[q]
    BY <1>5 DEF Skip, TypeOK
  <2>4. Len(req[p].writes) \in Nat
    BY WriterAssumption DEF TypeOK
  <2>5. Fresh(req[p]) /\ AtWrite(p) /\ pc[p] = "working"
    BY <1>5 DEF Skip, BeforeReceipt, Inside
  <2>6. Exclusive' /\ BeforeReceipt' /\ AfterReceipt'
    BY <1>5, <2>3, <2>4, <2>5
       DEF Skip, Exclusive, BeforeReceipt, AfterReceipt, AtWrite, AtReceipt,
           PastReceipt, Fresh, ReadsBack
  <2> QED
    BY <2>1, <2>2, <2>6
<1>6. ASSUME NEW p \in Procs, Abort(p) PROVE WriterInv'
  <2>1. TypeOK'
    BY <1>6 DEF Abort, Goes, Unlock, TypeOK, Places
  <2>2. ReceiptMeansFiles' /\ ToldTruly'
    BY <1>6, StoreFrame DEF Abort
  <2>3. holder = p
    BY <1>6 DEF Abort, Exclusive, Inside
  <2>4. Exclusive' /\ BeforeReceipt' /\ AfterReceipt'
    BY <1>6, <2>3, Leaves DEF Abort, Goes
  <2> QED
    BY <2>1, <2>2, <2>4
<1>7. ASSUME NEW p \in Procs, Stage(p) PROVE WriterInv'
  <2>1. TypeOK'
    BY <1>7 DEF Stage, Goes, TypeOK, Places
  <2>2. ReceiptMeansFiles' /\ ToldTruly'
    BY <1>7, StoreFrame DEF Stage
  <2>3. pc'[p] = "staged" /\ \A q \in Procs \ {p} : pc'[q] = pc[q]
    BY <1>7 DEF Stage, Goes, TypeOK
  <2>4. Len(req[p].writes) \in Nat /\ at[p] \in Nat
    BY WriterAssumption DEF TypeOK
  <2>5. Fresh(req[p]) /\ pc[p] = "working" /\ ~PastReceipt(p)
        /\ (AtReceipt(p) => ReadsBack(req[p]))
    BY <1>7, <2>4
       DEF Stage, Ready, BeforeReceipt, Inside, AtWrite, AtReceipt, PastReceipt
  <2>6. Exclusive'
    BY <1>7, <2>3 DEF Stage, Exclusive, Inside
  <2>7. BeforeReceipt'
    <3>1. UNCHANGED <<file, receipt, req, at>>
      BY <1>7 DEF Stage
    <3>2. \A q \in Procs : /\ AtWrite(q)' = AtWrite(q)
                           /\ AtReceipt(q)' = AtReceipt(q)
      BY <3>1 DEF AtWrite, AtReceipt
    <3>3. \A q \in Procs : /\ Fresh(req[q])' = Fresh(req[q])
                           /\ ReadsBack(req[q])' = ReadsBack(req[q])
      BY <3>1 DEF Fresh, ReadsBack
    <3>4. pc[p] \in Inside
      BY <2>5 DEF Inside
    <3> QED
      BY <2>3, <2>5, <3>1, <3>2, <3>3, <3>4 DEF BeforeReceipt
  <2>8. AfterReceipt'
    BY <1>7, <2>3, <2>5
       DEF Stage, AfterReceipt, AtReceipt, PastReceipt, Fresh, ReadsBack
  <2> QED
    BY <2>1, <2>2, <2>6, <2>7, <2>8
<1>8. ASSUME NEW p \in Procs, LinkFile(p) PROVE WriterInv'
  <2> DEFINE x == Item(p).path
             c == Item(p).content
  <2>1. x \in Paths /\ c \in Contents /\ file[x] = Missing
        /\ file' = [file EXCEPT ![x] = c]
    BY <1>8, ItemTyped DEF LinkFile, Linkable
  <2> HIDE DEF x, c
  <2>2. TypeOK'
    BY <1>8, <2>1 DEF LinkFile, Goes, TypeOK, Places
  <2>3. \A r \in Requests : ReadsBack(r) => ReadsBack(r)'
    BY <2>1, ReadsBackGrows DEF TypeOK
  <2>4. ReceiptMeansFiles' /\ ToldTruly'
    BY <1>8, <2>3, WriterAssumption
       DEF LinkFile, ReceiptMeansFiles, ToldTruly, TypeOK
  <2>5. pc'[p] = "linked" /\ \A q \in Procs \ {p} : pc'[q] = pc[q]
    BY <1>8 DEF LinkFile, Goes, TypeOK
  <2>6. pc[p] = "staged" /\ AtWrite(p) /\ Fresh(req[p]) /\ holder = p
    BY <1>8 DEF LinkFile, BeforeReceipt, Exclusive, Inside
  <2>7. Len(req[p].writes) \in Nat /\ at[p] \in Nat
    BY WriterAssumption DEF TypeOK
  <2>8. \A q \in Procs \ {p} : pc'[q] \notin Inside
    BY <2>5, <2>6 DEF Exclusive
  <2>9. Exclusive' /\ BeforeReceipt' /\ AfterReceipt'
    BY <1>8, <2>5, <2>6, <2>7, <2>8
       DEF LinkFile, Exclusive, BeforeReceipt, AfterReceipt, AtWrite, AtReceipt,
           PastReceipt, Fresh
  <2> QED
    BY <2>2, <2>4, <2>9
<1>9. ASSUME NEW p \in Procs, LinkReceipt(p) PROVE WriterInv'
  <2> DEFINE r == req[p]
  <2>1. r \in Requests /\ r.key \in Keys
    BY WriterAssumption DEF TypeOK
  <2>2. TypeOK'
    BY <1>9, <2>1 DEF LinkReceipt, Goes, TypeOK, Places
  <2>3. pc[p] = "staged" /\ AtReceipt(p) /\ Fresh(r) /\ ReadsBack(r) /\ holder = p
    BY <1>9 DEF LinkReceipt, BeforeReceipt, Exclusive, Inside
  <2>4. receipt'[r.key] = r /\ \A k \in Keys \ {r.key} : receipt'[k] = receipt[k]
    BY <1>9, <2>1 DEF LinkReceipt, TypeOK
  <2>5. \A q \in Requests : ReadsBack(q)' = ReadsBack(q)
    BY <1>9 DEF LinkReceipt, ReadsBack
  <2>6. ReceiptMeansFiles'
    BY <2>1, <2>3, <2>4, <2>5 DEF ReceiptMeansFiles, TypeOK
  <2>7. \A q \in told : q.key # r.key
    BY <2>3, WriterAssumption DEF ToldTruly, Fresh, TypeOK
  <2>8. ToldTruly'
    <3>1. told' = told /\ told \subseteq Requests
      BY <1>9 DEF LinkReceipt, TypeOK
    <3>2. \A q \in told : q.key \in Keys
      BY <3>1, WriterAssumption
    <3> QED
      BY <2>4, <2>5, <2>7, <3>1, <3>2 DEF ToldTruly
  <2>9. pc'[p] = "linked" /\ \A q \in Procs \ {p} : pc'[q] = pc[q]
    BY <1>9 DEF LinkReceipt, Goes, TypeOK
  <2>10. Len(r.writes) \in Nat /\ at[p] \in Nat
    BY <2>1, WriterAssumption DEF TypeOK
  <2>11. \A q \in Procs \ {p} : pc'[q] \notin Inside
    BY <2>3, <2>9 DEF Exclusive
  <2>12. Exclusive' /\ BeforeReceipt' /\ AfterReceipt'
    BY <1>9, <2>3, <2>4, <2>9, <2>10, <2>11
       DEF LinkReceipt, Exclusive, BeforeReceipt, AfterReceipt, AtWrite, AtReceipt,
           PastReceipt
  <2> QED
    BY <2>2, <2>6, <2>8, <2>12
<1>10. ASSUME NEW p \in Procs, LinkExists(p) PROVE WriterInv'
  <2>1. TypeOK'
    BY <1>10 DEF LinkExists, Goes, Unlock, TypeOK, Places
  <2>2. ReceiptMeansFiles' /\ ToldTruly'
    BY <1>10, StoreFrame DEF LinkExists
  <2>3. holder = p
    BY <1>10 DEF LinkExists, Exclusive, Inside
  <2>4. Exclusive' /\ BeforeReceipt' /\ AfterReceipt'
    BY <1>10, <2>3, Leaves DEF LinkExists, Goes
  <2> QED
    BY <2>1, <2>2, <2>4
<1>11. ASSUME NEW p \in Procs, Unstage(p) PROVE WriterInv'
  <2>1. TypeOK'
    BY <1>11 DEF Unstage, Goes, TypeOK, Places
  <2>2. ReceiptMeansFiles' /\ ToldTruly'
    BY <1>11, StoreFrame DEF Unstage
  <2>3. /\ at[p] \in Nat /\ at'[p] = at[p] + 1 /\ pc'[p] = "working"
        /\ \A q \in Procs \ {p} : at'[q] = at[q] /\ pc'[q] = pc[q]
    BY <1>11 DEF Unstage, Goes, TypeOK
  <2>4. Len(req[p].writes) \in Nat
    BY WriterAssumption DEF TypeOK
  <2>5. /\ pc[p] = "linked" /\ ~PastReceipt(p)
        /\ at[p] <= Len(req[p].writes) + 2
        /\ AtWrite(p) => Fresh(req[p])
        /\ AtReceipt(p) => receipt[req[p].key] = req[p]
    BY <1>11 DEF Unstage, BeforeReceipt, AfterReceipt, Inside
  <2>6. UNCHANGED <<file, receipt, holder, req>>
    BY <1>11 DEF Unstage
  <2>7. \A q \in Procs \ {p} : pc'[q] \notin Inside
    BY <2>3, <2>5 DEF Exclusive, Inside
  <2>8. Exclusive'
    BY <2>5, <2>6, <2>7 DEF Exclusive, Inside
  <2>9. BeforeReceipt'
    BY <2>3, <2>4, <2>5, <2>6, <2>7
       DEF BeforeReceipt, AtWrite, AtReceipt, PastReceipt, Fresh
  <2>10. AfterReceipt'
    BY <2>3, <2>4, <2>5, <2>6, <2>7
       DEF AfterReceipt, AtWrite, AtReceipt, PastReceipt
  <2> QED
    BY <2>1, <2>2, <2>8, <2>9, <2>10
<1>12. ASSUME NEW p \in Procs, Finish(p) PROVE WriterInv'
  <2>1. TypeOK'
    BY <1>12 DEF Finish, Goes, Unlock, TypeOK, Places
  <2>2. receipt[req[p].key] = req[p] /\ holder = p
    BY <1>12 DEF Finish, AfterReceipt, Exclusive, Inside
  <2>3. ReadsBack(req[p])
    BY <2>2, WriterAssumption DEF ReceiptMeansFiles, TypeOK
  <2>4. ReceiptMeansFiles' /\ ToldTruly'
    BY <1>12, <2>2, <2>3, StoreFrame DEF Finish, Completed
  <2>5. Exclusive' /\ BeforeReceipt' /\ AfterReceipt'
    BY <1>12, <2>2, Leaves DEF Finish, Goes
  <2> QED
    BY <2>1, <2>4, <2>5
<1>13. ASSUME NEW p \in Procs, Killed(p) PROVE WriterInv'
  <2>1. TypeOK'
    BY <1>13 DEF Killed, Goes, Unlock, TypeOK, Places
  <2>2. ReceiptMeansFiles' /\ ToldTruly'
    BY <1>13, StoreFrame DEF Killed
  <2>3. Exclusive' /\ BeforeReceipt' /\ AfterReceipt'
    BY <1>13, Leaves DEF Killed, Goes, Unlock
  <2> QED
    BY <2>1, <2>2, <2>3
<1>14. ASSUME NEW x \in Paths, NEW c \in Contents, Appears(x, c)
       PROVE  WriterInv'
  <2>1. TypeOK'
    BY <1>14 DEF Appears, TypeOK
  <2>2. \A r \in Requests : ReadsBack(r) => ReadsBack(r)'
    BY <1>14, ReadsBackGrows DEF Appears, TypeOK
  <2>3. ReceiptMeansFiles' /\ ToldTruly'
    BY <1>14, <2>2, WriterAssumption
       DEF Appears, ReceiptMeansFiles, ToldTruly, TypeOK
  <2>4. Exclusive' /\ BeforeReceipt' /\ AfterReceipt'
    BY <1>14, <2>2
       DEF Appears, Exclusive, BeforeReceipt, AfterReceipt, AtWrite, AtReceipt,
           PastReceipt, Fresh, TypeOK
  <2> QED
    BY <2>1, <2>3, <2>4
<1>15. ASSUME UNCHANGED vars PROVE WriterInv'
  BY <1>15
     DEF vars, TypeOK, ReceiptMeansFiles, ToldTruly, Exclusive, BeforeReceipt,
         AfterReceipt, AtWrite, AtReceipt, PastReceipt, Fresh, ReadsBack
<1> QED
  BY <1>1, <1>2, <1>3, <1>4, <1>5, <1>6, <1>7, <1>8, <1>9, <1>10, <1>11, <1>12,
     <1>13, <1>14, <1>15 DEF Next, Work, Begin

LEMMA WriterAlways == Spec => []WriterInv
<1>1. Init => WriterInv
  BY WriterAssumption
     DEF Init, WriterInv, TypeOK, Places, ReceiptMeansFiles, ToldTruly, Exclusive,
         BeforeReceipt, AfterReceipt, Inside
<1> QED
  BY <1>1, WriterStep, PTL DEF Spec

\* The writer's state is well typed.
THEOREM WriterTypeCorrect == Spec => []TypeOK
BY WriterAlways, PTL DEF WriterInv

\* A receipt never exists without every file of its request.
THEOREM ReceiptsAreComplete == Spec => []ReceiptMeansFiles
BY WriterAlways, PTL DEF WriterInv

\* Whoever was told "completed" can rely on it for good.
THEOREM AnswersAreTrue == Spec => []ToldTruly
BY WriterAlways, PTL DEF WriterInv

\* What is published never changes and never goes.
THEOREM PublishedForGood == Spec => Immutable
<1> DEFINE Kept == /\ \A x \in Paths : file[x] # Missing => file'[x] = file[x]
                   /\ \A k \in Keys : receipt[k] # NoRequest => receipt'[k] = receipt[k]
<1>1. WriterInv /\ [Next]_vars => [Kept]_vars
  <2> SUFFICES ASSUME WriterInv, [Next]_vars PROVE Kept
    OBVIOUS
  <2>1. ASSUME NEW p \in Procs, LinkFile(p) PROVE Kept
    BY <2>1, ItemTyped DEF LinkFile, Linkable, WriterInv, TypeOK
  <2>2. ASSUME NEW p \in Procs, LinkReceipt(p) PROVE Kept
    <3>1. receipt[req[p].key] = NoRequest /\ file' = file
      BY <2>2 DEF LinkReceipt, WriterInv, BeforeReceipt, Inside, Fresh
    <3> QED
      BY <2>2, <3>1 DEF LinkReceipt, WriterInv, TypeOK
  <2>3. ASSUME NEW x \in Paths, NEW c \in Contents, Appears(x, c) PROVE Kept
    BY <2>3 DEF Appears, WriterInv, TypeOK
  <2>4. ASSUME UNCHANGED <<file, receipt>> PROVE Kept
    BY <2>4
  <2> QED
    BY <2>1, <2>2, <2>3, <2>4
       DEF Next, Work, Begin, Call, Repeat, Refuse, Enter, Skip, Abort, Stage,
           LinkExists, Unstage, Finish, Killed, vars
<1> QED
  BY <1>1, WriterAlways, PTL DEF Spec, Immutable

\* A reader that trusts receipts alone sees every request take effect at
\* once and whole.
THEOREM WriterImplementsAtomicStore == Spec => WritesAreAtomic
<1> DEFINE done == {receipt[k] : k \in Keys} \ {NoRequest}
<1>1. Init => done = {}
  BY DEF Init
<1>2. WriterInv /\ WriterInv' /\ [Next]_vars
        => [\E r \in Requests : Store!Commit(r)]_done
  <2> SUFFICES ASSUME WriterInv, WriterInv', [Next]_vars
               PROVE  (\E r \in Requests : Store!Commit(r)) \/ done' = done
    OBVIOUS
  <2>1. ASSUME NEW p \in Procs, LinkReceipt(p)
        PROVE  \E r \in Requests : Store!Commit(r)
    <3> DEFINE r == req[p]
    <3>1. r \in Requests /\ r.key \in Keys /\ r # NoRequest
      BY WriterAssumption DEF WriterInv, TypeOK
    <3>2. receipt[r.key] = NoRequest /\ ReadsBack(r)
      BY <2>1 DEF LinkReceipt, WriterInv, BeforeReceipt, Inside, Fresh
    <3>3. /\ receipt'[r.key] = r
          /\ \A k \in Keys \ {r.key} : receipt'[k] = receipt[k]
      BY <2>1, <3>1 DEF LinkReceipt, WriterInv, TypeOK
    <3>4. done' = done \cup {r}
      BY <3>1, <3>2, <3>3
    <3>5. ASSUME NEW q \in done PROVE q.key # r.key /\ ReadsBack(q)
      <4>1. PICK k \in Keys : receipt[k] = q /\ q # NoRequest
        OBVIOUS
      <4> QED
        BY <4>1, <3>2 DEF WriterInv, ReceiptMeansFiles
    <3>6. r \notin done
      BY <3>5
    <3>7. ASSUME NEW q \in done PROVE Store!Compatible(r, q)
      <4>1. \A i \in 1..Len(r.writes), j \in 1..Len(q.writes) :
              r.writes[i].path = q.writes[j].path
                => r.writes[i].content = q.writes[j].content
        BY <3>2, <3>5 DEF ReadsBack
      <4> QED
        BY <4>1, <3>5 DEF Store!Compatible, Store!Files
    <3> QED
      BY <3>1, <3>4, <3>6, <3>7 DEF Store!Commit
  <2>2. ASSUME UNCHANGED receipt PROVE done' = done
    BY <2>2
  <2> QED
    BY <2>1, <2>2
       DEF Next, Work, Begin, Call, Repeat, Refuse, Enter, Skip, Abort, Stage,
           LinkFile, LinkExists, Unstage, Finish, Killed, Appears, vars
<1> QED
  BY <1>1, <1>2, WriterAlways, PTL DEF Spec, WritesAreAtomic, Store!Spec

-----------------------------------------------------------------------------
(* The lock is never held for long *)

\* The steps of its own that a process in the flock has left at most: three
\* for each file and for the receipt, and its answer.
Left(p) ==
  3 * (Len(req[p].writes) + 3 - at[p])
    - (IF pc[p] = "staged" THEN 1 ELSE IF pc[p] = "linked" THEN 2 ELSE 0)

\* One of the cases of Work applies to p, whatever the files are.
HasNext(p) ==
  \/ pc[p] = "working" /\ (AtWrite(p) \/ AtReceipt(p) \/ PastReceipt(p))
  \/ pc[p] = "staged" /\ (AtWrite(p) \/ AtReceipt(p))
  \/ pc[p] = "linked"

\* The flock is taken by nobody or by a process that has something to do next
\* and not much left to do.
HolderWorks == holder # NoProc => pc[holder] \in Inside

WorkIsBounded ==
  \A p \in Procs : pc[p] \in Inside =>
    HasNext(p) /\ Left(p) \in 1..(3 * (Len(req[p].writes) + 2))

LockIsBusy == HolderWorks /\ WorkIsBounded

\* A process in the flock leaves it, comes nearer to its end, or is not touched.
EndsNear(p) ==
  pc[p] \in Inside =>
    \/ pc'[p] = "idle"
    \/ pc'[p] \in Inside /\ Left(p)' < Left(p)
    \/ pc'[p] = pc[p] /\ at'[p] = at[p] /\ req'[p] = req[p]

LEMMA HolderInside ==
  ASSUME WriterInv, [Next]_vars, HolderWorks
  PROVE  HolderWorks'
<1> DEFINE Goal == HolderWorks'
<1> USE DEF HolderWorks
<1>a. pc \in [Procs -> Places] /\ holder \in Procs \cup {NoProc} /\ NoProc \notin Procs
  BY WriterAssumption DEF WriterInv, TypeOK
<1>1. ASSUME NEW p \in Procs, NEW r, Call(p, r) PROVE Goal
  BY <1>1, <1>a DEF Call, Goes, Inside
<1>2. ASSUME NEW p \in Procs, Repeat(p) \/ Refuse(p) PROVE Goal
  BY <1>2, <1>a DEF Repeat, Refuse, Granted
<1>3. ASSUME NEW p \in Procs, Enter(p) PROVE Goal
  BY <1>3, <1>a DEF Enter, Goes, Inside
<1>4. ASSUME NEW p \in Procs, Abort(p) \/ LinkExists(p) \/ Finish(p) PROVE Goal
  BY <1>4 DEF Abort, LinkExists, Finish, Unlock
<1>5. ASSUME NEW p \in Procs, Stage(p) \/ LinkFile(p) \/ LinkReceipt(p) \/ Unstage(p)
      PROVE  Goal
  BY <1>5, <1>a DEF Stage, LinkFile, LinkReceipt, Unstage, Goes, Inside
<1>6. ASSUME NEW p \in Procs, Killed(p) PROVE Goal
  BY <1>6, <1>a DEF Killed, Unlock, Goes
<1>7. ASSUME UNCHANGED <<holder, pc>> PROVE Goal
  BY <1>7
<1> HIDE DEF Goal
<1>8. ASSUME NEW p \in Procs, Work(p) PROVE Goal
  BY <1>8, <1>4, <1>5, <1>7 DEF Work, Skip
<1>9. Goal
  BY <1>1, <1>2, <1>3, <1>6, <1>7, <1>8 DEF Next, Begin, Appears, vars
<1> QED
  BY <1>9 DEF Goal

LEMMA Sums ==
  ASSUME NEW n \in Nat, NEW a \in Nat \ {0}, NEW d \in 0..2,
         a <= n + 2, d > 0 => a <= n + 1
  PROVE  3 * (n + 3 - a) - d \in 1..(3 * (n + 2))
OBVIOUS

\* The place of a process in the flock bounds what it has left.
LEMMA HasLeft ==
  ASSUME WriterInv, NEW p \in Procs, pc[p] \in Inside
  PROVE  HasNext(p) /\ Left(p) \in 1..(3 * (Len(req[p].writes) + 2))
<1>1. Len(req[p].writes) \in Nat
  BY WriterAssumption DEF WriterInv, TypeOK
<1>2. at[p] \in Nat \ {0} /\ at[p] <= Len(req[p].writes) + 2
  BY DEF WriterInv, TypeOK, BeforeReceipt
<1>3. PastReceipt(p) => pc[p] = "working"
  BY DEF WriterInv, AfterReceipt
<1>4. AtWrite(p) \/ AtReceipt(p) \/ PastReceipt(p)
  BY <1>1, <1>2 DEF AtWrite, AtReceipt, PastReceipt
<1>5. HasNext(p)
  BY <1>3, <1>4 DEF HasNext, Inside
<1>6. PastReceipt(p) \/ at[p] <= Len(req[p].writes) + 1
  BY <1>1, <1>2 DEF PastReceipt
<1>7. Left(p) \in 1..(3 * (Len(req[p].writes) + 2))
  <2> DEFINE d == IF pc[p] = "staged" THEN 1 ELSE IF pc[p] = "linked" THEN 2 ELSE 0
  <2>1. d \in 0..2 /\ (d > 0 => at[p] <= Len(req[p].writes) + 1)
    BY <1>3, <1>6
  <2> HIDE DEF d
  <2>2. 3 * (Len(req[p].writes) + 3 - at[p]) - d \in 1..(3 * (Len(req[p].writes) + 2))
    BY <1>1, <1>2, <2>1, Sums
  <2> QED BY <2>2 DEF Left, d
<1> QED BY <1>5, <1>7

\* Own steps bring a process nearer to its end, others' do not touch it.
LEMMA ComesNear ==
  ASSUME WriterInv, [Next]_vars, NEW p \in Procs
  PROVE  EndsNear(p)
<1> SUFFICES ASSUME pc[p] \in Inside
             PROVE  \/ pc'[p] = "idle"
                    \/ pc'[p] \in Inside /\ Left(p)' < Left(p)
                    \/ pc'[p] = pc[p] /\ at'[p] = at[p] /\ req'[p] = req[p]
  BY DEF EndsNear
<1> DEFINE Goal == \/ pc'[p] = "idle"
                   \/ pc'[p] \in Inside /\ Left(p)' < Left(p)
                   \/ pc'[p] = pc[p] /\ at'[p] = at[p] /\ req'[p] = req[p]
           Same == pc'[p] = pc[p] /\ at'[p] = at[p] /\ req'[p] = req[p]
<1>a. /\ pc \in [Procs -> Places] /\ at \in [Procs -> Nat \ {0}]
      /\ req \in [Procs -> Requests] /\ Len(req[p].writes) \in Nat
  BY WriterAssumption DEF WriterInv, TypeOK
<1>b. pc[p] \in {"working", "staged", "linked"}
  BY DEF Inside
<1>1. ASSUME NEW q \in Procs, NEW r, Call(q, r) PROVE Same
  BY <1>1, <1>a, <1>b DEF Call, Goes
<1>2. ASSUME NEW q \in Procs, Begin(q) PROVE Same
  BY <1>2, <1>a, <1>b DEF Begin, Repeat, Refuse, Enter, Granted, Goes
<1>3. ASSUME NEW q \in Procs, Abort(q) \/ LinkExists(q) \/ Finish(q) \/ Killed(q)
      PROVE  Goal
  BY <1>3, <1>a DEF Abort, LinkExists, Finish, Killed, Goes
<1>4. ASSUME NEW q \in Procs, q # p, Work(q) PROVE Same
  BY <1>4, <1>a DEF Work, Skip, Abort, Stage, LinkFile, LinkReceipt, LinkExists,
                    Unstage, Finish, Goes
<1>5. ASSUME Skip(p) PROVE Goal
  <2>1. /\ pc[p] = "working" /\ pc'[p] = "working" /\ at'[p] = at[p] + 1
        /\ req'[p] = req[p]
    BY <1>5, <1>a DEF Skip
  <2> QED BY <2>1, <1>a DEF Left, Inside
<1>6. ASSUME Stage(p) PROVE Goal
  <2>1. /\ pc[p] = "working" /\ pc'[p] = "staged" /\ at'[p] = at[p]
        /\ req'[p] = req[p]
    BY <1>6, <1>a DEF Stage, Goes
  <2> QED BY <2>1, <1>a DEF Left, Inside
<1>7. ASSUME LinkFile(p) \/ LinkReceipt(p) PROVE Goal
  <2>1. /\ pc[p] = "staged" /\ pc'[p] = "linked" /\ at'[p] = at[p]
        /\ req'[p] = req[p]
    BY <1>7, <1>a DEF LinkFile, LinkReceipt, Goes
  <2> QED BY <2>1, <1>a DEF Left, Inside
<1>8. ASSUME Unstage(p) PROVE Goal
  <2>1. /\ pc[p] = "linked" /\ pc'[p] = "working" /\ at'[p] = at[p] + 1
        /\ req'[p] = req[p]
    BY <1>8, <1>a DEF Unstage, Goes
  <2> QED BY <2>1, <1>a DEF Left, Inside
<1>9. ASSUME UNCHANGED <<pc, at, req>> PROVE Same
  BY <1>9
<1>10. ASSUME Same PROVE Goal
  BY <1>10
<1> HIDE DEF Goal, Same
<1>11. ASSUME NEW q \in Procs, Work(q) PROVE Goal
  BY <1>3, <1>4, <1>5, <1>6, <1>7, <1>8, <1>10, <1>11 DEF Work
<1>12. Goal
  BY <1>1, <1>2, <1>3, <1>9, <1>10, <1>11 DEF Next, Appears, vars
<1> QED
  BY <1>12 DEF Goal

\* Whatever was killed and whatever files appeared, the flock is free or with
\* a process that can go on and has a bounded number of steps left; waiters
\* need no more than that it is granted to each in turn (root_writer.py
\* apply_request_value).
THEOREM LockStaysBusy == Spec => []LockIsBusy
<1>1. Init => HolderWorks
  BY DEF Init, HolderWorks
<1>2. WriterInv /\ HolderWorks /\ [Next]_vars => HolderWorks'
  BY HolderInside
<1>3. WriterInv => WorkIsBounded
  BY HasLeft DEF WorkIsBounded
<1> QED
  BY <1>1, <1>2, <1>3, WriterAlways, PTL DEF Spec, LockIsBusy

\* A call that got the flock ends within three steps for each of its files
\* and six more, whatever the other processes do (root_writer.py
\* apply_request_value).
THEOREM LockHoldsAreShort == Spec => [][\A p \in Procs : EndsNear(p)]_vars
<1>1. WriterInv /\ [Next]_vars => [\A p \in Procs : EndsNear(p)]_vars
  BY ComesNear
<1> QED
  BY <1>1, WriterAlways, PTL DEF Spec

=============================================================================
