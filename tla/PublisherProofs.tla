--------------------------- MODULE PublisherProofs --------------------------
(***************************************************************************)
(* First the connector alone: what holds of Delivery for any number of     *)
(* callers, stamps and posts, and that a caller without rivals posts at    *)
(* most once.  Then the publisher over it: a completed task stands for an  *)
(* existing post, and the broker starting it once is what keeps the        *)
(* connector from posting twice.                                           *)
(***************************************************************************)
EXTENDS Publisher, FiniteSetTheorems, TLAPS

\* A covered file is there, a receipt comes after a covered intent, and an
\* intent names no post.
FilesInv ==
  /\ \A f \in covered : file[f] # Missing
  /\ file["receipt"] # Missing => "intent" \in covered
  /\ file["intent"] # Missing => file["intent"].post = NoPost

\* The lock is held between the link of a file and of its cover, over the
\* file that the holder's call wants.
LockInv ==
  holder # NoProc =>
    /\ pc[holder] \in Files
    /\ file[pc[holder]] = Content(holder)

\* What a call that passed the intent knows: the intent is its own, and what
\* it will write as its receipt is a post that exists.
CallInv ==
  \A p \in Procs :
    /\ pc[p] \in {"reading", "unreceipted", "intent", "intended"} => out[p] = NoPost
    /\ pc[p] \in {"intended", "asking", "receipt"} =>
         /\ "intent" \in covered
         /\ file["intent"] = [stamp |-> stamp[p], post |-> NoPost]
    /\ pc[p] \in {"asking", "receipt"} => out[p] \in Posts
    /\ pc[p] = "receipt" => out[p] \in posts

\* A call that began after the intent never gets past reading it.
LateInv ==
  \A p \in late :
    /\ file["intent"] # Missing
    /\ pc[p] \notin {"intent", "intended", "asking", "receipt"}

IInv ==
  /\ TypeOK
  /\ FilesInv
  /\ LockInv
  /\ CallInv
  /\ LateInv
  /\ SentAsIntended
  /\ ReceiptNamesPost
  /\ ToldOfReceipt

USE DEF Files, Places, Bytes

\* The initial state: nothing is written and nobody calls.
LEMMA InitIInv == Init => IInv
  BY DEF Init, IInv, TypeOK, FilesInv, LockInv, CallInv, LateInv,
     SentAsIntended, ReceiptNamesPost, ToldOfReceipt

\* A new call knows nothing yet and holds nothing.
LEMMA CallKeeps == ASSUME IInv, NEW p \in Procs, NEW s \in Stamps, Call(p, s) PROVE IInv'
<1> USE DEF IInv, TypeOK, Call, Goes, records, calls, postiz
<1>1. TypeOK'
  BY DeliveryAssumption DEF TypeOK
<1>2. FilesInv'
  BY DeliveryAssumption DEF FilesInv
<1>3. LockInv'
  BY DeliveryAssumption DEF LockInv, Content
<1>4. CallInv'
  BY DeliveryAssumption DEF CallInv
<1>5. LateInv'
  BY DeliveryAssumption DEF LateInv
<1>6. SentAsIntended'
  BY DeliveryAssumption DEF SentAsIntended
<1>7. ReceiptNamesPost'
  BY DeliveryAssumption DEF ReceiptNamesPost
<1>8. ToldOfReceipt'
  BY DeliveryAssumption DEF ToldOfReceipt
<1> QED BY <1>1, <1>2, <1>3, <1>4, <1>5, <1>6, <1>7, <1>8

\* A receipt is answered only under its cover.
LEMMA ReadReceiptKeeps == ASSUME IInv, NEW p \in Procs, ReadReceipt(p) PROVE IInv'
<1> USE DEF IInv, TypeOK, ReadReceipt, Trusted, Goes, records, calls, postiz
<1>1. TypeOK'
  BY DeliveryAssumption DEF TypeOK, ReceiptNamesPost
<1>2. FilesInv'
  BY DeliveryAssumption DEF FilesInv
<1>3. LockInv'
  BY DeliveryAssumption DEF LockInv, Content
<1>4. CallInv'
  BY DeliveryAssumption DEF CallInv
<1>5. LateInv'
  BY DeliveryAssumption DEF LateInv
<1>6. SentAsIntended'
  BY DeliveryAssumption DEF SentAsIntended
<1>7. ReceiptNamesPost'
  BY DeliveryAssumption DEF ReceiptNamesPost
<1>8. ToldOfReceipt'
  BY DeliveryAssumption DEF ToldOfReceipt
<1> QED BY <1>1, <1>2, <1>3, <1>4, <1>5, <1>6, <1>7, <1>8

\* Finding no receipt changes nothing.
LEMMA NoReceiptKeeps == ASSUME IInv, NEW p \in Procs, NoReceipt(p) PROVE IInv'
<1> USE DEF IInv, TypeOK, NoReceipt, Goes, records, calls, postiz
<1>1. TypeOK'
  BY DeliveryAssumption DEF TypeOK
<1>2. FilesInv'
  BY DeliveryAssumption DEF FilesInv
<1>3. LockInv'
  BY DeliveryAssumption DEF LockInv, Content
<1>4. CallInv'
  BY DeliveryAssumption DEF CallInv
<1>5. LateInv'
  BY DeliveryAssumption DEF LateInv
<1>6. SentAsIntended'
  BY DeliveryAssumption DEF SentAsIntended
<1>7. ReceiptNamesPost'
  BY DeliveryAssumption DEF ReceiptNamesPost
<1>8. ToldOfReceipt'
  BY DeliveryAssumption DEF ToldOfReceipt
<1> QED BY <1>1, <1>2, <1>3, <1>4, <1>5, <1>6, <1>7, <1>8

\* Whoever finds an intent, and so every late call, stops.
LEMMA ReadIntentKeeps == ASSUME IInv, NEW p \in Procs, ReadIntent(p) PROVE IInv'
<1> USE DEF IInv, TypeOK, ReadIntent, Stops, Goes, records, calls, postiz
<1>1. TypeOK'
  BY DeliveryAssumption DEF TypeOK
<1>2. FilesInv'
  BY DeliveryAssumption DEF FilesInv
<1>3. LockInv'
  BY DeliveryAssumption DEF LockInv, Content
<1>4. CallInv'
  BY DeliveryAssumption DEF CallInv
<1>5. LateInv'
  BY DeliveryAssumption DEF LateInv
<1>6. SentAsIntended'
  BY DeliveryAssumption DEF SentAsIntended
<1>7. ReceiptNamesPost'
  BY DeliveryAssumption DEF ReceiptNamesPost
<1>8. ToldOfReceipt'
  BY DeliveryAssumption DEF ToldOfReceipt
<1> QED BY <1>1, <1>2, <1>3, <1>4, <1>5, <1>6, <1>7, <1>8

\* A linked file is the one its call wants, and no call relied on its absence.
LEMMA LinkRecordKeeps == ASSUME IInv, NEW p \in Procs, NEW f \in Files, LinkRecord(p, f) PROVE IInv'
<1> USE DEF IInv, TypeOK, LinkRecord, Writes, Goes, records, calls, postiz
<1>1. TypeOK'
  BY DeliveryAssumption DEF TypeOK, Content
<1>2. FilesInv'
  BY DeliveryAssumption DEF FilesInv, CallInv, Content
<1>3. LockInv'
  BY DeliveryAssumption DEF LockInv, Content
<1>4. CallInv'
  BY DeliveryAssumption DEF CallInv
<1>5. LateInv'
  BY DeliveryAssumption DEF LateInv
<1>6. SentAsIntended'
  BY DeliveryAssumption DEF SentAsIntended
<1>7. ReceiptNamesPost'
  BY DeliveryAssumption DEF ReceiptNamesPost, FilesInv, CallInv, Content
<1>8. ToldOfReceipt'
  BY DeliveryAssumption DEF ToldOfReceipt
<1> QED BY <1>1, <1>2, <1>3, <1>4, <1>5, <1>6, <1>7, <1>8

\* The cover goes to the bytes of the call that holds the lock.
LEMMA CoverRecordKeeps == ASSUME IInv, NEW p \in Procs, NEW f \in Files, CoverRecord(p, f) PROVE IInv'
<1> USE DEF IInv, TypeOK, CoverRecord, Goes, records, calls, postiz
<1>1. TypeOK'
  BY DeliveryAssumption DEF TypeOK, Returned, Afterwards, Content, CallInv
<1>2. FilesInv'
  BY DeliveryAssumption DEF FilesInv, LockInv, Content
<1>3. LockInv'
  BY DeliveryAssumption DEF LockInv, Content
<1>4. CallInv'
  BY DeliveryAssumption DEF CallInv, Afterwards, LockInv, Content
<1>5. LateInv'
  BY DeliveryAssumption DEF LateInv, Afterwards
<1>6. SentAsIntended'
  BY DeliveryAssumption DEF SentAsIntended
<1>7. ReceiptNamesPost'
  BY DeliveryAssumption DEF ReceiptNamesPost
<1>8. ToldOfReceipt'
  BY DeliveryAssumption DEF ToldOfReceipt, Returned, LockInv, Content
<1> QED BY <1>1, <1>2, <1>3, <1>4, <1>5, <1>6, <1>7, <1>8

\* A repeated write found its own bytes covered.
LEMMA RepeatRecordKeeps == ASSUME IInv, NEW p \in Procs, NEW f \in Files, RepeatRecord(p, f) PROVE IInv'
<1> USE DEF IInv, TypeOK, RepeatRecord, Goes, records, calls, postiz
<1>1. TypeOK'
  BY DeliveryAssumption DEF TypeOK, Returned, Afterwards, Content, CallInv
<1>2. FilesInv'
  BY DeliveryAssumption DEF FilesInv
<1>3. LockInv'
  BY DeliveryAssumption DEF LockInv, Content
<1>4. CallInv'
  BY DeliveryAssumption DEF CallInv, Afterwards, Content
<1>5. LateInv'
  BY DeliveryAssumption DEF LateInv, Afterwards
<1>6. SentAsIntended'
  BY DeliveryAssumption DEF SentAsIntended
<1>7. ReceiptNamesPost'
  BY DeliveryAssumption DEF ReceiptNamesPost
<1>8. ToldOfReceipt'
  BY DeliveryAssumption DEF ToldOfReceipt, Returned, Content
<1> QED BY <1>1, <1>2, <1>3, <1>4, <1>5, <1>6, <1>7, <1>8

\* A refused write changes nothing.
LEMMA RefuseRecordKeeps == ASSUME IInv, NEW p \in Procs, NEW f \in Files, RefuseRecord(p, f) PROVE IInv'
<1> USE DEF IInv, TypeOK, RefuseRecord, Goes, records, calls, postiz
<1>1. TypeOK'
  BY DeliveryAssumption DEF TypeOK
<1>2. FilesInv'
  BY DeliveryAssumption DEF FilesInv
<1>3. LockInv'
  BY DeliveryAssumption DEF LockInv, Content
<1>4. CallInv'
  BY DeliveryAssumption DEF CallInv
<1>5. LateInv'
  BY DeliveryAssumption DEF LateInv
<1>6. SentAsIntended'
  BY DeliveryAssumption DEF SentAsIntended
<1>7. ReceiptNamesPost'
  BY DeliveryAssumption DEF ReceiptNamesPost
<1>8. ToldOfReceipt'
  BY DeliveryAssumption DEF ToldOfReceipt
<1> QED BY <1>1, <1>2, <1>3, <1>4, <1>5, <1>6, <1>7, <1>8

\* What leaves for Postiz is what the covered intent says.
LEMMA SendKeeps == ASSUME IInv, NEW p \in Procs, NEW post \in Posts, Send(p, post) PROVE IInv'
<1> USE DEF IInv, TypeOK, Send, Goes, records, calls, postiz
<1>1. TypeOK'
  BY DeliveryAssumption DEF TypeOK
<1>2. FilesInv'
  BY DeliveryAssumption DEF FilesInv
<1>3. LockInv'
  BY DeliveryAssumption DEF LockInv, Content
<1>4. CallInv'
  BY DeliveryAssumption DEF CallInv
<1>5. LateInv'
  BY DeliveryAssumption DEF LateInv
<1>6. SentAsIntended'
  BY DeliveryAssumption DEF SentAsIntended, CallInv
<1>7. ReceiptNamesPost'
  BY DeliveryAssumption DEF ReceiptNamesPost
<1>8. ToldOfReceipt'
  BY DeliveryAssumption DEF ToldOfReceipt
<1> QED BY <1>1, <1>2, <1>3, <1>4, <1>5, <1>6, <1>7, <1>8

\* Postiz only adds posts.
LEMMA CreateKeeps == ASSUME IInv, NEW r \in sent, Create(r) PROVE IInv'
<1> USE DEF IInv, TypeOK, Create, Goes, records, calls, postiz
<1>1. TypeOK'
  BY DeliveryAssumption DEF TypeOK
<1>2. FilesInv'
  BY DeliveryAssumption DEF FilesInv
<1>3. LockInv'
  BY DeliveryAssumption DEF LockInv, Content
<1>4. CallInv'
  BY DeliveryAssumption DEF CallInv
<1>5. LateInv'
  BY DeliveryAssumption DEF LateInv
<1>6. SentAsIntended'
  BY DeliveryAssumption DEF SentAsIntended
<1>7. ReceiptNamesPost'
  BY DeliveryAssumption DEF ReceiptNamesPost
<1>8. ToldOfReceipt'
  BY DeliveryAssumption DEF ToldOfReceipt
<1> QED BY <1>1, <1>2, <1>3, <1>4, <1>5, <1>6, <1>7, <1>8

\* An answered call knows a post that exists.
LEMMA AnsweredKeeps == ASSUME IInv, NEW p \in Procs, Answered(p) PROVE IInv'
<1> USE DEF IInv, TypeOK, Answered, Created, Goes, records, calls, postiz
<1>1. TypeOK'
  BY DeliveryAssumption DEF TypeOK
<1>2. FilesInv'
  BY DeliveryAssumption DEF FilesInv
<1>3. LockInv'
  BY DeliveryAssumption DEF LockInv, Content
<1>4. CallInv'
  BY DeliveryAssumption DEF CallInv
<1>5. LateInv'
  BY DeliveryAssumption DEF LateInv
<1>6. SentAsIntended'
  BY DeliveryAssumption DEF SentAsIntended
<1>7. ReceiptNamesPost'
  BY DeliveryAssumption DEF ReceiptNamesPost
<1>8. ToldOfReceipt'
  BY DeliveryAssumption DEF ToldOfReceipt
<1> QED BY <1>1, <1>2, <1>3, <1>4, <1>5, <1>6, <1>7, <1>8

\* A call without an answer gives up.
LEMMA UnansweredKeeps == ASSUME IInv, NEW p \in Procs, Unanswered(p) PROVE IInv'
<1> USE DEF IInv, TypeOK, Unanswered, Goes, records, calls, postiz
<1>1. TypeOK'
  BY DeliveryAssumption DEF TypeOK
<1>2. FilesInv'
  BY DeliveryAssumption DEF FilesInv
<1>3. LockInv'
  BY DeliveryAssumption DEF LockInv, Content
<1>4. CallInv'
  BY DeliveryAssumption DEF CallInv
<1>5. LateInv'
  BY DeliveryAssumption DEF LateInv
<1>6. SentAsIntended'
  BY DeliveryAssumption DEF SentAsIntended
<1>7. ReceiptNamesPost'
  BY DeliveryAssumption DEF ReceiptNamesPost
<1>8. ToldOfReceipt'
  BY DeliveryAssumption DEF ToldOfReceipt
<1> QED BY <1>1, <1>2, <1>3, <1>4, <1>5, <1>6, <1>7, <1>8

\* A call that is over leaves everything as it is.
LEMMA ReturnKeeps == ASSUME IInv, NEW p \in Procs, Return(p) PROVE IInv'
<1> USE DEF IInv, TypeOK, Return, Goes, records, calls, postiz
<1>1. TypeOK'
  BY DeliveryAssumption DEF TypeOK
<1>2. FilesInv'
  BY DeliveryAssumption DEF FilesInv
<1>3. LockInv'
  BY DeliveryAssumption DEF LockInv, Content
<1>4. CallInv'
  BY DeliveryAssumption DEF CallInv
<1>5. LateInv'
  BY DeliveryAssumption DEF LateInv
<1>6. SentAsIntended'
  BY DeliveryAssumption DEF SentAsIntended
<1>7. ReceiptNamesPost'
  BY DeliveryAssumption DEF ReceiptNamesPost
<1>8. ToldOfReceipt'
  BY DeliveryAssumption DEF ToldOfReceipt
<1> QED BY <1>1, <1>2, <1>3, <1>4, <1>5, <1>6, <1>7, <1>8

\* A killed call loses its lock and its place, and nothing else.
LEMMA KilledKeeps == ASSUME IInv, NEW p \in Procs, Killed(p) PROVE IInv'
<1> USE DEF IInv, TypeOK, Killed, Goes, records, calls, postiz
<1>1. TypeOK'
  BY DeliveryAssumption DEF TypeOK
<1>2. FilesInv'
  BY DeliveryAssumption DEF FilesInv
<1>3. LockInv'
  BY DeliveryAssumption DEF LockInv, Content
<1>4. CallInv'
  BY DeliveryAssumption DEF CallInv
<1>5. LateInv'
  BY DeliveryAssumption DEF LateInv
<1>6. SentAsIntended'
  BY DeliveryAssumption DEF SentAsIntended
<1>7. ReceiptNamesPost'
  BY DeliveryAssumption DEF ReceiptNamesPost
<1>8. ToldOfReceipt'
  BY DeliveryAssumption DEF ToldOfReceipt
<1> QED BY <1>1, <1>2, <1>3, <1>4, <1>5, <1>6, <1>7, <1>8

\* Every step of the connector keeps the invariant.
LEMMA StepIInv == IInv /\ [Next]_vars => IInv'
<1> SUFFICES ASSUME IInv, [Next]_vars
             PROVE  IInv'
  OBVIOUS
<1>1. CASE UNCHANGED vars
  BY <1>1 DEF IInv, vars, records, calls, postiz, TypeOK, FilesInv, LockInv,
     Content, CallInv, LateInv, SentAsIntended, ReceiptNamesPost, ToldOfReceipt
<1>2. ASSUME NEW p \in Procs, Deliver(p) PROVE IInv'
  BY <1>2, ReadReceiptKeeps, NoReceiptKeeps, ReadIntentKeeps, LinkRecordKeeps,
     CoverRecordKeeps, RepeatRecordKeeps, RefuseRecordKeeps, SendKeeps,
     AnsweredKeeps, UnansweredKeeps
  DEF Deliver, WriteRecord
<1> QED
  BY <1>1, <1>2, CallKeeps, ReturnKeeps, KilledKeeps, CreateKeeps DEF Next

\* The invariant holds for any number of callers, stamps and posts.
THEOREM Invariance == Spec => []IInv
<1> QED BY InitIInv, StepIInv, PTL DEF Spec

\* The connector's state is well typed: every receipt that was returned names
\* a post.
THEOREM TypeCorrect == Spec => []TypeOK
<1>1. IInv => TypeOK
  BY DEF IInv
<1> QED BY <1>1, Invariance, PTL

\* "A repeat finds the intent and stops", however many calls overlap.
THEOREM LateCallsStop == Spec => []RepeatsStop
<1>1. IInv => RepeatsStop
  BY DEF IInv, LateInv, RepeatsStop
<1> QED BY <1>1, Invariance, PTL

\* No request leaves without its own durable intent.
THEOREM IntentsComeFirst == Spec => []SentAsIntended
<1>1. IInv => SentAsIntended
  BY DEF IInv
<1> QED BY <1>1, Invariance, PTL

\* A receipt on disk, covered or not, names a post that exists.
THEOREM ReceiptsAreTrue == Spec => []ReceiptNamesPost
<1>1. IInv => ReceiptNamesPost
  BY DEF IInv
<1> QED BY <1>1, Invariance, PTL

\* Whoever is told of a delivery is told of the one completed receipt.
THEOREM AnswersAreReceipts == Spec => []ToldOfReceipt
<1>1. IInv => ToldOfReceipt
  BY DEF IInv
<1> QED BY <1>1, Invariance, PTL

-----------------------------------------------------------------------------
(* How often Postiz is asked *)

\* The calls that may yet ask: those that began before the intent was there.
MayAsk ==
  {p \in Procs \ late : pc[p] \in {"reading", "unreceipted", "intent", "intended"}}

\* A call asks once, and nobody joins them once a request has left.
BudgetInv ==
  /\ IsFiniteSet(sent)
  /\ Cardinality(sent) + Cardinality(MayAsk) <= Cardinality(Procs)

\* Fewer may ask, or nothing has been asked.
LEMMA BudgetLasts ==
  ASSUME IsFiniteSet(Procs), BudgetInv, sent' = sent, sent = {} \/ MayAsk' \subseteq MayAsk
  PROVE  BudgetInv'
<1>1. MayAsk \subseteq Procs /\ MayAsk' \subseteq Procs
  BY DEF MayAsk
<1>2. /\ IsFiniteSet(MayAsk) /\ IsFiniteSet(MayAsk')
      /\ Cardinality(MayAsk') <= Cardinality(Procs)
      /\ sent # {} => Cardinality(MayAsk') <= Cardinality(MayAsk)
  BY <1>1, FS_Subset
<1>3. /\ Cardinality(MayAsk) \in Nat /\ Cardinality(MayAsk') \in Nat
      /\ Cardinality(sent) \in Nat /\ Cardinality(Procs) \in Nat
      /\ sent = {} => Cardinality(sent) = 0
  BY <1>2, FS_CardinalityType, FS_EmptySet DEF BudgetInv
<1> QED BY <1>2, <1>3 DEF BudgetInv

LEMMA StepBudget ==
  ASSUME IsFiniteSet(Procs), IInv, BudgetInv, [Next]_vars
  PROVE  BudgetInv'
<1> USE DEF MayAsk, IInv, TypeOK, Goes, records, calls, postiz
<1>1. CASE UNCHANGED vars
  BY <1>1, BudgetLasts DEF vars
<1>2. ASSUME NEW p \in Procs, NEW f \in Files, WriteRecord(p, f) PROVE BudgetInv'
  <2>1. sent' = sent /\ MayAsk' \subseteq MayAsk
    BY <1>2 DEF WriteRecord, LinkRecord, CoverRecord, RepeatRecord, RefuseRecord, Afterwards
  <2> QED BY <2>1, BudgetLasts
<1>3. ASSUME NEW p \in Procs,
             ReadReceipt(p) \/ NoReceipt(p) \/ ReadIntent(p) \/ Answered(p) \/ Unanswered(p)
      PROVE  BudgetInv'
  <2>1. sent' = sent /\ MayAsk' \subseteq MayAsk
    BY <1>3 DEF ReadReceipt, NoReceipt, ReadIntent, Answered, Unanswered
  <2> QED BY <2>1, BudgetLasts
<1>4. ASSUME NEW p \in Procs, NEW post \in Posts, Send(p, post) PROVE BudgetInv'
  <2>1. p \in MayAsk /\ MayAsk' = MayAsk \ {p}
    BY <1>4 DEF Send, LateInv
  <2>2. IsFiniteSet(MayAsk)
    BY FS_Subset
  <2>3. Cardinality(MayAsk') = Cardinality(MayAsk) - 1
    <3> HIDE DEF MayAsk
    <3>1. Cardinality(MayAsk \ {p}) = Cardinality(MayAsk) - 1
      BY <2>1, <2>2, FS_RemoveElement
    <3> QED BY <2>1, <3>1
  <2> DEFINE r == [post |-> post, stamp |-> stamp[p]]
  <2>4. sent' = sent \cup {r}
    BY <1>4 DEF Send
  <2>5. /\ IsFiniteSet(sent')
        /\ Cardinality(sent') <= Cardinality(sent) + 1
        /\ Cardinality(sent) \in Nat /\ Cardinality(sent') \in Nat
    <3> HIDE DEF r
    <3>1. /\ IsFiniteSet(sent \cup {r})
          /\ Cardinality(sent \cup {r}) = IF r \in sent THEN Cardinality(sent)
                                          ELSE Cardinality(sent) + 1
      BY FS_AddElement DEF BudgetInv
    <3> QED BY <2>4, <3>1, FS_CardinalityType DEF BudgetInv
  <2>6. Cardinality(MayAsk) \in Nat /\ Cardinality(Procs) \in Nat
    BY <2>2, FS_CardinalityType
  <2> HIDE DEF MayAsk
  <2> QED BY <2>3, <2>5, <2>6 DEF BudgetInv
<1>5. ASSUME NEW p \in Procs, NEW s \in Stamps, Call(p, s) PROVE BudgetInv'
  <2>1. CASE file["intent"] = Missing
    BY <2>1, <1>5, BudgetLasts DEF Call, SentAsIntended, FilesInv
  <2>2. CASE file["intent"] # Missing
    <3>1. sent' = sent /\ MayAsk' \subseteq MayAsk
      BY <2>2, <1>5 DEF Call
    <3> QED BY <3>1, BudgetLasts
  <2> QED BY <2>1, <2>2
<1>6. ASSUME NEW p \in Procs, Return(p) \/ Killed(p) PROVE BudgetInv'
  <2>1. sent' = sent /\ MayAsk' \subseteq MayAsk
    BY <1>6 DEF Return, Killed
  <2> QED BY <2>1, BudgetLasts
<1>7. ASSUME NEW r \in sent, Create(r) PROVE BudgetInv'
  <2>1. sent' = sent /\ MayAsk' = MayAsk
    BY <1>7 DEF Create
  <2> QED BY <2>1, BudgetLasts
<1> QED BY <1>1, <1>2, <1>3, <1>4, <1>5, <1>6, <1>7 DEF Next, Deliver

\* Through any number of repeats and kills, Postiz is asked for no more posts
\* than there are callers that can overlap (postiz_connector.py, deliver).
THEOREM PostsAreBounded ==
  ASSUME IsFiniteSet(Procs)
  PROVE  Spec => []PostsBounded
<1>1. Init => BudgetInv
  <2> SUFFICES ASSUME Init PROVE BudgetInv
    OBVIOUS
  <2>1. sent = {} /\ MayAsk = {}
    BY DEF Init, MayAsk
  <2>2. Cardinality(Procs) \in Nat
    BY FS_CardinalityType
  <2> QED BY <2>1, <2>2, FS_EmptySet DEF BudgetInv
<1>2. IInv /\ BudgetInv /\ [Next]_vars => BudgetInv'
  BY StepBudget
<1>3. BudgetInv => PostsBounded
  <2> SUFFICES ASSUME BudgetInv PROVE PostsBounded
    OBVIOUS
  <2>1. IsFiniteSet(MayAsk)
    BY FS_Subset DEF MayAsk
  <2> QED BY <2>1, FS_CardinalityType DEF BudgetInv, PostsBounded
<1> QED BY <1>1, <1>2, <1>3, Invariance, PTL DEF Spec

\* "Deliver approved text once": with one caller at a time Postiz is asked for
\* at most one post, through any number of kills and repeats.
THEOREM LoneCallerPostsOnce ==
  ASSUME NEW CONSTANT q, Procs = {q}
  PROVE  Spec => []PostedOnce
<1>1. IsFiniteSet(Procs) /\ Cardinality(Procs) = 1
  BY FS_Singleton
<1>2. PostsBounded => PostedOnce
  BY <1>1 DEF PostsBounded, PostedOnce
<1> QED BY <1>1, <1>2, PostsAreBounded, PTL

-----------------------------------------------------------------------------

USE DEF taskVars, allVars

\* Whatever the publisher does, the connector takes a step of its own or none.
LEMMA DeliverySteps == [PublisherNext]_allVars => [Next]_vars
<1> SUFFICES ASSUME PublisherNext
             PROVE  [Next]_vars
  BY DEF vars
<1>1. ASSUME NEW p \in Procs, Begin(p) PROVE Next
  BY <1>1, PublisherAssumption DEF Begin, Next
<1>2. ASSUME NEW p \in Procs, NEW s \in CliStamps, CommandLine(p, s) PROVE Next
  BY <1>2, PublisherAssumption DEF CommandLine, Next
<1>3. ASSUME NEW p \in Procs,
             DeliverStep(p) \/ Complete(p) \/ GiveUp(p) \/ Dies(p) \/ CommandEnds(p)
      PROVE  [Next]_vars
  BY <1>3 DEF DeliverStep, Complete, GiveUp, Dies, CommandEnds, Next
<1>4. ASSUME NEW r \in sent, PostizCreates(r) PROVE Next
  BY <1>4 DEF PostizCreates, Next
<1>5. ASSUME Persist \/ Queue \/ Lapse \/ Fence
             \/ \E p \in Procs : Claim(p, "claimed") \/ Claim(p, "failing")
      PROVE  UNCHANGED vars
  BY <1>5 DEF Persist, Queue, Lapse, Fence, Claim
<1> QED BY <1>1, <1>2, <1>3, <1>4, <1>5 DEF PublisherNext, PublisherStep

\* The connector's invariant holds under the publisher.
LEMMA DeliveryInvariance == PublisherSpec => []IInv
<1>1. PublisherInit => IInv
  BY InitIInv DEF PublisherInit
<1>2. IInv /\ [PublisherNext]_allVars => IInv'
  BY DeliverySteps, StepIInv
<1> QED BY <1>1, <1>2, PTL DEF PublisherSpec

-----------------------------------------------------------------------------

\* A covered receipt stays, and so does every post.
LEMMA ReceiptStays ==
  ASSUME IInv, [Next]_vars, "receipt" \in covered
  PROVE  /\ "receipt" \in covered'
         /\ file'["receipt"] = file["receipt"]
         /\ posts \subseteq posts'
<1> USE DEF IInv, TypeOK, records, calls, postiz
<1>1. CASE UNCHANGED vars
  BY <1>1 DEF vars
<1>2. ASSUME NEW p \in Procs, NEW f \in Files, WriteRecord(p, f)
      PROVE  /\ "receipt" \in covered'
             /\ file'["receipt"] = file["receipt"]
             /\ posts \subseteq posts'
  BY <1>2 DEF WriteRecord, LinkRecord, Writes, CoverRecord, RepeatRecord, RefuseRecord
<1>3. ASSUME NEW p \in Procs,
             \/ ReadReceipt(p) \/ NoReceipt(p) \/ ReadIntent(p)
             \/ \E post \in Posts : Send(p, post)
             \/ Answered(p) \/ Unanswered(p) \/ Return(p) \/ Killed(p)
             \/ \E s \in Stamps : Call(p, s)
      PROVE  UNCHANGED <<file, covered, posts>>
  BY <1>3 DEF ReadReceipt, NoReceipt, ReadIntent, Send, Answered, Unanswered,
     Return, Killed, Call
<1>4. ASSUME NEW r \in sent, Create(r)
      PROVE  UNCHANGED <<file, covered>> /\ posts \subseteq posts'
  BY <1>4 DEF Create
<1> QED BY <1>1, <1>2, <1>3, <1>4 DEF Next, Deliver

\* A task that is completed names an existing post, with any number of servers
\* and of operators at the command line.
THEOREM CompletedTasksPosted == PublisherSpec => []CompletedMeansPosted
<1>1. PublisherInit => CompletedMeansPosted
  BY DEF PublisherInit, CompletedMeansPosted
<1>2. IInv /\ CompletedMeansPosted /\ [PublisherNext]_allVars => CompletedMeansPosted'
  <2> SUFFICES ASSUME IInv, CompletedMeansPosted, [PublisherNext]_allVars,
                      task' = "completed"
               PROVE  CompletedMeansPosted'
    BY DEF CompletedMeansPosted
  <2>1. [Next]_vars
    BY DeliverySteps
  <2>2. ASSUME NEW p \in Procs, Complete(p) PROVE CompletedMeansPosted'
    <3>1. file["receipt"].post \in posts /\ "receipt" \in covered
      BY <2>2 DEF Complete, Verified, IInv, FilesInv, ReceiptNamesPost
    <3>2. asset' = file["receipt"]
      BY <2>2 DEF Complete
    <3> QED BY <2>1, <3>1, <3>2, ReceiptStays DEF CompletedMeansPosted
  <2>3. CASE task = "completed" /\ asset' = asset
    BY <2>1, <2>3, ReceiptStays DEF CompletedMeansPosted
  <2>4. ASSUME ~\E p \in Procs : Complete(p)
        PROVE  task = "completed" /\ asset' = asset
    <3>1. CASE UNCHANGED allVars
      BY <3>1
    <3>2. CASE Persist \/ Queue \/ Lapse \/ Fence
      BY <3>2 DEF Persist, Queue, Lapse, Fence
    <3>3. ASSUME NEW p \in Procs,
                 \/ Claim(p, "claimed") \/ Claim(p, "failing") \/ Begin(p)
                 \/ DeliverStep(p) \/ GiveUp(p) \/ Dies(p) \/ CommandEnds(p)
                 \/ \E s \in CliStamps : CommandLine(p, s)
          PROVE  task = "completed" /\ asset' = asset
      BY <3>3 DEF Claim, Begin, DeliverStep, GiveUp, Dies, CommandEnds, CommandLine
    <3>4. ASSUME NEW r \in sent, PostizCreates(r)
          PROVE  task = "completed" /\ asset' = asset
      BY <3>4 DEF PostizCreates
    <3> QED BY <2>4, <3>1, <3>2, <3>3, <3>4 DEF PublisherNext, PublisherStep
  <2> QED BY <2>2, <2>3, <2>4
<1> QED BY <1>1, <1>2, DeliveryInvariance, PTL DEF PublisherSpec

-----------------------------------------------------------------------------
(* Without operators at the command line *)

\* Calls are the worker's, at most one worker ever works, and until its call
\* has sent its request nothing was sent.
WorkInv ==
  /\ \A p \in Procs : pc[p] # "idle" => work[p] = "delivering"
  /\ \A p, q \in Procs : work[p] # "free" /\ work[q] # "free" => p = q
  /\ \A p \in Procs : work[p] = "claimed" => pc[p] = "idle" /\ sent = {}
  /\ \A p \in Procs :
       pc[p] \in {"reading", "unreceipted", "intent", "intended"} => sent = {}
  /\ task \in {"absent", "queued"} =>
       sent = {} /\ \A p \in Procs : work[p] = "free"
  /\ sent = {} \/ \E r : sent = {r}

WorkTypes ==
  /\ pc \in [Procs -> Places]
  /\ work \in [Procs -> {"free", "claimed", "delivering", "failing"}]

\* The places of the workers are typed.
LEMMA WorkTypesStep ==
  ASSUME IInv, WorkTypes, [PublisherNext]_allVars PROVE WorkTypes'
<1>1. IInv'
  BY DeliverySteps, StepIInv
<1> USE DEF WorkTypes, Works
<1>2. pc' \in [Procs -> Places]
  BY <1>1 DEF IInv, TypeOK
<1>3. ASSUME NEW p \in Procs,
             \/ Claim(p, "claimed") \/ Claim(p, "failing") \/ Begin(p)
             \/ DeliverStep(p) \/ Complete(p) \/ GiveUp(p) \/ Dies(p)
             \/ CommandEnds(p) \/ \E s \in CliStamps : CommandLine(p, s)
      PROVE  work' \in [Procs -> {"free", "claimed", "delivering", "failing"}]
  BY <1>3 DEF Claim, Begin, DeliverStep, Complete, GiveUp, Dies, CommandEnds,
     CommandLine
<1>4. CASE Persist \/ Queue \/ Lapse \/ Fence \/ \E r \in sent : PostizCreates(r)
  BY <1>2, <1>4 DEF Persist, Queue, Lapse, Fence, PostizCreates
<1>5. CASE UNCHANGED allVars
  BY <1>5, <1>2
<1> QED BY <1>2, <1>3, <1>4, <1>5 DEF PublisherNext, PublisherStep

\* One step of a call is made by the one worker.
LEMMA DeliverKeepsWork ==
  ASSUME IInv, WorkTypes, WorkInv, NEW p \in Procs, DeliverStep(p)
  PROVE  WorkInv'
<1> USE DEF WorkInv, WorkTypes, Goes, records, calls, postiz
<1>1. UNCHANGED taskVars
  BY DEF DeliverStep
<1>2. ASSUME NEW f \in Files, WriteRecord(p, f) PROVE WorkInv'
  BY <1>1, <1>2 DEF WriteRecord, LinkRecord, CoverRecord, RepeatRecord,
     RefuseRecord, Afterwards
<1>3. CASE ReadReceipt(p) \/ NoReceipt(p) \/ ReadIntent(p)
  BY <1>1, <1>3 DEF ReadReceipt, NoReceipt, ReadIntent
<1>4. CASE Answered(p) \/ Unanswered(p)
  BY <1>1, <1>4 DEF Answered, Unanswered
<1>5. ASSUME NEW post \in Posts, Send(p, post) PROVE WorkInv'
  <2>1. sent = {} /\ work[p] = "delivering"
    BY <1>5 DEF Send
  <2>2. sent' = {[post |-> post, stamp |-> stamp[p]]}
    BY <1>5, <2>1 DEF Send
  <2>3. pc' = [pc EXCEPT ![p] = "asking"]
    BY <1>5 DEF Send
  <2>4. \A q \in Procs \ {p} : work[q] = "free" /\ pc[q] = "idle"
    BY <2>1
  <2>5. task \notin {"absent", "queued"}
    BY <2>1
  <2> QED BY <1>1, <2>1, <2>2, <2>3, <2>4, <2>5
<1> QED BY <1>2, <1>3, <1>4, <1>5 DEF DeliverStep, Deliver

\* Every step keeps the single worker single.
LEMMA StepWork ==
  ASSUME ~manual, IInv, WorkTypes, WorkInv, [PublisherNext]_allVars
  PROVE  WorkInv'
<1> USE DEF WorkInv, WorkTypes, Goes, Works, records, calls, postiz
<1>1. CASE UNCHANGED allVars
  BY <1>1 DEF vars
<1>2. CASE Persist \/ Queue \/ Lapse \/ Fence
  BY <1>2 DEF Persist, Queue, Lapse, Fence, vars
<1>3. ASSUME NEW p \in Procs, Claim(p, "claimed") \/ Claim(p, "failing")
      PROVE  WorkInv'
  BY <1>3 DEF Claim, Claimable, vars
<1>4. ASSUME NEW p \in Procs, Begin(p) PROVE WorkInv'
  BY <1>4 DEF Begin, Call
<1>5. ASSUME NEW p \in Procs, Complete(p) PROVE WorkInv'
  BY <1>5 DEF Complete, Return
<1>6. ASSUME NEW p \in Procs, GiveUp(p) PROVE WorkInv'
  BY <1>6 DEF GiveUp, Return, vars
<1>7. ASSUME NEW p \in Procs, Dies(p) PROVE WorkInv'
  BY <1>7 DEF Dies, Killed, vars
<1>8. ASSUME NEW p \in Procs, CommandEnds(p) PROVE WorkInv'
  BY <1>8 DEF CommandEnds, Return
<1>9. ASSUME NEW r \in sent, PostizCreates(r) PROVE WorkInv'
  BY <1>9 DEF PostizCreates, Create
<1> QED
  BY <1>1, <1>2, <1>3, <1>4, <1>5, <1>6, <1>7, <1>8, <1>9, DeliverKeepsWork
  DEF PublisherNext, PublisherStep

\* The task posts at most once, with any number of servers that may die,
\* outlive their lease or be fenced, and approvals that queue it again.
THEOREM OneTaskOnePost == PublisherSpec => []TaskPostsOnce
<1>1. PublisherInit => WorkTypes /\ (~manual => WorkInv)
  BY DEF PublisherInit, Init, WorkTypes, WorkInv
<1>2. IInv /\ WorkTypes /\ (~manual => WorkInv) /\ [PublisherNext]_allVars
        => WorkTypes' /\ (~manual => WorkInv)'
  <2>1. [PublisherNext]_allVars => manual' = manual
    BY DEF PublisherNext
  <2> QED BY <2>1, WorkTypesStep, StepWork
<1>3. (~manual => WorkInv) => TaskPostsOnce
  <2>1. CASE sent = {}
    <3>1. Cardinality({}) = 0
      BY FS_EmptySet
    <3> QED BY <2>1, <3>1 DEF TaskPostsOnce
  <2>2. ASSUME NEW r, sent = {r} PROVE TaskPostsOnce
    <3>1. Cardinality({r}) = 1
      BY FS_Singleton
    <3> QED BY <2>2, <3>1 DEF TaskPostsOnce
  <2>3. CASE manual
    BY <2>3 DEF TaskPostsOnce
  <2> QED BY <2>1, <2>2, <2>3 DEF WorkInv
<1> QED BY <1>1, <1>2, <1>3, DeliveryInvariance, PTL DEF PublisherSpec

-----------------------------------------------------------------------------
(* The life of the publisher task *)

\* A live lease is of a running task, and only a completed task has an asset.
LifeInv ==
  /\ lessee # NoProc => task = "running"
  /\ asset # Missing => task = "completed"

\* One step of the life.
LifeStep ==
  \/ task' = task /\ asset' = asset
  \/ task = "absent" /\ task' = "queued" /\ asset' = asset
  \/ task = "queued" /\ task' = "running" /\ asset' = asset
  \/ task = "running" /\ task' = "failed" /\ asset' = asset
  \/ task = "running" /\ task' = "completed" /\ asset = Missing /\ asset' # Missing

LEMMA LifeSteps ==
  ASSUME IInv, LifeInv, [PublisherNext]_allVars
  PROVE  LifeInv' /\ LifeStep
<1> USE DEF LifeInv, LifeStep
<1>1. CASE UNCHANGED allVars
  BY <1>1
<1>2. CASE Persist \/ Queue \/ Lapse \/ Fence
  BY <1>2 DEF Persist, Queue, Lapse, Fence
<1>3. ASSUME NEW p \in Procs, Complete(p) PROVE LifeInv' /\ LifeStep
  <2>1. file["receipt"] # Missing
    BY <1>3 DEF Complete, Verified, IInv, FilesInv
  <2>2. task = "running" /\ asset = Missing
    BY <1>3, DeliveryAssumption DEF Complete, Holds
  <2> QED BY <1>3, <2>1, <2>2 DEF Complete
<1>4. ASSUME NEW p \in Procs, GiveUp(p) PROVE LifeInv' /\ LifeStep
  BY <1>4, DeliveryAssumption DEF GiveUp, Holds
<1>5. ASSUME NEW p \in Procs, Claim(p, "claimed") \/ Claim(p, "failing")
      PROVE  LifeInv' /\ LifeStep
  BY <1>5 DEF Claim, Claimable
<1>6. ASSUME NEW p \in Procs,
             \/ Begin(p) \/ DeliverStep(p) \/ Dies(p) \/ CommandEnds(p)
             \/ \E s \in CliStamps : CommandLine(p, s)
      PROVE  LifeInv' /\ LifeStep
  BY <1>6 DEF Begin, DeliverStep, Dies, CommandEnds, CommandLine
<1>7. ASSUME NEW r \in sent, PostizCreates(r) PROVE LifeInv' /\ LifeStep
  BY <1>7 DEF PostizCreates
<1> QED BY <1>1, <1>2, <1>3, <1>4, <1>5, <1>6, <1>7 DEF PublisherNext, PublisherStep

\* The publisher's task lives the life of every broker task, also beside
\* command lines and after kills and lapsed leases (publisher_worker.py
\* _execute): its receipt is published once, with its completion.
THEOREM PublisherTaskLives == PublisherSpec => TaskLives
<1>1. PublisherInit => LifeInv /\ Life!LifeInit
  BY DEF PublisherInit, LifeInv, Life!LifeInit
<1>2. IInv /\ LifeInv /\ [PublisherNext]_allVars => LifeInv'
  BY LifeSteps
<1>3. IInv /\ LifeInv /\ [PublisherNext]_allVars => [Life!LifeNext]_(Life!lifeVars)
  <2> SUFFICES ASSUME LifeStep PROVE Life!LifeNext
    BY LifeSteps
  <2> USE DEF Life!LifeNext, Life!Appear, Life!Start, Life!GiveUp, Life!Publish,
              Life!Decide, Life!Rest, Life!Moves, Life!Unpublished
  <2> QED BY DEF LifeStep
<1> QED BY <1>1, <1>2, <1>3, DeliveryInvariance, PTL DEF PublisherSpec, TaskLives, Life!Spec

\* What the task's tables and the workers hold (publisher_worker.py).
THEOREM PublisherTyped == PublisherSpec => []PublisherTypeOK
<1>1. PublisherInit => PublisherTypeOK
  BY InitIInv DEF PublisherInit, PublisherTypeOK, IInv
<1>2. IInv /\ IInv' /\ PublisherTypeOK /\ [PublisherNext]_allVars => PublisherTypeOK'
  <2> SUFFICES ASSUME IInv, IInv', PublisherTypeOK, [PublisherNext]_allVars
               PROVE  PublisherTypeOK'
    OBVIOUS
  <2>1. TypeOK' /\ file["receipt"] \in Bytes \cup {Missing}
    BY DEF IInv, TypeOK
  <2> USE DEF PublisherTypeOK, Works
  <2>2. CASE UNCHANGED allVars
    BY <2>1, <2>2
  <2>3. CASE Persist \/ Queue \/ Lapse \/ Fence
    BY <2>1, <2>3 DEF PublisherNext, Persist, Queue, Lapse, Fence
  <2>4. ASSUME NEW p \in Procs, Complete(p) \/ GiveUp(p), manual' = manual
        PROVE  PublisherTypeOK'
    BY <2>1, <2>4 DEF Complete, GiveUp
  <2>5. ASSUME NEW p \in Procs, manual' = manual,
               \/ Claim(p, "claimed") \/ Claim(p, "failing") \/ Begin(p)
               \/ DeliverStep(p) \/ Dies(p) \/ CommandEnds(p)
               \/ \E s \in CliStamps : CommandLine(p, s)
        PROVE  PublisherTypeOK'
    BY <2>1, <2>5 DEF Claim, Begin, DeliverStep, Dies, CommandEnds, CommandLine
  <2>6. ASSUME NEW r \in sent, PostizCreates(r), manual' = manual PROVE PublisherTypeOK'
    BY <2>1, <2>6 DEF PostizCreates
  <2> QED BY <2>2, <2>3, <2>4, <2>5, <2>6 DEF PublisherNext, PublisherStep
<1> QED BY <1>1, <1>2, DeliveryInvariance, PTL DEF PublisherSpec

=============================================================================
