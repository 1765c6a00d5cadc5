----------------------------- MODULE WeeklyCycle -----------------------------
(***************************************************************************)
(* The weekly cycle beside the desk: run and _promote_if_idle of           *)
(* weekly_cycle.py and collect of feed_intake.py, a process that launchd   *)
(* starts at login and every Monday, writing Studio records with           *)
(* identities derived from the week's feed record.                         *)
(***************************************************************************)
EXTENDS Studio

CONSTANTS
  Topics,  \* what the curator may answer: the bytes of the source material
  Sugg, Mat, Prop  \* the identities of the week's records

ASSUME WeeklyAssumption ==
  /\ Topics \subseteq Contents
  /\ {Sugg, Mat, Prop} \subseteq WeekIds
  /\ Sugg # Mat /\ Sugg # Prop /\ Mat # Prop

VARIABLE
  cycle  \* where the weekly cycle is: its step, the topic it works from and,
         \* as history, whether the desk admitted a proposal since it looked

vars == <<record, covered, blob, clock, lock, call, task, crowded, kills, cycle>>

NoCycle == [step |-> "off"]
At(step) == cycle.step = step /\ ~Busy(Weekly)

\* Slip: the curator is asked again every time.
CurateAgain ==
  /\ cycle = NoCycle /\ Verified
  /\ \E topic \in Topics :
       cycle' = [step |-> IF Sugg \in Saved THEN "look" ELSE "suggest", topic |-> topic]
  /\ UNCHANGED studioVars

\* collect, studio.read and, when the week has no suggestion yet, what the
\* curator answers to the week's feed items.
Curate ==
  /\ cycle = NoCycle /\ Verified
  /\ IF Sugg \in Saved
     THEN cycle' = [step |-> "look", topic |-> record[Sugg].of]
     ELSE \E topic \in Topics : cycle' = [step |-> "suggest", topic |-> topic]
  /\ UNCHANGED studioVars

InHand == {i \in Names : task[i] = "active"}

\* Slip: only the cycle's own content keeps it waiting.
OwnWaits == InHand \cap WeekIds # {}

Waits == InHand # {}

\* No review is open and the broker has no task under way.
Look ==
  /\ At("look")
  /\ cycle' = IF Waits THEN NoCycle
              ELSE [step |-> "material", topic |-> cycle.topic, joined |-> FALSE]
  /\ UNCHANGED studioVars

\* The records that the cycle saves, each by a call of studio.write.
Request(step) ==
  CASE step = "suggest" -> [id |-> Sugg, kind |-> "suggestion", of |-> cycle.topic]
    [] step = "material" -> [id |-> Mat, kind |-> "material", of |-> cycle.topic]
    [] step = "proposal" -> [id |-> Prop, kind |-> "proposal",
                             of |-> IF record[Mat].kind = "material" THEN Mat ELSE record[Mat].of]

Follows(step) ==
  CASE step = "suggest" -> "look" [] step = "material" -> "proposal" [] step = "proposal" -> "done"

Steps == {"suggest", "material", "proposal"}

Asked == Request(cycle.step)
Proceeds == cycle' = [cycle EXCEPT !.step = Follows(@)]

Ask ==
  /\ cycle.step \in Steps
  /\ Build(Weekly, Asked)
  /\ UNCHANGED cycle

\* The record of an earlier run of the cycle is taken up.
TakeUp ==
  /\ cycle.step \in Steps /\ ~Busy(Weekly) /\ Verified /\ Known(Asked)
  /\ Proceeds
  /\ UNCHANGED studioVars

\* A StudioError ends the cycle.
GiveUp ==
  /\ cycle.step \in Steps /\ ~Busy(Weekly)
  /\ ~Verified \/ ~(Known(Asked) \/ Allowed(Asked))
  /\ cycle' = NoCycle
  /\ UNCHANGED studioVars

WeeklySaves ==
  \/ (StoreBlob(Weekly) \/ Link(Weekly) \/ Cover(Weekly)) /\ UNCHANGED cycle
  \/ ReadBack(Weekly) /\ IF Verified THEN Proceeds ELSE cycle' = NoCycle

WeeklyAdmits ==
  /\ At("done") /\ Admit(Prop)
  /\ cycle' = NoCycle

Looked == cycle.step \in {"material", "proposal", "done"}

DeskAsks(t, q) == Build(t, q) /\ UNCHANGED cycle
DeskSaves(t) == Saving(t) /\ UNCHANGED cycle
DeskAdmits(i) ==
  /\ Admit(i)
  /\ cycle' = IF Looked THEN [cycle EXCEPT !.joined = TRUE] ELSE cycle
Ended(i) == RouteEnds(i) /\ UNCHANGED cycle

Killed(t) ==
  /\ Dies(t)
  /\ cycle' = IF t = Weekly THEN NoCycle ELSE cycle

Init ==
  /\ StudioInit
  /\ cycle = NoCycle

Next ==
  \/ Curate \/ Look \/ Ask \/ TakeUp \/ GiveUp \/ WeeklySaves \/ WeeklyAdmits
  \/ \E t \in Server : DeskSaves(t) \/ \E q \in DeskRequests : DeskAsks(t, q)
  \/ \E i \in Ids : DeskAdmits(i)
  \/ \E i \in Names : Ended(i)
  \/ \E t \in Threads : Killed(t)

Spec == Init /\ [][Next]_vars

-----------------------------------------------------------------------------
(* What Studio promises *)

\* One process owns Studio: while no other process saves at the same time, the
\* same bytes are recorded once and the material limit holds, whatever the
\* threads of the server upload together and wherever one is killed.
NoTwins ==
  ~crowded =>
    /\ \A c \in Contents : Cardinality(Copies(c)) <= 1
    /\ Cardinality(OfKind("material")) <= MaxMaterials

\* A record never points to what is not there: a material's bytes are stored
\* before its record is linked, and a saved record refers to saved records.
NothingDangles ==
  /\ \A i \in OfKind("material") : record[i].of \in blob
  /\ \A i \in Saved : record[i].kind \in {"material_reuse", "slot", "cancel_slot"} =>
       record[i].of \in covered
  /\ \A i \in OfKind("proposal") : record[i].of # None => record[i].of \in covered

\* A slot that was cancelled or moved is never planned again.
SlotsStayDown == [][\A s \in OfKind("slot") \ Active : s \notin Active']_vars

\* The week's records are all about the topic that was suggested first,
\* however often the cycle is started again.
TopicHolds ==
  \A i \in {Mat, Prop} \cap Saved :
    LET m == IF i = Prop THEN record[i].of ELSE i
        f == IF record[m].kind = "material_reuse" THEN record[record[m].of] ELSE record[m]
    IN Sugg \in covered /\ f.of = record[Sugg].of

\* The cycle starts content only while nothing else is in hand, unless the
\* desk admitted a proposal after the cycle had looked.
WeeklyWaits == [][WeeklyAdmits => InHand \subseteq {Prop} \/ cycle.joined]_vars
=============================================================================
