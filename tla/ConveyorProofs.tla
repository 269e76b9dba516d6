--------------------------- MODULE ConveyorProofs ---------------------------
(***************************************************************************)
(* Proofs about the conveyor, for any events, pulses and settings.         *)
(***************************************************************************)
EXTENDS Conveyor, SequenceTheorems, FiniteSetTheorems, TLAPS

-----------------------------------------------------------------------------
(***************************************************************************)
(* The types of the variables, in full.                                    *)
(***************************************************************************)
Lives == {"new", "added", "live", "dead", "gone"}
RangeType == [left : Int, right : Int, known : SUBSET Int]
SlotType == [st : States, range : RangeType, life : Lives, mig : States \cup {"None"},
             unpub : Keys]
NowType == [present : Pulses \cup {Unknown}, future : Pulses \cup {LocalRelative}]
EventType ==
    [pc : Inside \cup {"none", "mapped", "activate", "add", "done", "failed", "refused"},
     pn : Keys \ {LocalRelative}, as : States \cup {"None"}, now : NowType, slot : Nat,
     wrap : {"None", "future", "antique", "redirected"}, early : BOOLEAN, late : BOOLEAN]
CacheType == [data : SUBSET Pulses, cur : SUBSET Pulses, old : SUBSET Pulses]
CommitType == [phase : {"idle", "publish", "route"}, range : RangeType,
               future : Pulses \cup {LocalRelative}]

\* The event is in a slot, or its call works with a slot.
HasSlot(e) == ev[e].pc \in Inside \cup {"activate", "add"}

PulsesTyped ==
    /\ pulses \in NowType /\ (pulses.present # Unknown => pulses.future # LocalRelative)
    /\ unpublishPulse \in Keys /\ presentMachine \in 0 .. Len(slots)
    /\ cache \in CacheType
    /\ earliestBound \in Pulses \cup {Unknown}
    /\ preparing \in BOOLEAN /\ acked \in BOOLEAN /\ broken \in BOOLEAN
    /\ commit \in CommitType /\ rollbacks \in 0 .. MaxRollbacks
SlotsTyped ==
    /\ slots \in Seq(SlotType)
    /\ published \in [Keys -> 0 .. Len(slots)]
EventsTyped ==
    /\ ev \in [Events -> EventType]
    /\ \A e \in Events : HasSlot(e) => ev[e].slot \in DOMAIN slots
Typed == PulsesTyped /\ SlotsTyped /\ EventsTyped

-----------------------------------------------------------------------------
(***************************************************************************)
(* The life of slots.  A slot that is not started has a call that will     *)
(* start it, and no other call will; a slot has a migration handler from   *)
(* its first step on, and it is the one for past slots when it stops.      *)
(***************************************************************************)
LivesInv ==
    /\ \A i \in DOMAIN slots :
          /\ slots[i].life \in {"new", "added"} <=> slots[i].mig = "None"
          /\ slots[i].life \in {"dead", "gone"} => slots[i].mig = "Past"
          /\ slots[i].life = "new" =>
                \E e \in Events : ev[e].pc = "activate" /\ ev[e].slot = i
    /\ \A e \in Events : ev[e].pc = "activate" =>
          /\ slots[ev[e].slot].life = "new"
          /\ \A d \in Events : ev[d].pc = "activate" /\ ev[d].slot = ev[e].slot => d = e

(***************************************************************************)
(* Before the first pulse there is at most one slot, for the number the    *)
(* first event has carried.  It becomes the first present slot, unless the *)
(* event comes while the pulse is committed: then its slot stays apart.    *)
(***************************************************************************)
FirstRange == NewLeftGapRange(MinTimePulse, FirstPulse)
Early(s) == /\ s.st = "Future" /\ s.range = OnePulse(pulses.future)
            /\ s.unpub \in {LocalRelative, pulses.future}
            /\ pulses.future # LocalRelative
FirstPresent(s) == /\ s.st = "Present" /\ s.range = FirstRange
                   /\ s.unpub \in {LocalRelative, FirstPulse, pulses.future}

BeforeFirst ==
    /\ presentMachine = NoSlot <=> commit.phase # "route"
    /\ commit.phase # "idle" => /\ commit.range = FirstRange
                                /\ commit.future \in {LocalRelative, pulses.future}
                                /\ FirstPulse <= LastPulse
    /\ \A i \in DOMAIN slots :
          /\ slots[i].mig \in {"None", "Future"}
          /\ i = presentMachine => FirstPresent(slots[i])
          /\ i # presentMachine => /\ Early(slots[i]) /\ published[pulses.future] = i
                                   /\ presentMachine # NoSlot => pulses.future # FirstPulse
    /\ \A k \in Keys : published[k] # NoSlot =>
          \/ k = pulses.future
          \/ published[k] = presentMachine /\ k \in {LocalRelative, FirstPulse}
    /\ presentMachine = NoSlot => unpublishPulse = Unknown
    /\ presentMachine # NoSlot =>
          /\ published[FirstPulse] = presentMachine
          /\ unpublishPulse \in {LocalRelative, Unknown, pulses.future} \ {FirstPulse}
    /\ \A e \in Events : ev[e].pc \in {"mapped", "activate", "add"} \cup Inside => ev[e].early
    /\ pulses.future # LocalRelative => \E e \in Events : ev[e].early

-----------------------------------------------------------------------------
(***************************************************************************)
(* From the first pulse on.  Numbers from the first pulse on belong to one *)
(* slot each, and the registry keeps to that; the slots are those of the   *)
(* past, the present one and the one for the expected pulse.               *)
(***************************************************************************)
Covers(s, k) == k \in s.range.left .. s.range.right

\* The range has the data of its first pulse, and of no pulse but the bounds.
KnowsBounds(r) == r.left \in r.known /\ r.known \subseteq {r.left, r.right}

CommitFits ==
    commit.phase # "idle" =>
        /\ commit.future = pulses.future
        /\ commit.range.left = pulses.future
        /\ commit.range.right \in {pulses.future, pulses.future + Delta}
        /\ commit.range.right <= LastPulse
        /\ KnowsBounds(commit.range)

\* The last number that has a slot, and the last that may have one.
LastStarted == IF commit.phase = "route" THEN commit.range.right ELSE pulses.present
LastPublished == IF commit.phase = "route" THEN commit.range.right ELSE pulses.future

SlotFits(i) ==
    LET s == slots[i] IN
    /\ s.range.left <= s.range.right
    /\ s.unpub = LocalRelative \/ Covers(s, s.unpub)
    /\ s.st = "Antique" => s.range.right = Unknown /\ s.mig \in {"None", "Antique"}
    /\ s.range.right = Unknown => s.st = "Antique"
    /\ \/ s.range.right <= LastStarted
       \/ /\ commit.phase # "route" /\ s.range = OnePulse(pulses.future)
          /\ s.st = "Future" /\ s.mig \in {"None", "Future"} /\ published[pulses.future] = i
    /\ s.range.right \in FirstPulse .. LastStarted => s.st \in {"Present", "Past"}
    /\ s.range.right > FirstPulse => KnowsBounds(s.range)
    /\ s.st = "Present" <=> commit.phase # "publish" /\ i = presentMachine

OneSlotPerPulse ==
    \A i, j \in DOMAIN slots, k \in Keys :
        k >= FirstPulse /\ Covers(slots[i], k) /\ Covers(slots[j], k) => i = j

RegistryFits ==
    \A k \in Keys : published[k] # NoSlot =>
        /\ k >= FirstPulse => Covers(slots[published[k]], k)
        /\ k = Unknown => slots[published[k]].st = "Antique"
        /\ k <= LastPublished

\* The slot of the present pulse is published, also while the pulse changes.
PresentFits ==
    LET s == slots[published[pulses.present]] IN
    /\ published[pulses.present] # NoSlot
    /\ s.range.right = pulses.present
    /\ s.mig \in {"None", "Present"}
    /\ s.st = IF commit.phase = "idle" THEN "Present" ELSE "Past"
    /\ commit.phase # "route" => published[pulses.present] = presentMachine

\* The next present slot, until the events are routed to it.
NextFits ==
    commit.phase = "route" =>
        /\ slots[presentMachine].range = commit.range
        /\ slots[presentMachine].mig \in {"None", "Future"}
        /\ published[commit.range.right] = presentMachine
        /\ published[commit.future] = presentMachine

Running ==
    /\ pulses.present \in FirstPulse .. LastPulse
    /\ pulses.future = pulses.present + Delta
    /\ presentMachine # NoSlot
    /\ unpublishPulse < LastStarted
    /\ CommitFits
    /\ \A i \in DOMAIN slots : SlotFits(i)
    /\ OneSlotPerPulse /\ RegistryFits /\ PresentFits /\ NextFits

-----------------------------------------------------------------------------
(***************************************************************************)
(* Calls of AddInput.  A call that has not overlapped a pulse change has   *)
(* read the pulses as they are; for one that has, the pulse it takes for   *)
(* the present one is still published, and the one it expects is present.  *)
(***************************************************************************)
LateFits(e) ==
    LET now == ev[e].now
        s == slots[published[now.present]]
    IN
    /\ commit.phase = "idle" /\ pulses.present # Unknown
    /\ now.present = Unknown => now.future <= FirstPulse /\ pulses.present = FirstPulse
    /\ now.present # Unknown =>
          /\ now.present >= FirstPulse /\ now.present < pulses.present
          /\ published[now.present] # NoSlot
          /\ s.range.right = now.present /\ s.st = "Past" /\ s.mig \in {"None", "Past"}
          /\ IsActive(s)
          /\ published[now.future] = presentMachine
          /\ now.future > FirstPulse

CallFits(e) ==
    LET now == ev[e].now IN
    /\ now.future # LocalRelative
    /\ ev[e].late => LateFits(e)
    /\ ~ev[e].late => now = pulses

\* What the call has taken the number of its event for.
AsFits(e) ==
    LET now == ev[e].now IN
    /\ ev[e].as # "None"
    /\ ev[e].early <=> now.present = Unknown
    /\ ev[e].as # "Future" => ~ev[e].early
    /\ ev[e].as = "Present" => ev[e].pn = now.present
    /\ ev[e].as = "Past" => ev[e].pn # Unknown /\ ev[e].pn < now.present

StartFits(e) ==
    LET s == slots[ev[e].slot] IN
    /\ ev[e].as \in {"Future", "Antique"}
    /\ ev[e].as = "Antique" => s.st = "Antique"
    /\ ev[e].as = "Future" /\ pulses.present # Unknown => Covers(s, ev[e].now.future)

CallsInv ==
    \A e \in Events :
        /\ ev[e].pc = "none" => ~ev[e].late
        /\ InCall(e) => CallFits(e)
        /\ InCall(e) \/ HasSlot(e) => AsFits(e)
        /\ ev[e].pc = "activate" => StartFits(e)

(***************************************************************************)
(* The slot of an event that has not come before the first pulse.          *)
(***************************************************************************)
OfItsPulse(s, e) == s.st \in {"Present", "Past"} /\ Covers(s, ev[e].pn)

PlaceFits(e) ==
    LET s == slots[ev[e].slot] IN
    /\ ev[e].as = "Antique" => s.st = "Antique"
    /\ ev[e].as = "Present" => OfItsPulse(s, e)
    /\ ev[e].as = "Past" /\ ev[e].pn >= FirstPulse => OfItsPulse(s, e)
    /\ ev[e].as = "Future" => s.range.right > FirstPulse

InsideFits(e) ==
    /\ ev[e].as = "Past" => ev[e].pn >= FirstPulse
    /\ ev[e].as = "Future" <=> ev[e].wrap = "future"
    /\ ev[e].wrap = "antique" => ev[e].as = "Antique"
    /\ ev[e].pc \in {"waiting", "woken"} => ev[e].as = "Future"
    /\ ev[e].pc = "loading" => ev[e].as = "Antique"
    /\ ev[e].pc = "created" /\ ev[e].as = "Future" => OfItsPulse(slots[ev[e].slot], e)

PlacesInv ==
    /\ \A e \in Events : ~ev[e].early =>
          /\ HasSlot(e) => PlaceFits(e)
          /\ ev[e].pc \in Inside => InsideFits(e)
    /\ \A n \in cache.data : n >= FirstPulse

-----------------------------------------------------------------------------
Orderly ==
    /\ LivesInv /\ CallsInv /\ PlacesInv
    /\ pulses.present = Unknown => BeforeFirst
    /\ pulses.present # Unknown => Running

\* A slot that has made its first step has a migration handler.
MigrationSet == \A i \in DOMAIN slots : slots[i].life \in {"live", "dead"} => slots[i].mig # "None"

ConveyorInv ==
    /\ Typed /\ AcceptedNotLost /\ HandledInItsPulse /\ NoPanic /\ MigrationSet
    /\ ~broken => Orderly

-----------------------------------------------------------------------------
(***************************************************************************)
(* The numbers and the ranges.                                             *)
(***************************************************************************)
LEMMA KeysAre ==
    /\ \A k : k \in Keys <=> k \in Int /\ -1 <= k /\ k <= LastPulse + 2 * Delta
    /\ \A k : k \in Pulses <=> k \in Int /\ 1 <= k /\ k <= LastPulse + 2 * Delta
    /\ Pulses \subseteq Keys
BY ConveyorAssumption DEF Keys, Pulses, LocalRelative, Unknown, MinTimePulse

LEMMA RangesTyped ==
    ASSUME NEW l \in Int, NEW r \in Int
    PROVE  /\ OnePulse(r) \in RangeType
           /\ NewSequenceRange(l, r) \in RangeType
           /\ NewLeftGapRange(l, r) \in RangeType
BY DEF OnePulse, NewSequenceRange, NewLeftGapRange, RangeType

(* A function on 1..n is a sequence of length n. *)
LEMMA FunctionIsSequence ==
    ASSUME NEW S, NEW n \in Nat, NEW f \in [1 .. n -> S]
    PROVE  f \in Seq(S) /\ Len(f) = n /\ DOMAIN f = 1 .. n
OBVIOUS

(* The slots after a change of one of them, and with a new one. *)
LEMMA SlotChanged ==
    ASSUME NEW q \in Seq(SlotType), NEW i \in DOMAIN q, NEW s \in SlotType
    PROVE  /\ [q EXCEPT ![i] = s] \in Seq(SlotType)
           /\ Len([q EXCEPT ![i] = s]) = Len(q)
           /\ DOMAIN [q EXCEPT ![i] = s] = DOMAIN q
           /\ \A j \in DOMAIN q : [q EXCEPT ![i] = s][j] = IF j = i THEN s ELSE q[j]
OBVIOUS

LEMMA SlotAppended ==
    ASSUME NEW q \in Seq(SlotType), NEW s \in SlotType
    PROVE  /\ Append(q, s) \in Seq(SlotType)
           /\ Len(Append(q, s)) = Len(q) + 1
           /\ DOMAIN Append(q, s) = DOMAIN q \cup {Len(q) + 1}
           /\ Len(q) + 1 \notin DOMAIN q
           /\ \A j \in DOMAIN q : Append(q, s)[j] = q[j]
           /\ Append(q, s)[Len(q) + 1] = s
OBVIOUS

LEMMA AppendChanged ==
    ASSUME NEW q \in Seq(SlotType), NEW s \in SlotType, NEW t \in SlotType
    PROVE  [Append(q, s) EXCEPT ![Len(q) + 1] = t] = Append(q, t)
<1> DEFINE n == Len(q) + 1
           a == Append(q, s)
           g == Append(q, t)
           f == [a EXCEPT ![n] = t]
<1>1. /\ a \in Seq(SlotType) /\ g \in Seq(SlotType)
      /\ DOMAIN a = 1 .. n /\ DOMAIN g = 1 .. n /\ n \in 1 .. n
      /\ Len(a) = n /\ Len(g) = n
  OBVIOUS
<1>2. a[n] = s /\ g[n] = t /\ \A j \in 1 .. n : j # n => a[j] = q[j] /\ g[j] = q[j]
  BY SlotAppended
<1> HIDE DEF n, a, g
<1>3. f \in Seq(SlotType) /\ Len(f) = n
  BY <1>1
<1>4. \A j \in 1 .. n : f[j] = g[j]
  BY <1>1, <1>2
<1> HIDE DEF f
<1>5. f = g
  BY <1>1, <1>3, <1>4, SeqEqual
<1> QED BY <1>5 DEF f, a, g, n

LEMMA NewSlotTyped ==
    ASSUME NEW st \in States, NEW r \in RangeType
    PROVE  NewSlot(st, r) \in SlotType
BY KeysAre, ConveyorAssumption DEF NewSlot, SlotType, Lives, LocalRelative

(* A slot is a place of the sequence, and the registry names slots. *)
LEMMA SlotsAre ==
    ASSUME SlotsTyped
    PROVE  /\ DOMAIN slots = 1 .. Len(slots) /\ Len(slots) \in Nat
           /\ \A i \in DOMAIN slots : slots[i] \in SlotType
           /\ \A k \in Keys : published[k] \in Nat
           /\ \A k \in Keys : published[k] # NoSlot => published[k] \in DOMAIN slots
BY DEF SlotsTyped, NoSlot

-----------------------------------------------------------------------------
(***************************************************************************)
(* What the steps do to events.                                            *)
(***************************************************************************)
\* Only the event e moves, and keeps what it has read.
Moves(e) ==
    /\ ev' \in [Events -> EventType]
    /\ \A d \in Events : d # e => ev'[d] = ev[d]
    /\ ev'[e].pn = ev[e].pn /\ ev'[e].now = ev[e].now
    /\ ev'[e].early = ev[e].early /\ ev'[e].late = ev[e].late

\* What the places of events are judged by stays.
SlotState == <<pulses, slots, published, unpublishPulse, presentMachine, commit>>

LEMMA RefuseEffect ==
    ASSUME EventsTyped, NEW e \in Events, Refuse(e)
    PROVE  Moves(e) /\ ev'[e].pc = "refused"
BY DEF EventsTyped, Refuse, Moves, EventType

LEMMA UsePublishedEffect ==
    ASSUME EventsTyped, SlotsTyped, NEW e \in Events, NEW key \in Keys, NEW as \in States,
           UsePublished(e, key, as)
    PROVE  /\ Moves(e) /\ UNCHANGED <<slots, published>>
           /\ ev'[e].pc = "add" /\ ev'[e].slot = published[key] /\ ev'[e].as = as
<1>1. published[key] \in Nat
  BY SlotsAre
<1>2. ev' = [ev EXCEPT ![e].pc = "add", ![e].slot = published[key], ![e].as = as]
      /\ UNCHANGED <<slots, published>>
  BY DEF UsePublished
<1>3. ev \in [Events -> EventType] /\ ev[e] \in EventType
  BY DEF EventsTyped
<1> QED BY <1>1, <1>2, <1>3 DEF Moves, EventType, States

LEMMA PublishNewEffect ==
    ASSUME EventsTyped, SlotsTyped, NEW e \in Events, NEW key \in Keys, NEW as \in States,
           NEW s \in SlotType, PublishNew(e, key, as, s)
    PROVE  /\ Moves(e) /\ slots' = Append(slots, s)
           /\ published' = [published EXCEPT ![key] = Len(slots) + 1]
           /\ ev'[e].pc = "activate" /\ ev'[e].slot = Len(slots) + 1 /\ ev'[e].as = as
<1>1. Len(slots) + 1 \in Nat
  BY SlotsAre
<1>2. /\ slots' = Append(slots, s)
      /\ published' = [published EXCEPT ![key] = Len(slots) + 1]
      /\ ev' = [ev EXCEPT ![e].pc = "activate", ![e].slot = Len(slots) + 1, ![e].as = as]
  BY DEF PublishNew
<1>3. ev \in [Events -> EventType] /\ ev[e] \in EventType
  BY DEF EventsTyped
<1>4. /\ Moves(e)
      /\ ev'[e].pc = "activate" /\ ev'[e].slot = Len(slots) + 1 /\ ev'[e].as = as
  <2> DEFINE n == Len(slots) + 1
  <2>1. n \in Nat /\ ev' = [ev EXCEPT ![e].pc = "activate", ![e].slot = n, ![e].as = as]
    BY <1>1, <1>2
  <2> HIDE DEF n
  <2>2. Moves(e) /\ ev'[e].pc = "activate" /\ ev'[e].slot = n /\ ev'[e].as = as
    BY <2>1, <1>3 DEF Moves, EventType, States
  <2> QED BY <2>2 DEF n
<1> QED BY <1>2, <1>4

LEMMA ActivateSlotEffect ==
    ASSUME EventsTyped, NEW e \in Events, ActivateSlot(e)
    PROVE  /\ Moves(e) /\ ev'[e].pc = "add"
           /\ ev'[e].slot = ev[e].slot /\ ev'[e].as = ev[e].as
BY DEF EventsTyped, ActivateSlot, Moves, EventType

\* The outcomes of AddNew: the slot of the event takes it, with the wrapper that its
\* pulse calls for, or the event goes to the antique slot, or it is refused.
Added(e) ==
    /\ ev'[e].pc = "queued" /\ ev'[e].as = ev[e].as /\ IsActive(slots[ev[e].slot])
    /\ \/ ev[e].as = "Future" /\ ev'[e].wrap = "future"
       \/ ev[e].as = "Antique" /\ ev'[e].wrap = "antique"
       \/ ev[e].as # "Future" /\ ev'[e].wrap = "None" /\ ev[e].pn \in cache.data
Redirected(e) == ev[e].as = "Past" /\ ev'[e].pc = "mapped" /\ ev'[e].as = "Antique"

LEMMA AddEventEffect ==
    ASSUME EventsTyped, NEW e \in Events, AddEvent(e)
    PROVE  /\ Moves(e) /\ ev[e].pc = "add" /\ ev'[e].slot = ev[e].slot
           /\ Added(e) \/ Redirected(e) \/ ev'[e].pc = "refused"
<1> DEFINE pn == ev[e].pn
           has == pn \in cache.data
           recent == IsRecentPastRange(pn)
<1>0. ev \in [Events -> EventType] /\ ev[e] \in EventType /\ ev[e].pc = "add"
  BY DEF EventsTyped, AddEvent
<1>1. ASSUME NEW w \in {"None", "future", "antique"}, AddTo(e, w)
      PROVE  /\ Moves(e) /\ ev'[e].slot = ev[e].slot
             /\ \/ /\ ev'[e].pc = "queued" /\ ev'[e].as = ev[e].as
                   /\ IsActive(slots[ev[e].slot]) /\ ev'[e].wrap = w
                \/ ev'[e].pc = "refused"
  <2>1. CASE IsActive(slots[ev[e].slot])
    <3>1. ev' = [ev EXCEPT ![e].pc = "queued", ![e].wrap = w]
      BY <1>1, <2>1 DEF AddTo
    <3> QED BY <1>0, <2>1, <3>1 DEF Moves, EventType, Inside
  <2>2. CASE ~IsActive(slots[ev[e].slot])
    <3>1. ev' = [ev EXCEPT ![e].pc = "refused"]
      BY <1>1, <2>2 DEF AddTo
    <3> QED BY <1>0, <3>1 DEF Moves, EventType
  <2> QED BY <2>1, <2>2
<1>2. ASSUME Refuse(e)
      PROVE  Moves(e) /\ ev'[e].slot = ev[e].slot /\ ev'[e].pc = "refused"
  BY <1>0, <1>2 DEF Refuse, Moves, EventType
<1>3. ASSUME RedirectToAntique(e)
      PROVE  /\ Moves(e) /\ ev'[e].slot = ev[e].slot
             /\ ev'[e].pc = "mapped" /\ ev'[e].as = "Antique"
  BY <1>0, <1>3 DEF RedirectToAntique, Moves, EventType, States
<1>4. CASE ev[e].as = "Future"
  <2>1. AddTo(e, "future")
    BY <1>4 DEF AddEvent
  <2> QED BY <2>1, <1>0, <1>1, <1>4 DEF Added
<1>5. CASE ev[e].as = "Antique" /\ ~has /\ ~recent
  <2>1. AddTo(e, "antique")
    BY <1>5 DEF AddEvent
  <2> QED BY <2>1, <1>0, <1>1, <1>5 DEF Added
<1>6. CASE ev[e].as # "Future" /\ ~has /\ (ev[e].as = "Antique" => recent)
  <2>1. Refuse(e)
    BY <1>6 DEF AddEvent
  <2> QED BY <2>1, <1>0, <1>2
<1>7. CASE ev[e].as = "Past" /\ has /\ ~IsActive(slots[ev[e].slot])
  <2>1. RedirectToAntique(e)
    BY <1>7 DEF AddEvent
  <2> QED BY <2>1, <1>0, <1>3, <1>7 DEF Redirected
<1>8. CASE /\ ev[e].as # "Future" /\ has
           /\ ~(ev[e].as = "Past" /\ ~IsActive(slots[ev[e].slot]))
  <2>1. AddTo(e, "None")
    BY <1>8 DEF AddEvent
  <2> QED BY <2>1, <1>0, <1>1, <1>8 DEF Added
<1> QED BY <1>4, <1>5, <1>6, <1>7, <1>8

LEMMA FactoryRefusesEffect ==
    ASSUME EventsTyped, NEW e \in Events, FactoryRefuses(e)
    PROVE  Moves(e) /\ ev'[e].pc = "refused"
BY RefuseEffect DEF FactoryRefuses

\* The event goes on in its slot.
GoesOn(e) ==
    Moves(e) /\ ev'[e].slot = ev[e].slot /\ ev'[e].as = ev[e].as /\ ev'[e].wrap = ev[e].wrap

LEMMA HandlerEndsEffect ==
    ASSUME EventsTyped, NEW e \in Events, HandlerEnds(e)
    PROVE  GoesOn(e) /\ ev'[e].pc = "done"
BY DEF EventsTyped, HandlerEnds, GoesOn, Moves, EventType

LEMMA StepGotAnswerEffect ==
    ASSUME EventsTyped, NEW e \in Events, StepGotAnswer(e)
    PROVE  /\ GoesOn(e) /\ ev[e].pc = "loading"
           /\ ev'[e].pc \in {"created", "failed"}
<1>1. PICK p \in {"created", "failed"} : ev' = [ev EXCEPT ![e].pc = p]
  BY DEF StepGotAnswer
<1> QED BY <1>1 DEF EventsTyped, StepGotAnswer, GoesOn, Moves, EventType, Inside

LEMMA ExecuteEventEffect ==
    ASSUME EventsTyped, NEW e \in Events, ExecuteEvent(e)
    PROVE  /\ GoesOn(e) /\ ev[e].pc \in {"queued", "woken"}
           /\ ev'[e].pc \in {"loading", "created", "waiting", "failed"}
           /\ ev'[e].pc = "waiting" => ev[e].wrap = "future"
           /\ ev'[e].pc = "loading" => ev[e].wrap = "antique"
           /\ ev'[e].pc = "created" /\ ev[e].wrap = "future" =>
                 LET a == IsAcceptedFutureOrPresent(slots[ev[e].slot], ev[e].pn, pulses)
                 IN  a.ok /\ ~a.isFuture
<1> DEFINE w == StepWaitMigration(e)
           a == IsAcceptedFutureOrPresent(slots[ev[e].slot], ev[e].pn, pulses)
           p == CASE ev[e].wrap = "future" -> w
                  [] ev[e].wrap = "antique" -> "loading"
                  [] OTHER -> "created"
<1>1. w \in {"failed", "waiting", "created"} /\ (w = "created" => a.ok /\ ~a.isFuture)
  <2> HIDE DEF a
  <2>1. w = CASE ~a.ok -> "failed" [] a.ok /\ a.isFuture -> "waiting" [] OTHER -> "created"
    BY DEF StepWaitMigration, a
  <2> HIDE DEF w
  <2>2. CASE ~a.ok
    BY <2>1, <2>2
  <2>3. CASE a.ok /\ a.isFuture
    BY <2>1, <2>3
  <2>4. CASE a.ok /\ ~a.isFuture
    BY <2>1, <2>4
  <2> QED BY <2>2, <2>3, <2>4
<1> HIDE DEF w, a
<1>2. ev' = [ev EXCEPT ![e].pc = p] /\ ev[e].pc \in {"queued", "woken"}
  BY DEF ExecuteEvent, w
<1>3. /\ p \in {"loading", "created", "waiting", "failed"}
      /\ p = "waiting" => ev[e].wrap = "future"
      /\ p = "loading" => ev[e].wrap = "antique"
      /\ p = "created" /\ ev[e].wrap = "future" => a.ok /\ ~a.isFuture
  <2>1. CASE ev[e].wrap = "future"
    BY <2>1, <1>1
  <2>2. CASE ev[e].wrap = "antique"
    BY <2>2
  <2>3. CASE ev[e].wrap \notin {"future", "antique"}
    BY <2>3
  <2> QED BY <2>1, <2>2, <2>3
<1> HIDE DEF p
<1>4. GoesOn(e) /\ ev'[e].pc = p
  BY <1>2, <1>3 DEF EventsTyped, GoesOn, Moves, EventType, Inside
<1> QED BY <1>2, <1>3, <1>4 DEF a

\* Where the call looks for a slot, and what for.
Seeks(e, key, as) ==
    \/ as = "Antique" /\ key = Unknown /\ ev[e].as \in {"Past", "Antique"}
    \/ as = "Future" /\ key = ev[e].now.future /\ ev[e].as = "Future"
    \/ as \in {"Present", "Past"} /\ key = ev[e].pn /\ ev[e].as = as

\* The slot the call publishes when there is none.
SlotFor(key, as) == NewSlot(as, OnePulse(key))

Finds(e, key, as) == published[key] # NoSlot /\ Seeks(e, key, as) /\ UsePublished(e, key, as)
Publishes(e, key, as) ==
    /\ published[key] = NoSlot /\ Seeks(e, key, as) /\ as \in {"Antique", "Future"}
    /\ PublishNew(e, key, as, SlotFor(key, as))

\* The call takes a pulse for the present one that has no slot.
Misses(e) ==
    \/ ev[e].as = "Present" /\ published[ev[e].pn] = NoSlot
    \/ ev[e].as = "Past" /\ published[ev[e].now.present] = NoSlot

LEMMA FindSlotEffect ==
    ASSUME EventsTyped, NEW e \in Events, ev[e].as # "None", FindSlot(e)
    PROVE  \/ Misses(e) /\ broken' /\ UNCHANGED <<ev, slots, published>>
           \/ Refuse(e) /\ UNCHANGED <<slots, published, broken>>
           \/ \E key \in Keys, as \in States :
                 (Finds(e, key, as) \/ Publishes(e, key, as)) /\ UNCHANGED broken
<1> DEFINE pn == ev[e].pn
           Got == \E key \in Keys, as \in States :
                     (Finds(e, key, as) \/ Publishes(e, key, as)) /\ UNCHANGED broken
<1>0. /\ pn \in Keys /\ ev[e].now.future \in Keys /\ Unknown \in Keys
      /\ ev[e].as \in States /\ States = {"Future", "Present", "Past", "Antique"}
  BY KeysAre DEF EventsTyped, EventType, NowType, Keys, States
<1>1. ASSUME GetAntiquePulseSlotMachine(e), ev[e].as \in {"Past", "Antique"}, UNCHANGED broken
      PROVE  Got
  <2>1. Seeks(e, Unknown, "Antique")
    BY <1>1 DEF Seeks
  <2>2. Finds(e, Unknown, "Antique") \/ Publishes(e, Unknown, "Antique")
    BY <1>1, <2>1 DEF GetAntiquePulseSlotMachine, GetOrPublish, Finds, Publishes, SlotFor
  <2> QED BY <1>0, <1>1, <2>2
<1>2. CASE ev[e].as = "Present"
  <2>1. CASE published[pn] = NoSlot
    BY <1>2, <2>1 DEF FindSlot, Misses
  <2>2. CASE published[pn] # NoSlot
    <3>1. UsePublished(e, pn, "Present") /\ UNCHANGED broken
      BY <1>2, <2>2 DEF FindSlot
    <3>2. Finds(e, pn, "Present")
      BY <1>2, <2>2, <3>1 DEF Finds, Seeks
    <3> QED BY <1>0, <3>1, <3>2
  <2> QED BY <2>1, <2>2
<1>3. CASE ev[e].as = "Past"
  <2>0. FindPast(e)
    BY <1>3 DEF FindSlot
  <2>1. CASE published[pn] # NoSlot
    <3>1. UsePublished(e, pn, "Past") /\ UNCHANGED broken
      BY <2>0, <2>1 DEF FindPast
    <3>2. Finds(e, pn, "Past")
      BY <1>3, <2>1, <3>1 DEF Finds, Seeks
    <3> QED BY <1>0, <3>1, <3>2
  <2>2. CASE published[pn] = NoSlot /\ published[ev[e].now.present] = NoSlot
    BY <1>3, <2>0, <2>2 DEF FindPast, Misses
  <2>3. CASE published[pn] = NoSlot /\ published[ev[e].now.present] # NoSlot
    <3>1. /\ \/ GetAntiquePulseSlotMachine(e)
             \/ Refuse(e) /\ UNCHANGED <<slots, published>>
          /\ UNCHANGED broken
      BY <2>0, <2>3 DEF FindPast
    <3> QED BY <1>1, <1>3, <3>1
  <2> QED BY <2>1, <2>2, <2>3
<1>4. CASE ev[e].as = "Antique"
  <2>1. GetAntiquePulseSlotMachine(e) /\ UNCHANGED broken
    BY <1>4 DEF FindSlot
  <2> QED BY <1>1, <1>4, <2>1
<1>5. CASE ev[e].as = "Future"
  <2> DEFINE key == ev[e].now.future
  <2>1. GetFuturePulseSlotMachine(e) /\ UNCHANGED broken
    BY <1>5 DEF FindSlot
  <2>2. Seeks(e, key, "Future")
    BY <1>5 DEF Seeks
  <2>3. Finds(e, key, "Future") \/ Publishes(e, key, "Future")
    BY <2>1, <2>2 DEF GetFuturePulseSlotMachine, GetOrPublish, Finds, Publishes, SlotFor
  <2> QED BY <1>0, <2>1, <2>3
<1> QED BY <1>0, <1>2, <1>3, <1>4, <1>5

\* What AddInput makes of the number pn: the event keeps the pulses it has read.
Maps(e, pn) ==
    /\ pulses' = ev'[e].now /\ ev'[e].now.present = pulses.present
    /\ pulses.future # LocalRelative => pulses' = pulses
    /\ pulses.future = LocalRelative =>
          pulses.present = Unknown /\ pulses'.future = pn /\ pn \in Pulses
    /\ ev'[e].pc = "mapped" /\ ev'[e].late = ev[e].late
    /\ ev'[e].early <=> pulses.present = Unknown
    /\ ev'[e].as \in {"Present", "Past", "Future"}
    /\ pulses.present = Unknown => ev'[e].as = "Future"
    /\ ev'[e].as = "Present" => ev'[e].pn = pulses.present
    /\ ev'[e].as = "Past" => ev'[e].pn # Unknown /\ ev'[e].pn < pulses.present

LEMMA MapToPulseEffect ==
    ASSUME PulsesTyped, EventsTyped, NEW in \in Inputs, MapToPulse(in[1], in[2])
    PROVE  /\ in[1] \in Events /\ ev[in[1]].pc = "none"
           /\ ev' \in [Events -> EventType]
           /\ \A d \in Events : d # in[1] => ev'[d] = ev[d]
           /\ \/ Refuse(in[1]) /\ UNCHANGED pulses
              \/ Maps(in[1], in[2])
<1> DEFINE e == in[1]
           pn == in[2]
           as == MapAs(pulses, pn)
           now == [pulses EXCEPT !.future = IF pulses.future = LocalRelative THEN pn
                                            ELSE pulses.future]
           target == IF pn # Unknown THEN pn
                     ELSE IF as = "Present" THEN now.present ELSE now.future
<1>0. /\ e \in Events /\ pn \in 0 .. LastPulse + 2 * Delta /\ pulses \in NowType
      /\ ev \in [Events -> EventType] /\ ev[e] \in EventType
      /\ LastPulse \in Nat /\ Delta \in Nat
  BY ConveyorAssumption DEF PulsesTyped, EventsTyped
<1>1. /\ as \in {"Invalid", "Present", "Past", "Future"}
      /\ as # "Invalid" /\ pulses.future = LocalRelative => pn # Unknown
      /\ pulses.present = Unknown => as \in {"Invalid", "Future"}
      /\ as = "Present" => pn \in {Unknown, pulses.present}
      /\ as = "Past" => pn # Unknown /\ pn < pulses.present
  <2>1. CASE pulses.present = Unknown
    BY <2>1 DEF MapAs
  <2>2. CASE pulses.present # Unknown
    <3>0. pulses.future # LocalRelative
      BY <2>2 DEF PulsesTyped
    <3> DEFINE far == IsAllowedFutureSpan(pulses, pn)
    <3>1. as = CASE pn \in {Unknown, pulses.present} -> "Present"
                 [] pn # Unknown /\ pn < pulses.present -> "Past"
                 [] far -> "Future"
                 [] OTHER -> "Invalid"
      BY <2>2 DEF MapAs
    <3> HIDE DEF far, as
    <3> QED BY <3>0, <3>1, <2>2
  <2> QED BY <2>1, <2>2
<1>2. CASE as = "Invalid"
  <2>1. Refuse(e) /\ UNCHANGED pulses /\ ev[e].pc = "none"
    BY <1>2 DEF MapToPulse
  <2> QED BY <2>1, <1>0, RefuseEffect DEF Moves
<1>3. CASE as # "Invalid"
  <2>1. /\ pulses' = now /\ ev[e].pc = "none"
        /\ ev' = [ev EXCEPT ![e] = [ev[e] EXCEPT !.pc = "mapped", !.pn = target, !.as = as,
                                        !.now = now, !.early = now.present = Unknown]]
    BY <1>3 DEF MapToPulse
  <2>2. /\ now \in NowType /\ now.present = pulses.present
        /\ now.future # LocalRelative
        /\ pulses.future # LocalRelative => now = pulses
        /\ pulses.future = LocalRelative => now.future = pn /\ pn \in Pulses
    BY <1>0, <1>1, <1>3, KeysAre DEF NowType, Unknown, LocalRelative
  <2>3. /\ target \in Keys \ {LocalRelative}
        /\ as = "Present" => target = pulses.present
        /\ as = "Past" => target # Unknown /\ target < pulses.present
    <3>1. pn \in Keys \ {LocalRelative}
      BY <1>0, KeysAre DEF LocalRelative
    <3>2. pulses.present \in Keys \ {LocalRelative}
      BY <1>0, KeysAre, ConveyorAssumption DEF NowType, Unknown, LocalRelative
    <3>3. now.future \in Keys \ {LocalRelative}
      BY <2>2, KeysAre DEF NowType, LocalRelative
    <3> HIDE DEF now, as
    <3> QED BY <3>1, <3>2, <3>3, <2>2, <1>1, <1>3
  <2>4. pulses.future = LocalRelative => pulses.present = Unknown
    BY DEF PulsesTyped
  <2> HIDE DEF now, as, target
  <2>5. /\ ev' \in [Events -> EventType] /\ \A d \in Events : d # e => ev'[d] = ev[d]
        /\ ev'[e].pc = "mapped" /\ ev'[e].pn = target /\ ev'[e].as = as /\ ev'[e].now = now
        /\ ev'[e].early <=> now.present = Unknown
        /\ ev'[e].late = ev[e].late
    BY <1>0, <1>1, <1>3, <2>1, <2>2, <2>3 DEF EventType, States
  <2>6. Maps(e, pn)
    BY <1>1, <1>3, <2>1, <2>2, <2>3, <2>4, <2>5 DEF Maps
  <2> QED BY <1>0, <2>1, <2>5, <2>6
<1> QED BY <1>2, <1>3

-----------------------------------------------------------------------------
(***************************************************************************)
(* What the steps do to slots.                                             *)
(***************************************************************************)
\* Only the slot i changes.
OneSlot(i) ==
    /\ slots' \in Seq(SlotType) /\ Len(slots') = Len(slots) /\ DOMAIN slots' = DOMAIN slots
    /\ \A j \in DOMAIN slots : j # i => slots'[j] = slots[j]

KeepsRange(i) == slots'[i].st = slots[i].st /\ slots'[i].range = slots[i].range

LEMMA ActivateSlotSlots ==
    ASSUME EventsTyped, SlotsTyped, NEW e \in Events, ActivateSlot(e)
    PROVE  LET i == ev[e].slot IN
           /\ i \in DOMAIN slots /\ OneSlot(i) /\ KeepsRange(i)
           /\ slots'[i].life = "added" /\ slots'[i].mig = slots[i].mig
           /\ slots'[i].unpub = IF ev[e].as = "Antique" THEN Unknown ELSE ev[e].now.future
<1> DEFINE i == ev[e].slot
           key == IF ev[e].as = "Antique" THEN Unknown ELSE ev[e].now.future
           s == [slots[i] EXCEPT !.life = "added", !.unpub = key]
<1>1. i \in DOMAIN slots /\ key \in Keys
  <2>1. ev[e] \in EventType
    BY DEF EventsTyped
  <2> QED BY <2>1, KeysAre DEF EventsTyped, ActivateSlot, HasSlot, EventType, NowType, Keys
<1>2. slots[i] \in SlotType
  BY <1>1, SlotsAre
<1>3. slots' = [slots EXCEPT ![i] = s]
  BY DEF ActivateSlot
<1>4. s \in SlotType /\ s.life = "added" /\ s.unpub = key /\ s.st = slots[i].st
      /\ s.range = slots[i].range /\ s.mig = slots[i].mig
  <2> HIDE DEF key, i
  <2> QED BY <1>1, <1>2 DEF SlotType, Lives
<1> HIDE DEF s, key, i
<1>5. OneSlot(i) /\ slots'[i] = s
  BY <1>1, <1>3, <1>4, SlotChanged DEF SlotsTyped, OneSlot
<1> QED BY <1>1, <1>4, <1>5 DEF KeepsRange, i, key

LEMMA InitSlotEffect ==
    ASSUME SlotsTyped, NEW i \in DOMAIN slots, InitSlot(i)
    PROVE  /\ OneSlot(i) /\ KeepsRange(i) /\ slots[i].life = "added"
           /\ slots'[i].life = "live" /\ slots'[i].mig = slots[i].st
           /\ slots'[i].unpub = slots[i].unpub
<1> DEFINE s == [slots[i] EXCEPT !.life = "live", !.mig = slots[i].st]
<1>1. slots[i] \in SlotType
  BY SlotsAre
<1>2. slots' = [slots EXCEPT ![i] = s] /\ slots[i].life = "added"
  BY DEF InitSlot
<1>3. s \in SlotType /\ s.life = "live" /\ s.mig = slots[i].st /\ s.st = slots[i].st
      /\ s.range = slots[i].range /\ s.unpub = slots[i].unpub
  BY <1>1 DEF SlotType, Lives
<1> HIDE DEF s
<1>4. OneSlot(i) /\ slots'[i] = s
  BY <1>2, <1>3, SlotChanged DEF SlotsTyped, OneSlot
<1> QED BY <1>2, <1>3, <1>4 DEF KeepsRange

LEMMA OnTerminateEffect ==
    ASSUME SlotsTyped, NEW i \in DOMAIN slots, OnTerminate(i)
    PROVE  /\ OneSlot(i) /\ KeepsRange(i) /\ slots[i].life = "dead"
           /\ slots'[i].life = "gone" /\ slots'[i].mig = slots[i].mig
           /\ slots'[i].unpub = slots[i].unpub
           /\ published' \in [Keys -> 0 .. Len(slots)]
           /\ \A k \in Keys : \/ published'[k] = published[k]
                              \/ k = slots[i].unpub /\ k # LocalRelative
                                 /\ published'[k] = NoSlot
<1> DEFINE s == [slots[i] EXCEPT !.life = "gone"]
<1>1. slots[i] \in SlotType
  BY SlotsAre
<1>2. slots' = [slots EXCEPT ![i] = s] /\ slots[i].life = "dead"
  BY DEF OnTerminate
<1>3. s \in SlotType /\ s.life = "gone" /\ s.mig = slots[i].mig /\ s.st = slots[i].st
      /\ s.range = slots[i].range /\ s.unpub = slots[i].unpub
  BY <1>1 DEF SlotType, Lives
<1> HIDE DEF s
<1>4. OneSlot(i) /\ slots'[i] = s
  BY <1>2, <1>3, SlotChanged DEF SlotsTyped, OneSlot
<1>5. published \in [Keys -> 0 .. Len(slots)] /\ slots[i].unpub \in Keys
      /\ Len(slots) \in Nat
  BY <1>1, SlotsAre DEF SlotsTyped, SlotType
<1>6. /\ published' \in [Keys -> 0 .. Len(slots)]
      /\ \A k \in Keys : \/ published'[k] = published[k]
                         \/ k = slots[i].unpub /\ k # LocalRelative
                            /\ published'[k] = NoSlot
  <2>1. CASE slots[i].unpub = LocalRelative
    BY <2>1, <1>5 DEF OnTerminate
  <2>2. CASE slots[i].unpub # LocalRelative
    <3>1. published' = [published EXCEPT ![slots[i].unpub] = NoSlot]
      BY <2>2 DEF OnTerminate
    <3> QED BY <2>2, <3>1, <1>5 DEF NoSlot
  <2> QED BY <2>1, <2>2
<1> QED BY <1>2, <1>3, <1>4, <1>6 DEF KeepsRange

LEMMA SetPastEffect ==
    ASSUME SlotsTyped, NEW i \in DOMAIN slots, slots' = SetPast(i)
    PROVE  /\ OneSlot(i) /\ slots'[i].st = "Past" /\ slots'[i].range = slots[i].range
           /\ slots'[i].life = slots[i].life /\ slots'[i].mig = slots[i].mig
           /\ slots'[i].unpub = slots[i].unpub
<1> DEFINE s == [slots[i] EXCEPT !.st = "Past"]
<1>1. slots[i] \in SlotType /\ i # NoSlot
  BY SlotsAre DEF NoSlot
<1>2. slots' = [slots EXCEPT ![i] = s]
  BY <1>1 DEF SetPast
<1>3. s \in SlotType /\ s.st = "Past" /\ s.range = slots[i].range /\ s.life = slots[i].life
      /\ s.mig = slots[i].mig /\ s.unpub = slots[i].unpub
  BY <1>1 DEF SlotType, States
<1> HIDE DEF s
<1>4. OneSlot(i) /\ slots'[i] = s
  BY <1>2, <1>3, SlotChanged DEF SlotsTyped, OneSlot
<1> QED BY <1>3, <1>4

-----------------------------------------------------------------------------
(***************************************************************************)
(* What a pulse change does.                                               *)
(***************************************************************************)
LEMMA BeatsAre ==
    ASSUME NEW b \in Beats
    PROVE  /\ pulses.present = Unknown => b[1] = FirstPulse /\ b[2] = FALSE
           /\ pulses.present # Unknown =>
                 /\ b[2] \in BOOLEAN
                 /\ \/ b[1] = pulses.future /\ b[2] = FALSE
                    \/ b[1] = pulses.future + Delta
<1>1. CASE pulses.present = Unknown
  <2>1. b \in {<<FirstPulse, FALSE>>}
    BY <1>1 DEF Beats
  <2>2. b = <<FirstPulse, FALSE>>
    BY <2>1
  <2> QED BY <1>1, <2>2
<1>2. CASE pulses.present # Unknown
  <2>1. b \in {<<pulses.future, FALSE>>} \cup ({pulses.future + Delta} \X BOOLEAN)
    BY <1>2 DEF Beats
  <2>2. CASE b = <<pulses.future, FALSE>>
    BY <1>2, <2>2
  <2>3. CASE b \in {pulses.future + Delta} \X BOOLEAN
    BY <1>2, <2>3
  <2> QED BY <2>1, <2>2, <2>3
<1> QED BY <1>1, <1>2

LEMMA CommitRangeTyped ==
    ASSUME PulsesTyped, NEW b \in Beats, b[1] <= LastPulse
    PROVE  LET r == CommitBeatRange(b[1], b[2]) IN
           /\ r \in RangeType /\ r.right = b[1] /\ r.known \subseteq Pulses
           /\ b[1] \in Pulses
           /\ pulses.present = Unknown => r = FirstRange /\ b[1] = FirstPulse
<1>0. /\ Delta \in Nat \ {0} /\ FirstPulse \in Nat /\ LastPulse \in Nat /\ FirstPulse > Delta
      /\ pulses.present \in Pulses \cup {Unknown}
      /\ pulses.present # Unknown => pulses.future \in Pulses
  BY ConveyorAssumption DEF PulsesTyped, NowType
<1>1. CASE pulses.present = Unknown
  <2>1. b[1] = FirstPulse /\ b[2] = FALSE
    BY <1>1, BeatsAre
  <2>2. CommitBeatRange(b[1], b[2]) = FirstRange
    BY <1>1, <2>1 DEF CommitBeatRange, FirstRange
  <2>3. FirstPulse \in Pulses
    BY <1>0, <2>1, KeysAre
  <2> QED BY <1>0, <2>1, <2>2, <2>3, RangesTyped DEF FirstRange, NewLeftGapRange, MinTimePulse
<1>2. CASE pulses.present # Unknown
  <2>1. b[1] \in {pulses.future, pulses.future + Delta}
    BY <1>2, BeatsAre
  <2>2. b[1] \in Pulses /\ b[1] \in Int /\ pulses.future \in Int /\ pulses.present \in Int
    BY <1>0, <1>2, <2>1, KeysAre DEF Unknown
  <2>3. CommitBeatRange(b[1], b[2]) \in
           {NewSequenceRange(pulses.future, b[1]), OnePulse(b[1]),
            NewLeftGapRange(pulses.present, b[1])}
    BY <1>2 DEF CommitBeatRange
  <2>4. NewSequenceRange(pulses.future, b[1]).known \subseteq Pulses
    <3>1. \A n \in pulses.future .. b[1] : n \in Pulses
      BY <1>0, <1>2, <2>2, KeysAre
    <3> QED BY <3>1 DEF NewSequenceRange
  <2>5. /\ NewSequenceRange(pulses.future, b[1]).right = b[1]
        /\ OnePulse(b[1]).right = b[1] /\ OnePulse(b[1]).known \subseteq Pulses
        /\ NewLeftGapRange(pulses.present, b[1]).right = b[1]
        /\ NewLeftGapRange(pulses.present, b[1]).known \subseteq Pulses
    BY <2>2 DEF NewSequenceRange, OnePulse, NewLeftGapRange
  <2>6. /\ NewSequenceRange(pulses.future, b[1]) \in RangeType
        /\ OnePulse(b[1]) \in RangeType
        /\ NewLeftGapRange(pulses.present, b[1]) \in RangeType
    BY <2>2, RangesTyped
  <2> QED BY <1>2, <2>2, <2>3, <2>4, <2>5, <2>6
<1> QED BY <1>1, <1>2

(* The range of a beat from the second pulse on: it starts at the expected *)
(* pulse, unless the beat has skipped pulses and brings no range.          *)
LEMMA CommitRangeFits ==
    ASSUME PulsesTyped, NEW b \in Beats, b[1] <= LastPulse,
           pulses.present # Unknown, pulses.future = pulses.present + Delta
    PROVE  LET r == CommitBeatRange(b[1], b[2]) IN
           /\ r.right \in {pulses.future, pulses.future + Delta}
           /\ \A n \in r.known : n >= pulses.future
           /\ \/ r.left = pulses.future /\ KnowsBounds(r)
              \/ r = NewLeftGapRange(pulses.present, pulses.future + Delta)
                 /\ r.left # pulses.future
<1> DEFINE P == pulses.present
           F == pulses.future
           r == CommitBeatRange(b[1], b[2])
<1>0. /\ Delta \in Nat \ {0} /\ P \in Pulses /\ F \in Pulses /\ P \in Int /\ F \in Int
      /\ F = P + Delta
  BY ConveyorAssumption, KeysAre DEF PulsesTyped, NowType
<1>1. CASE b[2] = FALSE /\ b[1] = F
  <2>1. b[1] - Delta = P
    BY <1>0, <1>1
  <2>2. r = OnePulse(F)
    BY <1>1, <2>1 DEF CommitBeatRange
  <2> QED BY <1>0, <2>2, <1>1 DEF OnePulse, KnowsBounds
<1>2. CASE b[2] = FALSE /\ b[1] = F + Delta
  <2>1. b[1] - Delta # P
    BY <1>0, <1>2
  <2>2. r = NewLeftGapRange(P, F + Delta)
    BY <1>2, <2>1 DEF CommitBeatRange
  <2> QED BY <1>0, <2>2 DEF NewLeftGapRange
<1>3. CASE b[2] = TRUE /\ b[1] = F + Delta
  <2>1. r = NewSequenceRange(F, F + Delta)
    BY <1>3 DEF CommitBeatRange
  <2>2. ((F + Delta) - F) % Delta = 0
    <3>1. (F + Delta) - F = Delta
      BY <1>0
    <3>2. Delta % Delta = 0
      BY <1>0
    <3> QED BY <3>1, <3>2
  <2>3. F \in F .. F + Delta
    BY <1>0
  <2>4. F \in r.known /\ \A n \in r.known : n >= F
    BY <1>0, <2>1, <2>2, <2>3 DEF NewSequenceRange
  <2>5. ASSUME NEW n \in r.known PROVE n \in {F, F + Delta}
    <3>1. n \in F .. F + Delta /\ ((F + Delta) - n) % Delta = 0
      BY <2>1 DEF NewSequenceRange
    <3> DEFINE m == (F + Delta) - n
    <3>2. m \in 0 .. Delta /\ m % Delta = 0
      BY <1>0, <3>1
    <3> HIDE DEF m
    <3>3. m = 0 \/ m = Delta
      BY <1>0, <3>2
    <3>4. n \in Int /\ F + Delta \in Int
      BY <1>0, <3>1
    <3>5. n = F + Delta \/ n = F
      BY <1>0, <3>3, <3>4 DEF m
    <3> QED BY <3>5
  <2> QED BY <1>0, <2>1, <2>4, <2>5 DEF NewSequenceRange, KnowsBounds
<1>4. b[2] \in BOOLEAN /\ ((b[1] = F /\ b[2] = FALSE) \/ b[1] = F + Delta)
  BY BeatsAre
<1> QED BY <1>1, <1>2, <1>3, <1>4

\* The pulse change starts: the present slot is past from now on.
Starts(r) ==
    /\ CommitChecks(r) /\ cache' = Put(cache, r) /\ slots' = SetPast(presentMachine)
    /\ preparing' = FALSE /\ UNCHANGED broken
    /\ commit' = [phase |-> "publish", range |-> r, future |-> pulses.future]
LEMMA CommitEffect ==
    ASSUME NEW b, CommitPulseChange(b[1], b[2])
    PROVE  LET r == CommitBeatRange(b[1], b[2]) IN
           /\ \/ Starts(r)
              \/ ~CommitChecks(r) /\ broken' /\ UNCHANGED <<slots, cache, preparing>>
                 /\ commit' = [commit EXCEPT !.range = r]
           /\ Working /\ CallsAreShort /\ acked' = FALSE
           /\ UNCHANGED <<pulses, published, unpublishPulse, presentMachine, earliestBound,
                          rollbacks, ev>>
BY DEF CommitPulseChange, Starts

\* The registry without the alias of the last pulse change.
Base(k) == IF k = unpublishPulse /\ k >= MinTimePulse THEN NoSlot ELSE published[k]

\* The slot i is the next present one: it was published for the expected pulse, or
\* it is new.  It is published under the expected pulse and under the one that came.
Promotes(i) ==
    LET r == commit.range
        key == commit.future
    IN
    /\ slots' \in Seq(SlotType) /\ DOMAIN slots' = DOMAIN slots \cup {i}
    /\ Len(slots) <= Len(slots')
    /\ \A j \in DOMAIN slots : j # i => slots'[j] = slots[j]
    /\ slots'[i].st = "Present" /\ slots'[i].range = r
    /\ i \in DOMAIN slots =>
          /\ Base(key) = i /\ slots[i].st = "Future"
          /\ slots'[i].life = slots[i].life /\ slots'[i].mig = slots[i].mig
          /\ slots'[i].unpub \in {slots[i].unpub, r.right}
    /\ i \notin DOMAIN slots =>
          /\ Base(key) = NoSlot /\ slots'[i].life = "added" /\ slots'[i].mig = "None"
          /\ slots'[i].unpub \in {LocalRelative, r.right}
    /\ published' \in [Keys -> 0 .. Len(slots')]
    /\ published'[key] = i /\ published'[r.right] = i
    /\ key # r.right => Base(r.right) = NoSlot
    /\ \A k \in Keys : k \notin {key, r.right} => published'[k] = Base(k)

\* The checks of _migratePulseSlots that panic.
Clashes ==
    \/ Base(commit.future) # NoSlot /\ slots[Base(commit.future)].st # "Future"
    \/ commit.future # commit.range.right /\ Base(commit.range.right) # NoSlot

LEMMA PublishPresentEffect ==
    ASSUME PulsesTyped, SlotsTyped, PublishPresent, commit.range.right \in Pulses
    PROVE  /\ \/ broken' /\ Clashes /\ UNCHANGED <<slots, published, presentMachine>>
              \/ UNCHANGED broken /\ \E i \in Nat \ {NoSlot} :
                    Promotes(i) /\ presentMachine' = i
           /\ commit.phase = "publish" /\ ~broken
           /\ commit' = [commit EXCEPT !.phase = "route"]
           /\ unpublishPulse' = IF commit.future # commit.range.right THEN commit.future
                                ELSE Unknown
<1> DEFINE r == commit.range
           key == commit.future
           base == IF unpublishPulse >= MinTimePulse
                   THEN [published EXCEPT ![unpublishPulse] = NoSlot] ELSE published
           i == IF base[key] = NoSlot THEN Len(slots) + 1 ELSE base[key]
           alias == key # r.right
           fresh == [NewSlot("Present", r) EXCEPT !.life = "added"]
           made == IF base[key] = NoSlot THEN Append(slots, fresh)
                   ELSE [slots EXCEPT ![i].st = "Present", ![i].range = r]
           pub == [base EXCEPT ![key] = i]
           bad == \/ i <= Len(slots) /\ slots[i].st # "Future"
                  \/ alias /\ pub[r.right] # NoSlot
<1>0. /\ r \in RangeType /\ key \in Keys /\ r.right \in Keys /\ r.right # LocalRelative
      /\ unpublishPulse \in Keys
      /\ Len(slots) \in Nat /\ DOMAIN slots = 1 .. Len(slots) /\ slots \in Seq(SlotType)
      /\ published \in [Keys -> 0 .. Len(slots)]
  <2>1. LocalRelative \in Keys /\ LocalRelative \notin Pulses
    BY KeysAre DEF Keys, LocalRelative
  <2> QED BY <2>1, KeysAre, SlotsAre DEF PulsesTyped, CommitType, SlotsTyped
<1>1. /\ base \in [Keys -> 0 .. Len(slots)]
      /\ \A k \in Keys : base[k] = Base(k)
  BY <1>0 DEF Base, NoSlot
<1>2. commit.phase = "publish" /\ ~broken /\ commit' = [commit EXCEPT !.phase = "route"]
      /\ unpublishPulse' = IF alias THEN key ELSE Unknown
  BY DEF PublishPresent
<1>3. IF bad THEN broken' = TRUE /\ UNCHANGED <<slots, published, presentMachine>>
      ELSE /\ slots' = IF alias THEN [made EXCEPT ![i].unpub = r.right] ELSE made
           /\ published' = IF alias THEN [pub EXCEPT ![r.right] = i] ELSE pub
           /\ presentMachine' = i
           /\ UNCHANGED broken
  BY DEF PublishPresent
<1> HIDE DEF base
<1>4. i \in Nat \ {NoSlot} /\ (base[key] # NoSlot => i \in DOMAIN slots)
      /\ (base[key] = NoSlot => i = Len(slots) + 1)
  BY <1>0, <1>1 DEF NoSlot
<1>5. /\ pub \in [Keys -> 0 .. Len(slots) + 1] /\ pub[key] = i
      /\ \A k \in Keys : k # key => pub[k] = Base(k)
  BY <1>0, <1>1, <1>4
<1>6. ASSUME bad PROVE Clashes
  <2>1. CASE i <= Len(slots) /\ slots[i].st # "Future"
    <3>1. base[key] # NoSlot
      BY <2>1, <1>0, <1>4
    <3> QED BY <3>1, <2>1, <1>0, <1>1 DEF Clashes
  <2>2. CASE alias /\ pub[r.right] # NoSlot
    BY <2>2, <1>0, <1>5 DEF Clashes
  <2> QED BY <1>6, <2>1, <2>2
<1>7. ASSUME ~bad PROVE Promotes(i) /\ presentMachine' = i /\ UNCHANGED broken
  <2>1. /\ slots' = IF alias THEN [made EXCEPT ![i].unpub = r.right] ELSE made
        /\ published' = IF alias THEN [pub EXCEPT ![r.right] = i] ELSE pub
        /\ presentMachine' = i /\ UNCHANGED broken
    BY <1>3, <1>7
  <2>2. CASE base[key] = NoSlot
    <3> DEFINE s == IF alias THEN [fresh EXCEPT !.unpub = r.right] ELSE fresh
    <3>1. /\ s \in SlotType /\ s.st = "Present" /\ s.range = r /\ s.life = "added"
          /\ s.mig = "None" /\ s.unpub \in {LocalRelative, r.right}
      <4>1. LocalRelative \in Keys
        BY DEF Keys
      <4> QED BY <1>0, <4>1 DEF SlotType, NewSlot, Lives, States
    <3>2. slots' = Append(slots, s) /\ i = Len(slots) + 1
      <4>1. fresh \in SlotType
        BY <1>0 DEF SlotType, NewSlot, Lives, States, Keys
      <4>2. made = Append(slots, fresh)
        BY <2>2
      <4>3. i = Len(slots) + 1
        BY <1>4, <2>2
      <4> HIDE DEF fresh, made, i
      <4>4. CASE alias
        <5>1. slots' = [Append(slots, fresh) EXCEPT ![Len(slots) + 1] =
                          [Append(slots, fresh)[Len(slots) + 1] EXCEPT !.unpub = r.right]]
          BY <2>1, <4>2, <4>3, <4>4
        <5>2. Append(slots, fresh)[Len(slots) + 1] = fresh
          BY <4>1, <1>0, SlotAppended
        <5>3. slots' = [Append(slots, fresh) EXCEPT ![Len(slots) + 1] = s]
          BY <5>1, <5>2, <4>4
        <5> HIDE DEF s
        <5>4. [Append(slots, fresh) EXCEPT ![Len(slots) + 1] = s] = Append(slots, s)
          BY <4>1, <3>1, <1>0, AppendChanged
        <5> QED BY <5>3, <5>4, <4>3
      <4>5. CASE ~alias
        BY <2>1, <4>2, <4>3, <4>5
      <4> QED BY <4>4, <4>5
    <3> HIDE DEF s
    <3>3. /\ slots' \in Seq(SlotType) /\ DOMAIN slots' = DOMAIN slots \cup {i}
          /\ Len(slots') = Len(slots) + 1 /\ i \notin DOMAIN slots
          /\ \A j \in DOMAIN slots : j # i => slots'[j] = slots[j]
          /\ slots'[i] = s
      BY <3>1, <3>2, <1>0, SlotAppended
    <3>4. /\ published' \in [Keys -> 0 .. Len(slots')]
          /\ published'[key] = i /\ published'[r.right] = i
          /\ key # r.right => Base(r.right) = NoSlot
          /\ \A k \in Keys : k \notin {key, r.right} => published'[k] = Base(k)
      <4> HIDE DEF pub, i
      <4>1. pub[r.right] = NoSlot \/ ~alias
        BY <1>7
      <4> QED BY <2>1, <4>1, <1>0, <1>4, <1>5, <3>2, <3>3
    <3>5. Base(key) = NoSlot
      BY <2>2, <1>0, <1>1
    <3> HIDE DEF i
    <3>6. Len(slots) <= Len(slots')
      BY <3>3, <1>0
    <3>7. Promotes(i)
      BY <3>1, <3>3, <3>4, <3>5, <3>6 DEF Promotes
    <3> QED BY <2>1, <3>7
  <2>3. CASE base[key] # NoSlot
    <3> DEFINE s == IF alias THEN [slots[i] EXCEPT !.st = "Present", !.range = r,
                                                   !.unpub = r.right]
                    ELSE [slots[i] EXCEPT !.st = "Present", !.range = r]
    <3>0. i \in DOMAIN slots /\ slots[i] \in SlotType /\ slots[i].st = "Future" /\ i = base[key]
      BY <1>0, <1>4, <2>3, <1>7
    <3>1. /\ s \in SlotType /\ s.st = "Present" /\ s.range = r /\ s.life = slots[i].life
          /\ s.mig = slots[i].mig /\ s.unpub \in {slots[i].unpub, r.right}
      <4> HIDE DEF i
      <4> QED BY <3>0, <1>0 DEF SlotType, States
    <3>2. slots' = [slots EXCEPT ![i] = s]
      <4>1. made = [slots EXCEPT ![i].st = "Present", ![i].range = r]
        BY <2>3
      <4> HIDE DEF made, i
      <4>2. CASE alias
        BY <2>1, <4>1, <4>2, <3>0, <1>0
      <4>3. CASE ~alias
        BY <2>1, <4>1, <4>3, <3>0, <1>0
      <4> QED BY <4>2, <4>3
    <3> HIDE DEF s
    <3>3. /\ slots' \in Seq(SlotType) /\ DOMAIN slots' = DOMAIN slots
          /\ Len(slots') = Len(slots)
          /\ \A j \in DOMAIN slots : j # i => slots'[j] = slots[j]
          /\ slots'[i] = s
      <4> HIDE DEF i
      <4> QED BY <3>0, <3>1, <3>2, <1>0, SlotChanged
    <3>4. /\ published' \in [Keys -> 0 .. Len(slots')]
          /\ published'[key] = i /\ published'[r.right] = i
          /\ key # r.right => Base(r.right) = NoSlot
          /\ \A k \in Keys : k \notin {key, r.right} => published'[k] = Base(k)
      <4>1. pub \in [Keys -> 0 .. Len(slots)]
        <5> HIDE DEF i
        <5> QED BY <1>0, <1>1, <3>0
      <4> HIDE DEF pub, i
      <4>2. pub[r.right] = NoSlot \/ ~alias
        BY <1>7
      <4> QED BY <2>1, <4>1, <4>2, <1>0, <1>4, <1>5, <3>0, <3>3
    <3>5. Base(key) = i
      <4> HIDE DEF i
      <4> QED BY <3>0, <1>0, <1>1
    <3> HIDE DEF i
    <3>6. DOMAIN slots' = DOMAIN slots \cup {i}
      BY <3>0, <3>3
    <3>7. Len(slots) <= Len(slots')
      BY <3>3, <1>0
    <3>8. Promotes(i)
      BY <3>0, <3>1, <3>3, <3>4, <3>5, <3>6, <3>7 DEF Promotes
    <3> QED BY <2>1, <3>8
  <2> QED BY <2>2, <2>3
<1> HIDE DEF i, bad
<1> QED BY <1>2, <1>3, <1>4, <1>6, <1>7

\* The migration of a slot: its handler moves on, and the one of a past slot stops
\* the slot when no event is left in it.
Migrated(i) ==
    /\ slots'[i] \in SlotType
    /\ KeepsRange(i) /\ slots'[i].unpub = slots[i].unpub
    /\ slots[i].life # "live" => slots'[i] = slots[i]
    /\ slots[i].life = "live" =>
          /\ slots'[i].life \in {"live", "dead"}
          /\ slots'[i].life = "dead" => slots[i].mig = "Past" /\ Content(i) = {}
          /\ slots'[i].mig = CASE slots[i].mig = "Future" -> "Present"
                               [] slots[i].mig = "Present" -> "Past"
                               [] OTHER -> slots[i].mig

\* The migration of an event: one that waits is woken, or it fails.
Woken(e) ==
    /\ ev'[e].pn = ev[e].pn /\ ev'[e].now = ev[e].now /\ ev'[e].early = ev[e].early
    /\ ev'[e].slot = ev[e].slot /\ ev'[e].as = ev[e].as /\ ev'[e].wrap = ev[e].wrap
    /\ ev'[e].late <=> InCall(e)
    /\ \/ ev'[e].pc = ev[e].pc
       \/ ev[e].pc \in {"waiting", "woken"} /\ ev'[e].pc \in {"woken", "failed"}

Routes ==
    /\ commit.range.right >= pulses.future
    /\ pulses' = [present |-> commit.range.right, future |-> commit.range.right + Delta]
    /\ cache' = EvictAndRotate(cache, commit.range.right)
    /\ earliestBound' \in {commit.range.right, earliestBound}
    /\ slots' \in Seq(SlotType) /\ Len(slots') = Len(slots) /\ DOMAIN slots' = DOMAIN slots
    /\ \A i \in DOMAIN slots : Migrated(i)
    /\ ev' \in [Events -> EventType]
    /\ \A e \in Events : Woken(e)
    /\ UNCHANGED broken

LEMMA MigrateSlotEffect ==
    ASSUME NEW i, slots[i] \in SlotType, slots'[i] = MigrateSlot(i, slots[i])
    PROVE  Migrated(i)
<1> DEFINE s == slots[i]
<1>1. CASE s.life # "live"
  BY <1>1 DEF MigrateSlot, Migrated, KeepsRange
<1>2. CASE s.life = "live" /\ s.mig = "Future"
  <2>1. slots'[i] = [s EXCEPT !.mig = "Present"]
    BY <1>2 DEF MigrateSlot
  <2> QED BY <1>2, <2>1 DEF Migrated, KeepsRange, SlotType, States
<1>3. CASE s.life = "live" /\ s.mig = "Present"
  <2>1. slots'[i] = [s EXCEPT !.mig = "Past"]
    BY <1>3 DEF MigrateSlot
  <2> QED BY <1>3, <2>1 DEF Migrated, KeepsRange, SlotType, States
<1>4. CASE s.life = "live" /\ s.mig = "Past" /\ StopIfEmpty(i)
  <2>1. slots'[i] = [s EXCEPT !.life = "dead"]
    BY <1>4 DEF MigrateSlot
  <2> QED BY <1>4, <2>1 DEF Migrated, KeepsRange, SlotType, Lives, StopIfEmpty
<1>5. CASE s.life = "live" /\ s.mig = "Past" /\ ~StopIfEmpty(i)
  <2>1. slots'[i] = s
    BY <1>5 DEF MigrateSlot
  <2> QED BY <1>5, <2>1 DEF Migrated, KeepsRange
<1>6. CASE s.life = "live" /\ s.mig \notin {"Future", "Present", "Past"}
  <2>1. slots'[i] = s
    BY <1>6 DEF MigrateSlot
  <2> QED BY <1>6, <2>1 DEF Migrated, KeepsRange
<1> QED BY <1>1, <1>2, <1>3, <1>4, <1>5, <1>6

LEMMA RouteAndMigrateEffect ==
    ASSUME PulsesTyped, SlotsTyped, EventsTyped, RouteAndMigrate
    PROVE  /\ \/ Routes
              \/ /\ commit.range.right < pulses.future /\ broken'
                 /\ UNCHANGED <<pulses, cache, earliestBound, ev, slots>>
           /\ commit.phase = "route" /\ ~broken /\ commit' = Idle
           /\ UNCHANGED <<published, unpublishPulse, presentMachine, preparing, acked,
                          rollbacks>>
<1> DEFINE right == commit.range.right
           now == [present |-> right, future |-> right + Delta]
           pc(e) == InnerMigrate(e, now)
<1>1. /\ commit.phase = "route" /\ ~broken /\ commit' = Idle
      /\ UNCHANGED <<published, unpublishPulse, presentMachine, preparing, acked, rollbacks>>
  BY DEF RouteAndMigrate
<1>2. CASE right < pulses.future
  BY <1>1, <1>2 DEF RouteAndMigrate
<1>3. CASE ~(right < pulses.future)
  <2>1. /\ pulses' = now /\ cache' = EvictAndRotate(cache, right) /\ UNCHANGED broken
        /\ earliestBound' \in {right, earliestBound}
        /\ slots' = [i \in DOMAIN slots |-> MigrateSlot(i, slots[i])]
        /\ ev' = [e \in Events |-> [ev[e] EXCEPT !.pc = pc(e), !.late = InCall(e)]]
    BY <1>3 DEF RouteAndMigrate
  <2>2. DOMAIN slots = 1 .. Len(slots) /\ Len(slots) \in Nat
        /\ \A i \in DOMAIN slots : slots[i] \in SlotType
    BY SlotsAre
  <2>3. \A i \in DOMAIN slots : Migrated(i)
    <3>1. \A i \in DOMAIN slots : slots'[i] = MigrateSlot(i, slots[i])
      BY <2>1
    <3> QED BY <2>2, <3>1, MigrateSlotEffect
  <2>4. slots' \in Seq(SlotType) /\ Len(slots') = Len(slots) /\ DOMAIN slots' = DOMAIN slots
    <3>1. \A i \in DOMAIN slots : slots'[i] \in SlotType
      BY <2>3 DEF Migrated
    <3>2. slots' \in [1 .. Len(slots) -> SlotType]
      BY <3>1, <2>1, <2>2
    <3> QED BY <2>2, <3>2, FunctionIsSequence
  <2>5. ASSUME NEW e \in Events
        PROVE  ev'[e] \in EventType /\ Woken(e)
    <3>1. ev[e] \in EventType
      BY DEF EventsTyped
    <3>2. \/ pc(e) = ev[e].pc
          \/ ev[e].pc \in {"waiting", "woken"} /\ pc(e) \in {"woken", "failed"}
      BY DEF InnerMigrate
    <3>3. InCall(e) \in BOOLEAN
      BY DEF InCall
    <3> HIDE DEF pc
    <3>4. ev'[e] = [ev[e] EXCEPT !.pc = pc(e), !.late = InCall(e)]
      BY <2>1
    <3> QED BY <3>1, <3>2, <3>3, <3>4 DEF EventType, Woken, Inside
  <2>6. ev' \in [Events -> EventType]
    <3> HIDE DEF pc
    <3> QED BY <2>1, <2>5
  <2>7. right >= pulses.future
    <3>1. right \in Int /\ pulses.future \in Int
      BY KeysAre DEF PulsesTyped, CommitType, RangeType, NowType, LocalRelative
    <3> QED BY <1>3, <3>1
  <2>8. Routes
    BY <2>1, <2>3, <2>4, <2>5, <2>6, <2>7 DEF Routes
  <2> QED BY <1>1, <2>8
<1> QED BY <1>2, <1>3

-----------------------------------------------------------------------------
(***************************************************************************)
(* The types are kept.                                                     *)
(***************************************************************************)
LEMMA EventMoveTyped ==
    ASSUME EventsTyped, NEW e \in Events, Moves(e), DOMAIN slots \subseteq DOMAIN slots',
           HasSlot(e)' => ev'[e].slot \in DOMAIN slots'
    PROVE  EventsTyped'
<1>1. \A d \in Events : d # e => (HasSlot(d)' <=> HasSlot(d)) /\ ev'[d].slot = ev[d].slot
  BY DEF Moves, HasSlot
<1> QED BY <1>1 DEF EventsTyped, Moves

LEMMA TouchTyped ==
    ASSUME NEW c \in CacheType, NEW S \in SUBSET Pulses
    PROVE  Touch(c, S) \in CacheType /\ Touch(c, S).data = c.data
BY DEF Touch, CacheType

(* The pulse that is committed is one of the pulses. *)
LEMMA CommitRight ==
    ASSUME PulsesTyped, Orderly, commit.phase # "idle"
    PROVE  /\ commit.range.right \in Pulses /\ commit.range.right <= LastPulse
           /\ commit.range.right >= FirstPulse
<1>0. /\ FirstPulse \in Nat /\ LastPulse \in Nat /\ Delta \in Nat \ {0} /\ FirstPulse > Delta
      /\ commit.range.right \in Int
  BY ConveyorAssumption DEF PulsesTyped, CommitType, RangeType
<1>1. CASE pulses.present = Unknown
  <2>1. commit.range = FirstRange /\ FirstPulse <= LastPulse
    BY <1>1 DEF Orderly, BeforeFirst
  <2> QED BY <1>0, <2>1, KeysAre DEF FirstRange, NewLeftGapRange
<1>2. CASE pulses.present # Unknown
  <2>1. /\ commit.range.right \in {pulses.future, pulses.future + Delta}
        /\ commit.range.right <= LastPulse /\ pulses.future = pulses.present + Delta
        /\ pulses.present \in FirstPulse .. LastPulse
    BY <1>2 DEF Orderly, Running, CommitFits
  <2> QED BY <1>0, <2>1, KeysAre
<1> QED BY <1>1, <1>2

LEMMA InitTyped == ASSUME Init PROVE Typed
<1>1. /\ LocalRelative \in Keys /\ Unknown \in Keys
  BY DEF Keys
<1>2. slots \in Seq(SlotType) /\ Len(slots) = 0
  BY DEF Init
<1>3. PulsesTyped
  <2>1. Idle \in CommitType
    BY RangesTyped, ConveyorAssumption DEF Idle, CommitType
  <2>2. pulses \in NowType /\ pulses.present = Unknown /\ cache \in CacheType
    BY DEF Init, NowType, CacheType
  <2>3. presentMachine \in 0 .. Len(slots) /\ rollbacks \in 0 .. MaxRollbacks
    BY <1>2, ConveyorAssumption DEF Init, NoSlot
  <2> QED BY <1>1, <2>1, <2>2, <2>3 DEF Init, PulsesTyped
<1>4. SlotsTyped
  BY <1>2 DEF Init, SlotsTyped, NoSlot
<1>5. EventsTyped
  <2>1. NoEvent \in EventType
    BY <1>1 DEF NoEvent, EventType, NowType, NoSlot, Unknown, LocalRelative
  <2>2. \A e \in Events : ev[e] = NoEvent
    BY DEF Init
  <2>3. \A e \in Events : ev[e].pc = "none"
    BY <2>2 DEF NoEvent
  <2> QED BY <2>1, <2>3 DEF Init, EventsTyped, HasSlot, Inside
<1> QED BY <1>3, <1>4, <1>5 DEF Typed

LEMMA MapToPulseTyped ==
    ASSUME Typed, NEW in \in Inputs, MapToPulse(in[1], in[2])
    PROVE  Typed'
<1> DEFINE e == in[1]
<1>0. PulsesTyped /\ SlotsTyped /\ EventsTyped
  BY DEF Typed
<1>1. /\ e \in Events /\ ev' \in [Events -> EventType]
      /\ \A d \in Events : d # e => ev'[d] = ev[d]
      /\ UNCHANGED <<slots, published, cache, broken, unpublishPulse, presentMachine,
                     earliestBound, preparing, acked, commit, rollbacks>>
      /\ (Refuse(e) /\ UNCHANGED pulses) \/ Maps(e, in[2])
  BY <1>0, MapToPulseEffect DEF MapToPulse, WorkerState
<1>2. ~HasSlot(e)'
  <2>1. ev'[e].pc \in {"refused", "mapped"}
    BY <1>0, <1>1, RefuseEffect DEF Maps
  <2> QED BY <2>1 DEF HasSlot, Inside
<1>3. EventsTyped'
  <2>1. \A d \in Events : d # e => (HasSlot(d)' <=> HasSlot(d))
    BY <1>1 DEF HasSlot
  <2> QED BY <1>0, <1>1, <1>2, <2>1 DEF EventsTyped
<1>4. pulses' \in NowType /\ (pulses'.present # Unknown => pulses'.future # LocalRelative)
  <2>1. CASE UNCHANGED pulses
    BY <2>1, <1>0 DEF PulsesTyped
  <2>2. CASE Maps(e, in[2])
    <3>1. ev'[e] \in EventType
      BY <1>1
    <3> QED BY <1>0, <2>2, <3>1 DEF Maps, PulsesTyped, EventType
  <2> QED BY <1>1, <2>1, <2>2
<1>5. PulsesTyped' /\ SlotsTyped'
  BY <1>0, <1>1, <1>4 DEF PulsesTyped, SlotsTyped
<1> QED BY <1>3, <1>5 DEF Typed

LEMMA PublishesTyped ==
    ASSUME Typed, NEW e \in Events, NEW key \in Keys, NEW as \in States,
           PublishNew(e, key, as, SlotFor(key, as)), UNCHANGED <<pulses, cache, WorkerState, broken>>
    PROVE  Typed' /\ SlotFor(key, as) \in SlotType
<1>0. PulsesTyped /\ SlotsTyped /\ EventsTyped
  BY DEF Typed
<1>1. SlotFor(key, as) \in SlotType
  <2>1. key \in Int
    BY KeysAre
  <2> QED BY <2>1, RangesTyped, NewSlotTyped DEF SlotFor
<1>2. /\ Moves(e) /\ slots' = Append(slots, SlotFor(key, as))
      /\ published' = [published EXCEPT ![key] = Len(slots) + 1]
      /\ ev'[e].pc = "activate" /\ ev'[e].slot = Len(slots) + 1
  BY <1>0, <1>1, PublishNewEffect
<1>3. /\ slots' \in Seq(SlotType) /\ Len(slots') = Len(slots) + 1
      /\ DOMAIN slots' = DOMAIN slots \cup {Len(slots) + 1}
  <2>1. PICK s \in SlotType : s = SlotFor(key, as)
    BY <1>1
  <2>2. slots \in Seq(SlotType) /\ slots' = Append(slots, s)
    BY <1>0, <1>2, <2>1 DEF SlotsTyped
  <2>3. /\ Append(slots, s) \in Seq(SlotType) /\ Len(Append(slots, s)) = Len(slots) + 1
        /\ DOMAIN Append(slots, s) = DOMAIN slots \cup {Len(slots) + 1}
    BY <2>2, SlotAppended
  <2> QED BY <2>2, <2>3, Zenon
<1>4. EventsTyped'
  BY <1>0, <1>2, <1>3, EventMoveTyped
<1>5. SlotsTyped'
  <2>1. published \in [Keys -> 0 .. Len(slots)] /\ Len(slots) \in Nat
    BY <1>0, SlotsAre DEF SlotsTyped
  <2>2. published' \in [Keys -> 0 .. Len(slots')]
    BY <1>2, <1>3, <2>1
  <2> QED BY <1>3, <2>2 DEF SlotsTyped
<1>6. PulsesTyped'
  <2>1. 0 .. Len(slots) \subseteq 0 .. Len(slots')
    BY <1>0, <1>3, SlotsAre
  <2> QED BY <1>0, <2>1 DEF PulsesTyped, WorkerState
<1> QED BY <1>1, <1>4, <1>5, <1>6 DEF Typed

LEMMA FindSlotTyped ==
    ASSUME Typed, NEW e \in Events, ev[e].as # "None", FindSlot(e)
    PROVE  Typed'
<1>0. /\ PulsesTyped /\ SlotsTyped /\ EventsTyped
      /\ UNCHANGED <<pulses, cache, WorkerState>>
  BY DEF Typed, FindSlot
<1>1. CASE broken' /\ UNCHANGED <<ev, slots, published>>
  <2>1. PulsesTyped' /\ SlotsTyped'
    BY <1>0, <1>1 DEF PulsesTyped, SlotsTyped, WorkerState
  <2>2. EventsTyped'
    BY <1>0, <1>1 DEF EventsTyped, HasSlot
  <2> QED BY <2>1, <2>2 DEF Typed
<1>2. CASE Refuse(e) /\ UNCHANGED <<slots, published, broken>>
  <2>1. PulsesTyped' /\ SlotsTyped'
    BY <1>0, <1>2 DEF PulsesTyped, SlotsTyped, WorkerState
  <2>2. Moves(e) /\ ~HasSlot(e)'
    BY <1>0, <1>2, RefuseEffect DEF HasSlot, Inside
  <2>3. EventsTyped'
    BY <1>0, <1>2, <2>2, EventMoveTyped
  <2> QED BY <2>1, <2>3 DEF Typed
<1>3. ASSUME NEW key \in Keys, NEW as \in States, Finds(e, key, as), UNCHANGED broken
      PROVE  Typed'
  <2>1. /\ Moves(e) /\ UNCHANGED <<slots, published>> /\ ev'[e].slot = published[key]
    BY <1>0, <1>3, UsePublishedEffect DEF Finds
  <2>2. published[key] \in DOMAIN slots
    BY <1>0, <1>3, SlotsAre DEF Finds
  <2>3. PulsesTyped' /\ SlotsTyped'
    BY <1>0, <1>3, <2>1 DEF PulsesTyped, SlotsTyped, WorkerState
  <2>4. EventsTyped'
    BY <1>0, <2>1, <2>2, EventMoveTyped
  <2> QED BY <2>3, <2>4 DEF Typed
<1>4. ASSUME NEW key \in Keys, NEW as \in States, Publishes(e, key, as), UNCHANGED broken
      PROVE  Typed'
  BY <1>0, <1>4, PublishesTyped DEF Publishes
<1> QED BY <1>0, <1>1, <1>2, <1>3, <1>4, FindSlotEffect

(* An event that moves while the slots and the pulses stay. *)
LEMMA EventStepTyped ==
    ASSUME Typed, NEW e \in Events, Moves(e), HasSlot(e)' => ev'[e].slot \in DOMAIN slots,
           cache' \in CacheType,
           UNCHANGED <<pulses, slots, published, unpublishPulse, presentMachine, earliestBound,
                       preparing, acked, commit, rollbacks, broken>>
    PROVE  Typed'
<1>1. PulsesTyped' /\ SlotsTyped'
  BY DEF Typed, PulsesTyped, SlotsTyped
<1>2. EventsTyped'
  BY EventMoveTyped DEF Typed
<1> QED BY <1>1, <1>2 DEF Typed

LEMMA AddEventTyped ==
    ASSUME Typed, NEW e \in Events, AddEvent(e)
    PROVE  Typed' /\ cache'.data = cache.data
<1>0. EventsTyped /\ cache \in CacheType
  BY DEF Typed, PulsesTyped
<1>1. /\ Moves(e) /\ ev[e].pc = "add" /\ ev'[e].slot = ev[e].slot
      /\ ev[e].slot \in DOMAIN slots
  BY <1>0, AddEventEffect DEF EventsTyped, HasSlot
<1>2. cache' \in CacheType /\ cache'.data = cache.data
  <2>1. ev[e].pn \in cache.data => {ev[e].pn} \in SUBSET Pulses
    BY <1>0 DEF CacheType
  <2>2. cache' = cache \/ (ev[e].pn \in cache.data /\ cache' = Touch(cache, {ev[e].pn}))
    BY DEF AddEvent
  <2> QED BY <1>0, <2>1, <2>2, TouchTyped
<1> QED BY <1>1, <1>2, EventStepTyped DEF AddEvent, WorkerState

LEMMA FactoryRefusesTyped ==
    ASSUME Typed, NEW e \in Events, FactoryRefuses(e)
    PROVE  Typed' /\ cache'.data = cache.data
<1>0. EventsTyped /\ cache \in CacheType
  BY DEF Typed, PulsesTyped
<1>1. Moves(e) /\ ~HasSlot(e)'
  BY <1>0, FactoryRefusesEffect DEF HasSlot, Inside
<1>2. cache' \in CacheType /\ cache'.data = cache.data
  <2>1. cache.data \cap {ev[e].pn} \in SUBSET Pulses
    BY <1>0 DEF CacheType
  <2>2. cache' = cache \/ cache' = Touch(cache, cache.data \cap {ev[e].pn})
    BY DEF FactoryRefuses
  <2> QED BY <1>0, <2>1, <2>2, TouchTyped
<1> QED BY <1>1, <1>2, EventStepTyped DEF FactoryRefuses, WorkerState

LEMMA HandlerEndsTyped ==
    ASSUME Typed, NEW e \in Events, HandlerEnds(e)
    PROVE  Typed'
<1>0. EventsTyped /\ cache \in CacheType
  BY DEF Typed, PulsesTyped
<1>1. Moves(e) /\ ~HasSlot(e)'
  BY <1>0, HandlerEndsEffect DEF HasSlot, Inside, GoesOn
<1> QED BY <1>0, <1>1, EventStepTyped DEF HandlerEnds, PulseState

LEMMA StepGotAnswerTyped ==
    ASSUME Typed, NEW e \in Events, StepGotAnswer(e)
    PROVE  Typed' /\ cache'.data = cache.data
<1>0. EventsTyped /\ cache \in CacheType
  BY DEF Typed, PulsesTyped
<1>1. Moves(e) /\ ev'[e].slot = ev[e].slot /\ ev[e].slot \in DOMAIN slots
  BY <1>0, StepGotAnswerEffect DEF EventsTyped, HasSlot, Inside, GoesOn
<1>2. cache' \in CacheType /\ cache'.data = cache.data
  <2>1. ev[e].pn \in cache.data => {ev[e].pn} \in SUBSET Pulses
    BY <1>0 DEF CacheType
  <2>2. cache' = cache \/ (ev[e].pn \in cache.data /\ cache' = Touch(cache, {ev[e].pn}))
    BY DEF StepGotAnswer
  <2> QED BY <1>0, <2>1, <2>2, TouchTyped
<1> QED BY <1>1, <1>2, EventStepTyped DEF StepGotAnswer, PulseState

LEMMA ExecuteEventTyped ==
    ASSUME Typed, NEW e \in Events, ExecuteEvent(e)
    PROVE  Typed'
<1>0. EventsTyped /\ cache \in CacheType
  BY DEF Typed, PulsesTyped
<1>1. Moves(e) /\ ev'[e].slot = ev[e].slot /\ ev[e].slot \in DOMAIN slots
  BY <1>0, ExecuteEventEffect DEF EventsTyped, HasSlot, Inside, GoesOn
<1> QED BY <1>0, <1>1, EventStepTyped DEF ExecuteEvent, PulseState

(* A slot that changes, and perhaps the registry. *)
LEMMA SlotStepTyped ==
    ASSUME Typed, NEW i \in DOMAIN slots, OneSlot(i), published' \in [Keys -> 0 .. Len(slots)]
    PROVE  SlotsTyped'
BY DEF Typed, SlotsTyped, OneSlot

LEMMA ActivateSlotTyped ==
    ASSUME Typed, NEW e \in Events, ActivateSlot(e)
    PROVE  Typed'
<1> DEFINE i == ev[e].slot
<1>0. EventsTyped /\ SlotsTyped /\ PulsesTyped
      /\ UNCHANGED <<pulses, published, cache, broken, WorkerState>>
  BY DEF Typed, ActivateSlot
<1>1. /\ Moves(e) /\ ev'[e].slot = i /\ i \in DOMAIN slots /\ OneSlot(i)
  BY <1>0, ActivateSlotEffect, ActivateSlotSlots
<1> HIDE DEF i
<1>2. EventsTyped'
  BY <1>0, <1>1, EventMoveTyped DEF OneSlot
<1>3. SlotsTyped'
  BY <1>0, <1>1, SlotStepTyped DEF SlotsTyped
<1>4. PulsesTyped'
  BY <1>0, <1>1 DEF PulsesTyped, OneSlot, WorkerState
<1> QED BY <1>2, <1>3, <1>4 DEF Typed

(* Steps of the worker that change a slot leave the events alone. *)
LEMMA WorkerStepTyped ==
    ASSUME Typed, NEW i \in DOMAIN slots, OneSlot(i), published' \in [Keys -> 0 .. Len(slots)],
           UNCHANGED <<ev, cache, pulses, unpublishPulse, presentMachine, earliestBound,
                       preparing, acked, commit, rollbacks, broken>>
    PROVE  Typed'
<1>1. SlotsTyped'
  BY SlotStepTyped
<1>2. PulsesTyped'
  BY DEF Typed, PulsesTyped, OneSlot
<1>3. EventsTyped'
  BY DEF Typed, EventsTyped, OneSlot, HasSlot
<1> QED BY <1>1, <1>2, <1>3 DEF Typed

LEMMA InitSlotTyped ==
    ASSUME Typed, NEW i \in DOMAIN slots, InitSlot(i)
    PROVE  Typed'
BY InitSlotEffect, WorkerStepTyped DEF InitSlot, PulseState, Typed, SlotsTyped

LEMMA OnTerminateTyped ==
    ASSUME Typed, NEW i \in DOMAIN slots, OnTerminate(i)
    PROVE  Typed'
BY OnTerminateEffect, WorkerStepTyped DEF OnTerminate, Typed

LEMMA FlagsTyped ==
    ASSUME Typed, RequestNodeState \/ CancelNodeState
    PROVE  Typed'
<1>1. UNCHANGED <<pulses, slots, published, unpublishPulse, presentMachine, earliestBound,
                  commit, ev, cache>>
  BY DEF RequestNodeState, CancelNodeState
<1>2. preparing' \in BOOLEAN /\ acked' \in BOOLEAN /\ broken' \in BOOLEAN
  BY DEF RequestNodeState, CancelNodeState, Typed, PulsesTyped
<1>3. rollbacks' \in 0 .. MaxRollbacks
  <2>1. rollbacks \in 0 .. MaxRollbacks /\ MaxRollbacks \in Nat
    BY ConveyorAssumption DEF Typed, PulsesTyped
  <2>2. rollbacks' = rollbacks \/ (rollbacks < MaxRollbacks /\ rollbacks' = rollbacks + 1)
    BY DEF RequestNodeState, CancelNodeState
  <2> QED BY <2>1, <2>2
<1>4. PulsesTyped'
  BY <1>1, <1>2, <1>3 DEF Typed, PulsesTyped
<1>5. SlotsTyped' /\ EventsTyped'
  BY <1>1 DEF Typed, SlotsTyped, EventsTyped, HasSlot
<1> QED BY <1>4, <1>5 DEF Typed

LEMMA PutTyped ==
    ASSUME NEW c \in CacheType, NEW r \in RangeType, r.known \subseteq Pulses
    PROVE  Put(c, r) \in CacheType /\ Put(c, r).data = c.data \cup r.known
BY DEF Put, Touch, CacheType

LEMMA EvictAndRotateTyped ==
    ASSUME NEW c \in CacheType, NEW pn \in Pulses
    PROVE  /\ EvictAndRotate(c, pn) \in CacheType
           /\ EvictAndRotate(c, pn).data \subseteq c.data
<1> DEFINE e == Evict(c, pn)
<1>1. e \in CacheType /\ e.data \subseteq c.data
  BY DEF Evict, CacheType
<1> HIDE DEF e
<1>2. EvictAndRotate(c, pn) = Touch([e EXCEPT !.old = e.cur, !.cur = {}], {pn})
  BY DEF EvictAndRotate, e
<1>3. [e EXCEPT !.old = e.cur, !.cur = {}] \in CacheType
      /\ [e EXCEPT !.old = e.cur, !.cur = {}].data = e.data
  BY <1>1 DEF CacheType
<1> QED BY <1>1, <1>2, <1>3, TouchTyped

LEMMA CommitTyped ==
    ASSUME Typed, NEW b \in Beats, b[1] <= LastPulse, CommitPulseChange(b[1], b[2])
    PROVE  Typed'
<1> DEFINE r == CommitBeatRange(b[1], b[2])
<1>0. PulsesTyped /\ SlotsTyped /\ EventsTyped
  BY DEF Typed
<1>1. r \in RangeType /\ r.known \subseteq Pulses
  BY <1>0, CommitRangeTyped
<1>2. /\ \/ Starts(r)
         \/ ~CommitChecks(r) /\ broken' /\ UNCHANGED <<slots, cache, preparing>>
            /\ commit' = [commit EXCEPT !.range = r]
      /\ acked' = FALSE
      /\ UNCHANGED <<pulses, published, unpublishPulse, presentMachine, earliestBound,
                     rollbacks, ev>>
  BY CommitEffect
<1> HIDE DEF r
<1>3. commit' \in CommitType
  BY <1>0, <1>1, <1>2 DEF PulsesTyped, CommitType, Starts, NowType
<1>4. cache' \in CacheType /\ broken' \in BOOLEAN /\ preparing' \in BOOLEAN
  BY <1>0, <1>1, <1>2, PutTyped DEF PulsesTyped, Starts
<1>5. slots' \in Seq(SlotType) /\ Len(slots') = Len(slots) /\ DOMAIN slots' = DOMAIN slots
  <2>1. CASE UNCHANGED slots
    BY <2>1, <1>0 DEF SlotsTyped
  <2>2. CASE slots' = SetPast(presentMachine) /\ presentMachine # NoSlot
    <3>1. presentMachine \in DOMAIN slots
      BY <2>2, <1>0, SlotsAre DEF PulsesTyped, NoSlot
    <3> QED BY <2>2, <3>1, <1>0, SetPastEffect DEF OneSlot
  <2>3. CASE slots' = SetPast(presentMachine) /\ presentMachine = NoSlot
    BY <2>3, <1>0 DEF SetPast, SlotsTyped
  <2> QED BY <1>2, <2>1, <2>2, <2>3 DEF Starts
<1>6. PulsesTyped'
  BY <1>0, <1>2, <1>3, <1>4, <1>5 DEF PulsesTyped
<1>7. SlotsTyped'
  BY <1>0, <1>2, <1>5 DEF SlotsTyped
<1>8. EventsTyped'
  BY <1>0, <1>2, <1>5 DEF EventsTyped, HasSlot
<1> QED BY <1>6, <1>7, <1>8 DEF Typed

LEMMA PublishPresentTyped ==
    ASSUME Typed, Orderly, PublishPresent
    PROVE  Typed'
<1>0. PulsesTyped /\ SlotsTyped /\ EventsTyped /\ commit.phase = "publish" /\ commit \in CommitType
  BY DEF Typed, PulsesTyped, PublishPresent
<1>1. commit.range.right \in Pulses
  BY <1>0, CommitRight
<1>2. /\ \/ broken' /\ UNCHANGED <<slots, published, presentMachine>>
         \/ UNCHANGED broken /\ \E i \in Nat \ {NoSlot} : Promotes(i) /\ presentMachine' = i
      /\ commit' = [commit EXCEPT !.phase = "route"]
      /\ unpublishPulse' \in {commit.future, Unknown}
      /\ UNCHANGED <<pulses, cache, earliestBound, preparing, acked, rollbacks, ev>>
  BY <1>0, <1>1, PublishPresentEffect DEF PublishPresent
<1>3. commit' \in CommitType /\ unpublishPulse' \in Keys
  BY <1>0, <1>2, KeysAre DEF CommitType, Keys
<1>4. broken' \in BOOLEAN
  BY <1>0, <1>2 DEF PulsesTyped
<1>5. CASE UNCHANGED <<slots, published, presentMachine>>
  <2>1. PulsesTyped' /\ SlotsTyped'
    BY <1>0, <1>2, <1>3, <1>4, <1>5 DEF PulsesTyped, SlotsTyped
  <2>2. EventsTyped'
    BY <1>0, <1>2, <1>5 DEF EventsTyped, HasSlot
  <2> QED BY <2>1, <2>2 DEF Typed
<1>6. ASSUME NEW i \in Nat \ {NoSlot}, Promotes(i), presentMachine' = i
      PROVE  Typed'
  <2>1. /\ slots' \in Seq(SlotType) /\ DOMAIN slots' = DOMAIN slots \cup {i}
        /\ published' \in [Keys -> 0 .. Len(slots')]
    BY <1>6 DEF Promotes
  <2>2. presentMachine' \in 0 .. Len(slots')
    <3>1. i \in DOMAIN slots'
      BY <2>1
    <3>2. DOMAIN slots' = 1 .. Len(slots') /\ Len(slots') \in Nat
      BY <2>1, LenProperties
    <3> QED BY <1>6, <3>1, <3>2
  <2>3. PulsesTyped'
    BY <1>0, <1>2, <1>3, <1>4, <2>2 DEF PulsesTyped
  <2>4. SlotsTyped'
    BY <2>1 DEF SlotsTyped
  <2>5. EventsTyped'
    BY <1>0, <1>2, <2>1 DEF EventsTyped, HasSlot
  <2> QED BY <2>3, <2>4, <2>5 DEF Typed
<1> QED BY <1>2, <1>5, <1>6

LEMMA RouteAndMigrateTyped ==
    ASSUME Typed, Orderly, RouteAndMigrate
    PROVE  Typed'
<1>0. PulsesTyped /\ SlotsTyped /\ EventsTyped /\ commit.phase = "route"
  BY DEF Typed, RouteAndMigrate
<1>1. commit.range.right \in Pulses /\ commit.range.right <= LastPulse
  BY <1>0, CommitRight
<1>2. /\ \/ Routes
         \/ broken' /\ UNCHANGED <<pulses, cache, earliestBound, ev, slots>>
      /\ commit' = Idle
      /\ UNCHANGED <<published, unpublishPulse, presentMachine, preparing, acked, rollbacks>>
  BY <1>0, RouteAndMigrateEffect
<1>3. commit' \in CommitType
  BY <1>2, RangesTyped, ConveyorAssumption DEF Idle, CommitType
<1>4. CASE broken' /\ UNCHANGED <<pulses, cache, earliestBound, ev, slots>>
  <2>0. broken' \in BOOLEAN
    BY <1>0, <1>4, RouteAndMigrateEffect DEF Routes, PulsesTyped, RouteAndMigrate
  <2>1. PulsesTyped' /\ SlotsTyped'
    BY <1>0, <1>2, <1>3, <1>4, <2>0 DEF PulsesTyped, SlotsTyped
  <2>2. EventsTyped'
    BY <1>0, <1>4 DEF EventsTyped, HasSlot
  <2> QED BY <2>1, <2>2 DEF Typed
<1>5. CASE Routes
  <2>1. pulses' \in NowType /\ (pulses'.present # Unknown => pulses'.future # LocalRelative)
    <3>1. commit.range.right + Delta \in Pulses
      BY <1>1, KeysAre, ConveyorAssumption
    <3>2. commit.range.right + Delta # LocalRelative
      BY <3>1, KeysAre DEF LocalRelative
    <3> QED BY <1>1, <1>5, <3>1, <3>2 DEF Routes, NowType
  <2>2. cache' \in CacheType /\ earliestBound' \in Pulses \cup {Unknown}
    BY <1>0, <1>1, <1>5, EvictAndRotateTyped DEF Routes, PulsesTyped
  <2>3. PulsesTyped'
    BY <1>0, <1>2, <1>3, <1>5, <2>1, <2>2 DEF PulsesTyped, Routes
  <2>4. SlotsTyped'
    BY <1>0, <1>2, <1>5 DEF SlotsTyped, Routes
  <2>5. EventsTyped'
    <3>1. \A e \in Events : ev'[e].slot = ev[e].slot /\ (HasSlot(e)' => HasSlot(e))
      BY <1>5 DEF Routes, Woken, HasSlot, Inside
    <3> QED BY <1>0, <1>5, <3>1 DEF EventsTyped, Routes
  <2> QED BY <2>3, <2>4, <2>5 DEF Typed
<1> QED BY <1>2, <1>4, <1>5

-----------------------------------------------------------------------------
(***************************************************************************)
(* What follows from the order of the slots and the events.                *)
(***************************************************************************)
LEMMA OrderlyHandled == Typed /\ Orderly => HandledInItsPulse
<1>0. SUFFICES ASSUME Typed, Orderly PROVE HandledInItsPulse
  OBVIOUS
<1>1. SUFFICES ASSUME NEW e \in Events, ev[e].pc = "created", ~ev[e].early
               PROVE  \/ slots[ev[e].slot].st = "Antique"
                      \/ OfItsPulse(slots[ev[e].slot], e)
  BY DEF HandledInItsPulse, OfItsPulse, Covers
<1>2. HasSlot(e) /\ ev[e].pc \in Inside
  BY <1>1 DEF HasSlot, Inside
<1>3. PlaceFits(e) /\ InsideFits(e) /\ AsFits(e) /\ ev[e].as \in States \cup {"None"}
  BY <1>0, <1>1, <1>2 DEF Orderly, PlacesInv, CallsInv, Typed, EventsTyped, EventType
<1> QED BY <1>1, <1>3 DEF PlaceFits, InsideFits, AsFits, States

LEMMA OrderlyInv ==
    ASSUME Typed', AcceptedNotLost', Orderly', ~broken'
    PROVE  ConveyorInv'
<1>1. HandledInItsPulse'
  BY OrderlyHandled, PTL
<1>2. MigrationSet'
  BY DEF Orderly, LivesInv, MigrationSet
<1> QED BY <1>1, <1>2 DEF ConveyorInv, NoPanic

(* A step that panics leaves the slots and the events as they were. *)
LEMMA BrokenInv ==
    ASSUME ConveyorInv, Typed', UNCHANGED <<ev, slots>>, broken', NoPanic'
    PROVE  ConveyorInv'
<1>1. AcceptedNotLost' /\ HandledInItsPulse' /\ MigrationSet'
  BY DEF ConveyorInv, AcceptedNotLost, HandledInItsPulse, MigrationSet
<1> QED BY <1>1 DEF ConveyorInv

LEMMA RunningFrame ==
    ASSUME Running, UNCHANGED SlotState
    PROVE  Running'
BY DEF Running, SlotState, CommitFits, KnowsBounds, SlotFits, LastStarted, LastPublished, OneSlotPerPulse,
       RegistryFits, PresentFits, NextFits, Covers

LEMMA BeforeFirstFrame ==
    ASSUME BeforeFirst, UNCHANGED SlotState,
           \A e \in Events : ev'[e].pc \in {"mapped", "activate", "add"} \cup Inside => ev'[e].early,
           \A e \in Events : ev[e].early => ev'[e].early
    PROVE  BeforeFirst'
BY DEF BeforeFirst, SlotState, Early, FirstPresent

(* The fate of other calls and events does not change with an event.       *)
LEMMA CallsFrame ==
    ASSUME NEW d \in Events, ev'[d] = ev[d], UNCHANGED SlotState
    PROVE  /\ InCall(d)' <=> InCall(d)
           /\ HasSlot(d)' <=> HasSlot(d)
           /\ CallFits(d)' <=> CallFits(d)
           /\ AsFits(d)' <=> AsFits(d)
           /\ StartFits(d)' <=> StartFits(d)
           /\ PlaceFits(d)' <=> PlaceFits(d)
           /\ InsideFits(d)' <=> InsideFits(d)
BY DEF SlotState, InCall, HasSlot, CallFits, LateFits, IsActive, AsFits, StartFits, PlaceFits, InsideFits,
       OfItsPulse, Covers

\* An event that moves without publishing or starting a slot.
Passes(e) ==
    /\ Moves(e) /\ UNCHANGED <<SlotState, broken>> /\ cache'.data = cache.data
    /\ ev[e].pc # "activate" /\ ev'[e].pc \notin {"activate", "none"}
    /\ InCall(e)' => InCall(e)
    /\ InCall(e)' \/ HasSlot(e)' => (InCall(e) \/ HasSlot(e)) /\ AsFits(e)'
    /\ ~ev[e].early =>
          /\ HasSlot(e)' => PlaceFits(e)'
          /\ ev'[e].pc \in Inside => InsideFits(e)'
    /\ ev'[e].pc \in Inside => IsActive(slots[ev'[e].slot])

LEMMA PassesInv ==
    ASSUME ConveyorInv, ~broken, Typed', NEW e \in Events, Passes(e)
    PROVE  ConveyorInv'
<1>0. /\ Orderly /\ Moves(e) /\ UNCHANGED SlotState
      /\ \A d \in Events : d # e => ev'[d] = ev[d]
  BY DEF ConveyorInv, Passes, Moves
<1>1. AcceptedNotLost'
  BY <1>0 DEF ConveyorInv, AcceptedNotLost, Passes, SlotState
<1>2. LivesInv'
  <2>1. \A d \in Events : (ev'[d].pc = "activate" <=> ev[d].pc = "activate")
                          /\ (ev[d].pc = "activate" => ev'[d] = ev[d])
    BY <1>0 DEF Passes
  <2> QED BY <1>0, <2>1 DEF Orderly, LivesInv, SlotState
<1>3. CallsInv'
  <2>1. ASSUME NEW d \in Events, d # e
        PROVE  /\ ev'[d].pc = "none" => ~ev'[d].late
               /\ InCall(d)' => CallFits(d)'
               /\ InCall(d)' \/ HasSlot(d)' => AsFits(d)'
               /\ ev'[d].pc = "activate" => StartFits(d)'
    <3>1. ev'[d] = ev[d]
      BY <1>0, <2>1
    <3> QED BY <1>0, <3>1, CallsFrame DEF Orderly, CallsInv
  <2>2. /\ ev'[e].pc = "none" => ~ev'[e].late
        /\ InCall(e)' => CallFits(e)'
        /\ InCall(e)' \/ HasSlot(e)' => AsFits(e)'
        /\ ev'[e].pc = "activate" => StartFits(e)'
    <3>1. CallFits(e)' <=> CallFits(e)
      BY <1>0 DEF CallFits, LateFits, IsActive, SlotState, Moves
    <3> QED BY <1>0, <3>1 DEF Orderly, CallsInv, Passes
  <2> QED BY <2>1, <2>2 DEF CallsInv
<1>4. PlacesInv'
  <2>1. ASSUME NEW d \in Events, ~ev'[d].early
        PROVE  /\ HasSlot(d)' => PlaceFits(d)'
               /\ ev'[d].pc \in Inside => InsideFits(d)'
    <3>1. CASE d # e
      <4>1. ev'[d] = ev[d]
        BY <1>0, <3>1
      <4> QED BY <1>0, <2>1, <4>1, CallsFrame DEF Orderly, PlacesInv
    <3>2. CASE d = e
      BY <2>1, <3>2 DEF Passes, Moves
    <3> QED BY <3>1, <3>2
  <2>2. \A n \in cache'.data : n >= FirstPulse
    BY <1>0 DEF Orderly, PlacesInv, Passes
  <2> QED BY <2>1, <2>2 DEF PlacesInv
<1>5. pulses'.present = Unknown => BeforeFirst'
  <2>1. SUFFICES ASSUME pulses.present = Unknown PROVE BeforeFirst'
    BY <1>0 DEF SlotState
  <2>2. BeforeFirst
    BY <1>0, <2>1 DEF Orderly
  <2>3. \A d \in Events : ev'[d].early = ev[d].early
    BY <1>0 DEF Moves
  <2>4. \A d \in Events : ev'[d].pc \in {"mapped", "activate", "add"} \cup Inside => ev'[d].early
    <3>1. InCall(e)' \/ HasSlot(e)' => InCall(e) \/ HasSlot(e)
      BY DEF Passes
    <3>2. ev'[e].pc \in {"mapped", "activate", "add"} \cup Inside =>
            ev[e].pc \in {"mapped", "activate", "add"} \cup Inside
      BY <3>1 DEF InCall, HasSlot
    <3> QED BY <1>0, <2>2, <2>3, <3>2 DEF BeforeFirst
  <2> QED BY <1>0, <2>2, <2>3, <2>4, BeforeFirstFrame
<1>6. pulses'.present # Unknown => Running'
  BY <1>0, RunningFrame DEF Orderly, SlotState
<1>7. Orderly' /\ ~broken'
  BY <1>2, <1>3, <1>4, <1>5, <1>6 DEF Orderly, Passes
<1> QED BY <1>1, <1>7, OrderlyInv

-----------------------------------------------------------------------------
(***************************************************************************)
(* The steps of events.                                                    *)
(***************************************************************************)
\* A number that a present slot accepts is in the range of the slot: the slot's
\* range prohibits the numbers after its last pulse.
LEMMA AcceptedIsCovered ==
    ASSUME NEW s \in SlotType, NEW pn \in Int, NEW now,
           now.present = s.range.right, s.range.left <= s.range.right, KnowsBounds(s.range),
           IsAcceptedFutureOrPresent(s, pn, now).ok,
           ~IsAcceptedFutureOrPresent(s, pn, now).isFuture
    PROVE  s.st = "Present" /\ Covers(s, pn)
<1> DEFINE a == IsAcceptedPresent(s, now.present, pn)
           l == s.range.left
           r == s.range.right
           hits == {n \in s.range.known : Decides(n, pn)}
<1>0. l \in Int /\ r \in Int /\ l <= r /\ s.range.known \subseteq {l, r} /\ l \in s.range.known
      /\ Delta \in Nat \ {0}
  BY ConveyorAssumption DEF SlotType, RangeType, KnowsBounds
<1>1. a.st # "Future" /\ a.ok
  BY DEF IsAcceptedFutureOrPresent
<1>2. s.st = "Present"
  BY <1>1 DEF IsAcceptedPresent
<1>3. pn = r \/ ~(pn < l)
  BY <1>1, <1>2 DEF IsAcceptedPresent
<1>4. CASE pn # r /\ pn > r
  <2>1. IF hits = {} THEN IsArticulated(s.range) ELSE ~Prohibits(Min(hits), pn)
    BY <1>0, <1>1, <1>2, <1>4 DEF IsAcceptedPresent
  <2>2. ~IsArticulated(s.range)
    BY <1>0 DEF IsArticulated
  <2>3. hits # {} /\ hits \subseteq {l, r}
    BY <1>0, <2>1, <2>2
  <2> HIDE DEF hits
  <2>4. Min(hits) \in hits
    <3>1. \E x \in hits : \A y \in hits : x <= y
      <4>1. CASE l \in hits
        BY <4>1, <1>0, <2>3
      <4>2. CASE l \notin hits
        <5>1. \A y \in hits : y = r
          BY <2>3, <4>2
        <5> QED BY <5>1, <2>3, <1>0
      <4> QED BY <4>1, <4>2
    <3> QED BY <3>1 DEF Min
  <2>5. Prohibits(Min(hits), pn)
    BY <1>0, <1>4, <2>3, <2>4 DEF Prohibits
  <2> QED BY <2>1, <2>3, <2>5
<1> QED BY <1>0, <1>2, <1>3, <1>4 DEF Covers

LEMMA RefusePasses ==
    ASSUME ConveyorInv, ~broken, NEW e \in Events, Moves(e), ev'[e].pc = "refused",
           ev[e].pc # "activate",
           UNCHANGED <<SlotState, broken>>, cache'.data = cache.data
    PROVE  Passes(e)
BY DEF Passes, InCall, HasSlot, Inside

LEMMA AddEventInv ==
    ASSUME ConveyorInv, NEW e \in Events, AddEvent(e)
    PROVE  ConveyorInv'
<1>0. /\ Typed /\ Orderly /\ ~broken /\ EventsTyped
      /\ UNCHANGED <<SlotState, broken>>
  BY DEF ConveyorInv, Typed, AddEvent, WorkerState, SlotState
<1>1. Typed' /\ cache'.data = cache.data
  BY <1>0, AddEventTyped
<1>2. /\ Moves(e) /\ ev[e].pc = "add" /\ ev'[e].slot = ev[e].slot
      /\ Added(e) \/ Redirected(e) \/ ev'[e].pc = "refused"
  BY <1>0, AddEventEffect
<1>3. InCall(e) /\ HasSlot(e) /\ AsFits(e) /\ (~ev[e].early => PlaceFits(e))
  BY <1>0, <1>2 DEF InCall, HasSlot, Orderly, CallsInv, PlacesInv
<1>4. CASE Added(e)
  <2>1. /\ ev'[e].pc = "queued" /\ ev'[e].as = ev[e].as /\ IsActive(slots[ev[e].slot])
        /\ ~InCall(e)' /\ HasSlot(e)' /\ ev'[e].pc \in Inside
    BY <1>4 DEF Added, InCall, HasSlot, Inside
  <2>2. AsFits(e)'
    BY <1>2, <1>3, <2>1 DEF AsFits, Moves
  <2>3. PlaceFits(e)' <=> PlaceFits(e)
    BY <1>0, <1>2, <2>1 DEF PlaceFits, OfItsPulse, Covers, Moves, SlotState
  <2>4. InsideFits(e)'
    <3>1. \A n \in cache.data : n >= FirstPulse
      BY <1>0 DEF Orderly, PlacesInv
    <3> QED BY <1>2, <1>4, <2>1, <3>1 DEF InsideFits, Added, Moves
  <2>5. Passes(e)
    BY <1>0, <1>1, <1>2, <1>3, <2>1, <2>2, <2>3, <2>4 DEF Passes
  <2> QED BY <1>0, <1>1, <2>5, PassesInv
<1>5. CASE Redirected(e)
  <2>1. /\ ev'[e].pc = "mapped" /\ ev'[e].as = "Antique" /\ ev[e].as = "Past"
        /\ ~HasSlot(e)' /\ ev'[e].pc \notin Inside
    BY <1>5 DEF Redirected, HasSlot, Inside
  <2>2. AsFits(e)'
    BY <1>2, <1>3, <2>1 DEF AsFits, Moves
  <2>3. Passes(e)
    BY <1>0, <1>1, <1>2, <1>3, <2>1, <2>2 DEF Passes
  <2> QED BY <1>0, <1>1, <2>3, PassesInv
<1>6. CASE ev'[e].pc = "refused"
  BY <1>0, <1>1, <1>2, <1>6, RefusePasses, PassesInv
<1> QED BY <1>2, <1>4, <1>5, <1>6

LEMMA FactoryRefusesInv ==
    ASSUME ConveyorInv, NEW e \in Events, FactoryRefuses(e)
    PROVE  ConveyorInv'
<1>0. /\ Typed /\ ~broken /\ EventsTyped /\ ev[e].pc = "add"
      /\ UNCHANGED <<SlotState, broken>>
  BY DEF ConveyorInv, Typed, FactoryRefuses, WorkerState, SlotState
<1>1. Typed' /\ cache'.data = cache.data
  BY <1>0, FactoryRefusesTyped
<1>2. Moves(e) /\ ev'[e].pc = "refused"
  BY <1>0, FactoryRefusesEffect
<1> QED BY <1>0, <1>1, <1>2, RefusePasses, PassesInv

LEMMA HandlerEndsInv ==
    ASSUME ConveyorInv, NEW e \in Events, HandlerEnds(e)
    PROVE  ConveyorInv'
<1>0. /\ Typed /\ ~broken /\ EventsTyped /\ ev[e].pc = "created"
      /\ UNCHANGED <<SlotState, broken, cache>>
  BY DEF ConveyorInv, Typed, HandlerEnds, Working, PulseState, SlotState
<1>1. Typed'
  BY <1>0, HandlerEndsTyped
<1>2. Moves(e) /\ ev'[e].pc = "done"
  BY <1>0, HandlerEndsEffect DEF GoesOn
<1>3. Passes(e)
  BY <1>0, <1>2 DEF Passes, InCall, HasSlot, Inside
<1> QED BY <1>0, <1>1, <1>3, PassesInv

(* The event goes on in its slot, which has not stopped. *)
LEMMA GoesOnFits ==
    ASSUME ConveyorInv, ~broken, NEW e \in Events, GoesOn(e), UNCHANGED SlotState,
           ev[e].pc \in Inside, ev'[e].pc \in Inside
    PROVE  /\ ~InCall(e)' /\ HasSlot(e) /\ HasSlot(e)' /\ AsFits(e) /\ AsFits(e)'
           /\ ~ev[e].early => PlaceFits(e) /\ PlaceFits(e)' /\ InsideFits(e)
           /\ IsActive(slots[ev'[e].slot])
<1>0. Orderly /\ AcceptedNotLost
  BY DEF ConveyorInv
<1>1. HasSlot(e) /\ HasSlot(e)' /\ ~InCall(e)'
  BY DEF HasSlot, InCall, Inside
<1>2. AsFits(e) /\ (~ev[e].early => PlaceFits(e) /\ InsideFits(e))
  BY <1>0, <1>1 DEF Orderly, CallsInv, PlacesInv
<1>3. AsFits(e)' <=> AsFits(e)
  BY DEF AsFits, GoesOn, Moves
<1>4. PlaceFits(e)' <=> PlaceFits(e)
  BY DEF PlaceFits, OfItsPulse, Covers, GoesOn, Moves, SlotState
<1>5. IsActive(slots[ev'[e].slot])
  BY <1>0 DEF AcceptedNotLost, GoesOn
<1> QED BY <1>1, <1>2, <1>3, <1>4, <1>5

LEMMA StepGotAnswerInv ==
    ASSUME ConveyorInv, NEW e \in Events, StepGotAnswer(e)
    PROVE  ConveyorInv'
<1>0. /\ Typed /\ Orderly /\ ~broken /\ EventsTyped
      /\ UNCHANGED <<SlotState, broken>>
  BY DEF ConveyorInv, Typed, StepGotAnswer, Working, PulseState, SlotState
<1>1. Typed' /\ cache'.data = cache.data
  BY <1>0, StepGotAnswerTyped
<1>2. /\ GoesOn(e) /\ Moves(e) /\ ev[e].pc = "loading" /\ ev'[e].pc \in {"created", "failed"}
  BY <1>0, StepGotAnswerEffect DEF GoesOn
<1>3. CASE ev'[e].pc = "failed"
  <2>1. Passes(e)
    BY <1>0, <1>1, <1>2, <1>3 DEF Passes, InCall, HasSlot, Inside
  <2> QED BY <1>0, <1>1, <2>1, PassesInv
<1>4. CASE ev'[e].pc = "created"
  <2>1. ev[e].pc \in Inside /\ ev'[e].pc \in Inside
    BY <1>2, <1>4 DEF Inside
  <2>2. /\ ~InCall(e)' /\ HasSlot(e) /\ HasSlot(e)' /\ AsFits(e)'
        /\ ~ev[e].early => PlaceFits(e)' /\ InsideFits(e)
        /\ IsActive(slots[ev'[e].slot])
    BY <1>0, <1>2, <2>1, GoesOnFits
  <2>3. ~ev[e].early => InsideFits(e)'
    BY <1>2, <1>4, <2>2 DEF InsideFits, GoesOn, Moves
  <2>4. Passes(e)
    BY <1>0, <1>1, <1>2, <1>4, <2>1, <2>2, <2>3 DEF Passes
  <2> QED BY <1>0, <1>1, <2>4, PassesInv
<1> QED BY <1>2, <1>3, <1>4

LEMMA ExecuteEventInv ==
    ASSUME ConveyorInv, NEW e \in Events, ExecuteEvent(e)
    PROVE  ConveyorInv'
<1>0. /\ Typed /\ Orderly /\ ~broken /\ EventsTyped /\ commit.phase = "idle"
      /\ UNCHANGED <<SlotState, broken, cache>>
  BY DEF ConveyorInv, Typed, ExecuteEvent, Working, PulseState, SlotState
<1>1. Typed'
  BY <1>0, ExecuteEventTyped
<1> DEFINE i == ev[e].slot
           a == IsAcceptedFutureOrPresent(slots[i], ev[e].pn, pulses)
<1>2. /\ GoesOn(e) /\ Moves(e) /\ ev[e].pc \in {"queued", "woken"}
      /\ ev'[e].pc \in {"loading", "created", "waiting", "failed"}
      /\ ev'[e].pc = "waiting" => ev[e].wrap = "future"
      /\ ev'[e].pc = "loading" => ev[e].wrap = "antique"
      /\ ev'[e].pc = "created" /\ ev[e].wrap = "future" => a.ok /\ ~a.isFuture
  BY <1>0, ExecuteEventEffect DEF GoesOn
<1> HIDE DEF a
<1>3. CASE ev'[e].pc = "failed"
  <2>1. Passes(e)
    BY <1>0, <1>2, <1>3 DEF Passes, InCall, HasSlot, Inside
  <2> QED BY <1>0, <1>1, <2>1, PassesInv
<1>4. CASE ev'[e].pc # "failed"
  <2>1. ev[e].pc \in Inside /\ ev'[e].pc \in Inside
    BY <1>2, <1>4 DEF Inside
  <2>2. /\ ~InCall(e)' /\ HasSlot(e) /\ HasSlot(e)' /\ AsFits(e) /\ AsFits(e)'
        /\ ~ev[e].early => PlaceFits(e) /\ PlaceFits(e)' /\ InsideFits(e)
        /\ IsActive(slots[ev'[e].slot])
    BY <1>0, <1>2, <2>1, GoesOnFits
  <2>3. ASSUME ~ev[e].early, ev'[e].pc = "created", ev[e].as = "Future"
        PROVE  OfItsPulse(slots[i], e)
    <3>1. ev[e].wrap = "future" /\ slots[i].range.right > FirstPulse
      BY <2>2, <2>3 DEF InsideFits, PlaceFits
    <3>2. a.ok /\ ~a.isFuture
      BY <1>2, <2>3, <3>1
    <3>3. pulses.present # Unknown
      BY <1>0, <2>1, <2>3 DEF Orderly, BeforeFirst
    <3>4. Running
      BY <1>0, <3>3 DEF Orderly
    <3>5. i \in DOMAIN slots /\ slots[i] \in SlotType /\ ev[e].pn \in Int
      <4>1. ev[e] \in EventType /\ i \in DOMAIN slots
        BY <1>0, <2>2 DEF EventsTyped
      <4>2. ev[e].pn \in Keys
        BY <4>1 DEF EventType
      <4> QED BY <1>0, <4>1, <4>2, SlotsAre, KeysAre DEF Typed
    <3>6. SlotFits(i)
      BY <3>4, <3>5 DEF Running
    <3>7. slots[i].st = "Present"
      BY <3>2 DEF a, IsAcceptedFutureOrPresent, IsAcceptedPresent
    <3>8. slots[i].range.right = pulses.present
      <4>1. i = presentMachine
        BY <3>6, <3>7 DEF SlotFits
      <4> QED BY <1>0, <3>4, <4>1 DEF Running, PresentFits
    <3>9. KnowsBounds(slots[i].range) /\ slots[i].range.left <= slots[i].range.right
      BY <3>1, <3>6 DEF SlotFits
    <3>10. Covers(slots[i], ev[e].pn)
      BY <3>2, <3>5, <3>8, <3>9, AcceptedIsCovered DEF a
    <3> QED BY <3>7, <3>10 DEF OfItsPulse
  <2>4. ~ev[e].early => InsideFits(e)'
    <3>1. OfItsPulse(slots[i], e) => OfItsPulse(slots[i], e)'
      BY <1>0, <1>2 DEF OfItsPulse, Covers, GoesOn, Moves, SlotState
    <3>2. slots'[ev'[e].slot] = slots[i] /\ slots' = slots /\ ev'[e].slot = i
      BY <1>0, <1>2 DEF GoesOn, SlotState
    <3>3. ~ev[e].early /\ ev'[e].pc = "created" /\ ev'[e].as = "Future" =>
            OfItsPulse(slots[ev[e].slot], e)'
      BY <1>2, <2>3, <3>1, <3>2 DEF GoesOn, OfItsPulse, Covers
    <3> QED BY <1>2, <2>2, <3>3 DEF InsideFits, GoesOn, Moves
  <2>5. Passes(e)
    BY <1>0, <1>2, <1>4, <2>1, <2>2, <2>4 DEF Passes
  <2> QED BY <1>0, <1>1, <2>5, PassesInv
<1> QED BY <1>3, <1>4

(* The slot a call finds is one for its event. *)
LEMMA FindsFits ==
    ASSUME Typed, Orderly, NEW e \in Events, ev[e].pc = "mapped", ~ev[e].early,
           NEW key \in Keys, NEW as \in States, Seeks(e, key, as), published[key] # NoSlot
    PROVE  LET s == slots[published[key]] IN
           /\ as = "Antique" => s.st = "Antique"
           /\ as = "Present" => OfItsPulse(s, e)
           /\ as = "Past" /\ ev[e].pn >= FirstPulse => OfItsPulse(s, e)
           /\ as = "Future" => s.range.right > FirstPulse
<1> DEFINE i == published[key]
           s == slots[i]
           now == ev[e].now
<1>0. /\ InCall(e) /\ CallFits(e) /\ AsFits(e)
      /\ pulses.present # Unknown /\ Running
  BY DEF Orderly, CallsInv, BeforeFirst, InCall
<1>1. /\ i \in DOMAIN slots /\ s \in SlotType /\ SlotFits(i)
      /\ s.range.left \in Int /\ s.range.right \in Int
  <2>1. i \in DOMAIN slots /\ s \in SlotType
    BY SlotsAre DEF Typed
  <2> QED BY <1>0, <2>1 DEF Running, SlotType, RangeType
<1>2. /\ key >= FirstPulse => Covers(s, key)
      /\ key = Unknown => s.st = "Antique"
  BY <1>0 DEF Running, RegistryFits
<1>3. /\ FirstPulse \in Nat \ {0} /\ Delta \in Nat \ {0} /\ LastPulse \in Nat
      /\ pulses.present \in FirstPulse .. LastPulse /\ pulses.future = pulses.present + Delta
      /\ key \in Int /\ ev[e].pn \in Int
  <2>1. ev[e] \in EventType
    BY DEF Typed, EventsTyped
  <2>2. ev[e].pn \in Keys
    BY <2>1 DEF EventType
  <2> QED BY <1>0, <2>2, ConveyorAssumption, KeysAre DEF Running
<1>4. now.present # Unknown
  BY <1>0 DEF AsFits
<1> HIDE DEF s
<1>5. ASSUME as = "Antique" PROVE s.st = "Antique"
  BY <1>2, <1>5 DEF Seeks
<1>6. ASSUME as = "Present" PROVE OfItsPulse(s, e)
  <2>1. key = ev[e].pn /\ key = now.present
    BY <1>0, <1>6 DEF Seeks, AsFits
  <2>2. CASE ~ev[e].late
    <3>1. key = pulses.present
      BY <1>0, <2>1, <2>2 DEF CallFits
    <3>2. s.st \in {"Present", "Past"}
      BY <1>0, <3>1 DEF Running, PresentFits, s
    <3> QED BY <1>2, <1>3, <2>1, <3>1, <3>2 DEF OfItsPulse
  <2>3. CASE ev[e].late
    <3>1. key >= FirstPulse /\ s.st = "Past"
      BY <1>0, <1>4, <2>1, <2>3 DEF CallFits, LateFits, s
    <3> QED BY <1>2, <2>1, <3>1 DEF OfItsPulse
  <2> QED BY <2>2, <2>3
<1>7. ASSUME as = "Past", ev[e].pn >= FirstPulse PROVE OfItsPulse(s, e)
  <2>1. key = ev[e].pn /\ key < now.present
    BY <1>0, <1>7 DEF Seeks, AsFits
  <2>2. Covers(s, key)
    BY <1>2, <1>7, <2>1
  <2>3. now.present <= pulses.present /\ now.present \in Int
    <3>1. CASE ~ev[e].late
      BY <1>0, <1>3, <3>1 DEF CallFits
    <3>2. CASE ev[e].late
      <4>1. ev[e] \in EventType
        BY DEF Typed, EventsTyped
      <4>2. now.present \in Int
        BY <4>1, <1>4, KeysAre DEF EventType, NowType
      <4>3. now.present < pulses.present
        BY <1>0, <1>4, <3>2 DEF CallFits, LateFits
      <4> QED BY <1>3, <4>2, <4>3
    <3> QED BY <3>1, <3>2
  <2>4. key < pulses.future /\ key >= FirstPulse /\ key <= s.range.right /\ s.range.left <= key
    BY <1>1, <1>3, <1>7, <2>1, <2>2, <2>3 DEF Covers
  <2>5. s.range # OnePulse(pulses.future)
    BY <1>1, <1>3, <2>4 DEF OnePulse
  <2>6. s.range.right \in FirstPulse .. LastStarted => s.st \in {"Present", "Past"}
    BY <1>1 DEF SlotFits, s
  <2>7. s.range.right <= LastStarted
    BY <1>1, <2>5 DEF SlotFits, s
  <2>8. LastStarted \in Int
    BY <1>3 DEF LastStarted, Typed, PulsesTyped, CommitType, RangeType
  <2>9. s.range.right \in FirstPulse .. LastStarted
    BY <1>1, <1>3, <2>4, <2>7, <2>8
  <2> QED BY <2>1, <2>2, <2>6, <2>9 DEF OfItsPulse
<1>8. ASSUME as = "Future" PROVE s.range.right > FirstPulse
  <2>1. key = now.future
    BY <1>8 DEF Seeks
  <2>2. key > FirstPulse
    <3>1. CASE ~ev[e].late
      BY <1>0, <1>3, <2>1, <3>1 DEF CallFits
    <3>2. CASE ev[e].late
      BY <1>0, <1>4, <2>1, <3>2 DEF CallFits, LateFits
    <3> QED BY <3>1, <3>2
  <2>3. key >= FirstPulse
    BY <2>2, <1>3
  <2> QED BY <1>1, <1>2, <1>3, <2>2, <2>3 DEF Covers
<1> QED BY <1>5, <1>6, <1>7, <1>8 DEF s

(* A call never takes a pulse for the present one that has no slot. *)
LEMMA NoMiss ==
    ASSUME Typed, Orderly, NEW e \in Events, ev[e].pc = "mapped"
    PROVE  ~Misses(e)
<1> DEFINE now == ev[e].now
<1>0. InCall(e) /\ CallFits(e) /\ AsFits(e)
  BY DEF Orderly, CallsInv, InCall
<1>1. SUFFICES ASSUME ev[e].as \in {"Present", "Past"} PROVE published[now.present] # NoSlot
  BY <1>0 DEF Misses, AsFits
<1>2. now.present # Unknown /\ ~ev[e].early
  BY <1>0, <1>1 DEF AsFits
<1>3. CASE ev[e].late
  BY <1>0, <1>2, <1>3 DEF CallFits, LateFits
<1>4. CASE ~ev[e].late
  <2>1. now = pulses
    BY <1>0, <1>4 DEF CallFits
  <2>2. Running
    BY <1>2, <2>1 DEF Orderly
  <2> QED BY <2>1, <2>2 DEF Running, PresentFits
<1> QED BY <1>3, <1>4

LEMMA FindsInv ==
    ASSUME ConveyorInv, ~broken, NEW e \in Events, ev[e].pc = "mapped", Typed',
           NEW key \in Keys, NEW as \in States, Finds(e, key, as),
           UNCHANGED <<pulses, cache, WorkerState, broken>>
    PROVE  ConveyorInv'
<1>0. Typed /\ Orderly /\ EventsTyped /\ SlotsTyped
  BY DEF ConveyorInv, Typed
<1>1. /\ Moves(e) /\ UNCHANGED <<slots, published>>
      /\ ev'[e].pc = "add" /\ ev'[e].slot = published[key] /\ ev'[e].as = as
      /\ published[key] # NoSlot /\ Seeks(e, key, as)
  BY <1>0, UsePublishedEffect DEF Finds
<1>2. UNCHANGED SlotState
  BY <1>1 DEF SlotState, WorkerState
<1>3. /\ InCall(e) /\ AsFits(e) /\ ~HasSlot(e)
      /\ InCall(e)' /\ HasSlot(e)' /\ ev'[e].pc \notin Inside
  BY <1>0, <1>1 DEF InCall, HasSlot, Inside, Orderly, CallsInv
<1>4. AsFits(e)'
  BY <1>1, <1>3 DEF AsFits, Seeks, Moves
<1>5. ~ev[e].early => PlaceFits(e)'
  <2>1. SUFFICES ASSUME ~ev[e].early PROVE PlaceFits(e)'
    OBVIOUS
  <2> DEFINE s == slots[published[key]]
  <2>2. /\ as = "Antique" => s.st = "Antique"
        /\ as = "Present" => OfItsPulse(s, e)
        /\ as = "Past" /\ ev[e].pn >= FirstPulse => OfItsPulse(s, e)
        /\ as = "Future" => s.range.right > FirstPulse
    BY <1>0, <1>1, <2>1, FindsFits
  <2>3. slots'[ev'[e].slot] = s /\ ev'[e].pn = ev[e].pn
    BY <1>1 DEF Moves
  <2> HIDE DEF s
  <2> QED BY <1>1, <2>2, <2>3 DEF PlaceFits, OfItsPulse, Covers
<1>6. Passes(e)
  BY <1>1, <1>2, <1>3, <1>4, <1>5 DEF Passes
<1> QED BY <1>6, PassesInv

-----------------------------------------------------------------------------
(***************************************************************************)
(* A call publishes a slot.                                                *)
(***************************************************************************)
\* The slots and what is published stay, and there may be more.
Grows ==
    /\ \A j \in DOMAIN slots : j \in DOMAIN slots' /\ slots'[j] = slots[j]
    /\ \A k \in Keys : published[k] # NoSlot => published'[k] = published[k]
    /\ UNCHANGED <<pulses, presentMachine, commit>>

LEMMA GrowsFrame ==
    ASSUME Typed, Grows, presentMachine # NoSlot \/ pulses.present = Unknown,
           NEW d \in Events, ev'[d].now = ev[d].now, ev'[d].late = ev[d].late,
           CallFits(d)
    PROVE  CallFits(d)'
<1> DEFINE now == ev[d].now
<1>1. now.present \in Keys /\ now.future \in Keys
  <2>1. ev[d] \in EventType
    BY DEF Typed, EventsTyped
  <2> QED BY <2>1, KeysAre DEF EventType, NowType, Keys
<1>2. CASE ~ev[d].late
  BY <1>2 DEF CallFits, Grows
<1>3. CASE ev[d].late
  <2>1. LateFits(d)
    BY <1>3 DEF CallFits
  <2>2. now.present # Unknown =>
          /\ published'[now.present] = published[now.present]
          /\ slots'[published[now.present]] = slots[published[now.present]]
          /\ published'[now.future] = published[now.future]
    <3>1. SUFFICES ASSUME now.present # Unknown
                   PROVE  /\ published'[now.present] = published[now.present]
                          /\ slots'[published[now.present]] = slots[published[now.present]]
                          /\ published'[now.future] = published[now.future]
      OBVIOUS
    <3>2. published[now.present] # NoSlot /\ published[now.future] = presentMachine
          /\ pulses.present # Unknown
      BY <2>1, <3>1 DEF LateFits
    <3>3. published[now.present] \in DOMAIN slots
      BY <1>1, <3>2, SlotsAre DEF Typed
    <3> QED BY <1>1, <3>2, <3>3 DEF Grows
  <2>3. LateFits(d)'
    BY <2>1, <2>2 DEF LateFits, Grows, IsActive
  <2> QED BY <1>3, <2>3 DEF CallFits
<1> QED BY <1>2, <1>3

LEMMA GrowsPlaces ==
    ASSUME Typed, Grows, NEW d \in Events, ev'[d] = ev[d], HasSlot(d)
    PROVE  /\ StartFits(d)' <=> StartFits(d)
           /\ PlaceFits(d)' <=> PlaceFits(d)
           /\ InsideFits(d)' <=> InsideFits(d)
<1>1. slots'[ev'[d].slot] = slots[ev[d].slot]
  BY DEF Typed, EventsTyped, Grows
<1> QED BY <1>1 DEF StartFits, PlaceFits, InsideFits, OfItsPulse, Covers, Grows

(* When there is a slot for the expected pulse to publish, and where. *)
LEMMA PublishesWhere ==
    ASSUME Typed, Orderly, NEW e \in Events, ev[e].pc = "mapped",
           NEW key \in Keys, NEW as, Seeks(e, key, as), published[key] = NoSlot,
           as \in {"Antique", "Future"}
    PROVE  /\ pulses.present = Unknown => as = "Future" /\ key = pulses.future
           /\ as = "Antique" => key = Unknown
           /\ as = "Future" => key \in Pulses
           /\ pulses.present # Unknown /\ as = "Future" =>
                 \/ ev[e].early /\ key < FirstPulse
                 \/ key = pulses.future /\ commit.phase # "route"
<1> DEFINE now == ev[e].now
<1>0. InCall(e) /\ CallFits(e) /\ AsFits(e)
  BY DEF Orderly, CallsInv, InCall
<1>1. now.future \in Pulses /\ now.future \in Int /\ FirstPulse \in Nat
  <2>1. ev[e] \in EventType
    BY DEF Typed, EventsTyped
  <2> QED BY <1>0, <2>1, KeysAre, ConveyorAssumption DEF EventType, NowType, CallFits
<1>2. ASSUME pulses.present = Unknown PROVE as = "Future" /\ key = pulses.future
  <2>1. ev[e].early /\ ~ev[e].late
    BY <1>0, <1>2 DEF Orderly, BeforeFirst, CallFits, LateFits
  <2>2. ev[e].as = "Future" /\ now = pulses
    BY <1>0, <2>1 DEF AsFits, CallFits
  <2> QED BY <2>2 DEF Seeks
<1>3. (as = "Antique" => key = Unknown) /\ (as = "Future" => key = now.future)
  BY DEF Seeks
<1>4. ASSUME pulses.present # Unknown, as = "Future"
      PROVE  \/ ev[e].early /\ key < FirstPulse
             \/ key = pulses.future /\ commit.phase # "route"
  <2>1. Running
    BY <1>4 DEF Orderly
  <2>2. presentMachine # NoSlot
    BY <2>1 DEF Running
  <2>3. CASE ~ev[e].late
    <3>1. key = pulses.future
      BY <1>0, <1>3, <1>4, <2>3 DEF CallFits
    <3>2. commit.phase # "route"
      BY <2>1, <2>2, <3>1 DEF Running, NextFits, CommitFits
    <3> QED BY <3>1, <3>2
  <2>4. CASE ev[e].late
    <3>1. LateFits(e)
      BY <1>0, <2>4 DEF CallFits
    <3>2. now.present = Unknown
      BY <1>3, <1>4, <2>2, <3>1 DEF LateFits
    <3>3. key <= FirstPulse /\ pulses.present = FirstPulse
      BY <1>3, <1>4, <3>1, <3>2 DEF LateFits
    <3>4. key # FirstPulse
      BY <2>1, <3>3 DEF Running, PresentFits
    <3> QED BY <1>0, <1>1, <1>3, <1>4, <3>2, <3>3, <3>4 DEF AsFits
  <2> QED BY <2>3, <2>4
<1> QED BY <1>1, <1>2, <1>3, <1>4

\* A call has published the slot n under the key.
NewlyPublished(n, key, as) ==
    /\ n = Len(slots) + 1 /\ n \notin DOMAIN slots /\ n # NoSlot /\ n # presentMachine
    /\ DOMAIN slots' = DOMAIN slots \cup {n}
    /\ \A j \in DOMAIN slots : slots'[j] = slots[j]
    /\ slots'[n] = SlotFor(key, as)
    /\ \A k \in Keys : published'[k] = IF k = key THEN n ELSE published[k]
    /\ UNCHANGED <<pulses, unpublishPulse, presentMachine, commit>>

LEMMA PublishesBeforeFirst ==
    ASSUME Typed, BeforeFirst, NEW n, NEW key \in Keys, published[key] = NoSlot,
           key = pulses.future, key # LocalRelative, NewlyPublished(n, key, "Future"),
           \A e \in Events : ev'[e].pc \in {"mapped", "activate", "add"} \cup Inside => ev'[e].early,
           \A e \in Events : ev[e].early => ev'[e].early
    PROVE  BeforeFirst'
<1>1. \A i \in DOMAIN slots : i = presentMachine
  <2>1. \A i \in DOMAIN slots : i # NoSlot
    BY SlotsAre DEF Typed, NoSlot
  <2> QED BY <2>1 DEF BeforeFirst
<1>2. presentMachine # NoSlot => pulses.future # FirstPulse
  BY DEF BeforeFirst
<1>3. /\ slots'[n].mig = "None" /\ slots'[n].st = "Future" /\ slots'[n].range = OnePulse(key)
      /\ slots'[n].unpub = LocalRelative
  BY DEF NewlyPublished, SlotFor, NewSlot
<1>4. ASSUME NEW i \in DOMAIN slots'
      PROVE  /\ slots'[i].mig \in {"None", "Future"}
             /\ i = presentMachine' => FirstPresent(slots[i])'
             /\ i # presentMachine' => /\ Early(slots[i])' /\ published'[pulses'.future] = i
                                       /\ presentMachine' # NoSlot => pulses'.future # FirstPulse
  <2>1. CASE i = n
    BY <1>2, <1>3, <2>1 DEF NewlyPublished, Early
  <2>2. CASE i # n
    BY <1>1, <1>4, <2>2 DEF NewlyPublished, BeforeFirst, FirstPresent
  <2> QED BY <2>1, <2>2
<1>5. \A k \in Keys : published'[k] # NoSlot =>
        \/ k = pulses'.future
        \/ published'[k] = presentMachine' /\ k \in {LocalRelative, FirstPulse}
  BY DEF NewlyPublished, BeforeFirst
<1>6. presentMachine' # NoSlot =>
        /\ published'[FirstPulse] = presentMachine'
        /\ unpublishPulse' \in {LocalRelative, Unknown, pulses'.future} \ {FirstPulse}
  <2>1. presentMachine # NoSlot => FirstPulse \in Keys
    <3>1. presentMachine # NoSlot => FirstPulse <= LastPulse
      BY DEF BeforeFirst
    <3> QED BY <3>1, KeysAre, ConveyorAssumption
  <2> QED BY <1>2, <2>1 DEF NewlyPublished, BeforeFirst
<1>7. /\ presentMachine' = NoSlot <=> commit'.phase # "route"
      /\ commit'.phase # "idle" => /\ commit'.range = FirstRange
                                   /\ commit'.future \in {LocalRelative, pulses'.future}
                                   /\ FirstPulse <= LastPulse
      /\ presentMachine' = NoSlot => unpublishPulse' = Unknown
      /\ pulses'.future # LocalRelative => \E e \in Events : ev'[e].early
  BY DEF NewlyPublished, BeforeFirst
<1> QED BY <1>4, <1>5, <1>6, <1>7 DEF BeforeFirst

(* The numbers that come up while the conveyor runs. *)
LEMMA RunningNumbers ==
    ASSUME Typed, Running
    PROVE  /\ FirstPulse \in Nat \ {0} /\ Delta \in Nat \ {0} /\ LastPulse \in Nat
           /\ pulses.present \in Int /\ pulses.future \in Int /\ FirstPulse <= pulses.present
           /\ pulses.present <= LastPulse /\ pulses.future = pulses.present + Delta
           /\ pulses.present \in Keys /\ pulses.future \in Keys /\ pulses.present # Unknown
           /\ LastStarted \in Int /\ pulses.present <= LastStarted
           /\ LastPublished \in Int /\ LastStarted <= LastPublished
           /\ LastPublished \in Keys /\ LastStarted >= FirstPulse
           /\ commit.phase # "route" => LastStarted = pulses.present
           /\ commit.phase = "route" => LastStarted = commit.range.right
           /\ \A i \in DOMAIN slots : slots[i].range.left \in Int /\ slots[i].range.right \in Int
           /\ \A k \in Keys : k \in Int
           /\ Unknown \in Keys /\ Unknown \in Int /\ Unknown < FirstPulse
<1>1. /\ FirstPulse \in Nat \ {0} /\ Delta \in Nat \ {0} /\ LastPulse \in Nat
      /\ pulses.present \in FirstPulse .. LastPulse /\ pulses.future = pulses.present + Delta
  BY ConveyorAssumption DEF Running
<1>2. /\ commit.range.right \in Int
      /\ commit.phase # "idle" =>
            /\ commit.range.right \in {pulses.future, pulses.future + Delta}
            /\ commit.range.right <= LastPulse
  BY DEF Typed, PulsesTyped, CommitType, RangeType, Running, CommitFits
<1>3. pulses.present \in Keys /\ pulses.future \in Keys /\ pulses.present # Unknown
      /\ Unknown \in Keys /\ Unknown \in Int /\ Unknown < FirstPulse
  BY <1>1, KeysAre DEF Unknown, Keys
<1>4. \A i \in DOMAIN slots : slots[i].range.left \in Int /\ slots[i].range.right \in Int
  BY SlotsAre DEF Typed, SlotType, RangeType
<1>5. CASE commit.phase = "route"
  <2>1. LastStarted = commit.range.right /\ LastPublished = commit.range.right
    BY <1>5 DEF LastStarted, LastPublished
  <2>2. commit.range.right >= pulses.future /\ commit.range.right <= LastPulse
    BY <1>1, <1>2, <1>5
  <2> QED BY <1>1, <1>2, <1>3, <1>4, <1>5, <2>1, <2>2, KeysAre
<1>6. CASE commit.phase # "route"
  <2>1. LastStarted = pulses.present /\ LastPublished = pulses.future
    BY <1>6 DEF LastStarted, LastPublished
  <2> QED BY <1>1, <1>2, <1>3, <1>4, <1>6, <2>1, KeysAre
<1> QED BY <1>5, <1>6

LEMMA PublishesRunning ==
    ASSUME Typed, Running, NEW n, NEW key \in Keys, NEW as, published[key] = NoSlot,
           NewlyPublished(n, key, as),
           \/ as = "Antique" /\ key = Unknown
           \/ as = "Future" /\ key \in Pulses /\ key < FirstPulse
           \/ as = "Future" /\ key = pulses.future /\ commit.phase # "route"
    PROVE  Running'
<1>0. /\ FirstPulse \in Nat \ {0} /\ Delta \in Nat \ {0}
      /\ pulses.present \in Int /\ pulses.future \in Int /\ FirstPulse <= pulses.present
      /\ pulses.future = pulses.present + Delta
      /\ pulses.present \in Keys /\ pulses.future \in Keys
      /\ LastStarted \in Int /\ pulses.present <= LastStarted
      /\ LastPublished \in Int /\ LastStarted <= LastPublished /\ LastStarted >= FirstPulse
      /\ commit.phase # "route" => LastStarted = pulses.present
      /\ key \in Int /\ Unknown < FirstPulse /\ Unknown \in Int
  BY RunningNumbers
<1>a. /\ \A i \in DOMAIN slots : slots[i].range.left \in Int /\ slots[i].range.right \in Int
      /\ \A k \in Keys : k \in Int
  BY RunningNumbers
<1>1. /\ LastStarted' = LastStarted /\ LastPublished' = LastPublished
      /\ (CommitFits)' <=> CommitFits
  BY DEF NewlyPublished, LastStarted, LastPublished, CommitFits, KnowsBounds
<1>2. /\ slots'[n].mig = "None" /\ slots'[n].st = as /\ slots'[n].range = OnePulse(key)
      /\ slots'[n].unpub = LocalRelative
      /\ slots'[n].range.left = key /\ slots'[n].range.right = key
  BY DEF NewlyPublished, SlotFor, NewSlot, OnePulse
<1>3. /\ as = "Antique" => key = Unknown
      /\ as = "Future" => key # Unknown
      /\ as = "Future" /\ key >= FirstPulse => key = pulses.future /\ commit.phase # "route"
      /\ as \in {"Antique", "Future"}
  <2>1. CASE as = "Antique" /\ key = Unknown
    BY <1>0, <2>1
  <2>2. CASE as = "Future" /\ key \in Pulses /\ key < FirstPulse
    <3>1. key # Unknown
      BY <2>2, KeysAre DEF Unknown
    <3> QED BY <1>0, <2>2, <3>1
  <2>3. CASE as = "Future" /\ key = pulses.future /\ commit.phase # "route"
    BY <1>0, <2>3
  <2> QED BY <2>1, <2>2, <2>3
<1>4. SlotFits(n)'
  <2>1. KnowsBounds(OnePulse(key))
    BY DEF KnowsBounds, OnePulse
  <2>2. \/ key <= LastStarted
        \/ commit.phase # "route" /\ key = pulses.future /\ as = "Future"
    <3>1. CASE as = "Antique"
      BY <1>0, <1>3, <3>1
    <3>2. CASE as = "Future" /\ key >= FirstPulse
      BY <1>3, <3>2
    <3>3. CASE as = "Future" /\ ~(key >= FirstPulse)
      BY <1>0, <3>3
    <3> QED BY <1>3, <3>1, <3>2, <3>3
  <2>3. ~(key \in FirstPulse .. LastStarted)
    <3>1. SUFFICES ASSUME key >= FirstPulse, key <= LastStarted PROVE FALSE
      BY <1>0
    <3>2. as # "Antique"
      <4>1. key # Unknown
        BY <1>0, <3>1
      <4> QED BY <1>3, <4>1
    <3>3. key = pulses.future /\ LastStarted = pulses.present
      BY <1>0, <1>3, <3>1, <3>2
    <3> QED BY <1>0, <3>1, <3>3
  <2>4. published'[key] = n
    BY DEF NewlyPublished
  <2>5. UNCHANGED <<pulses, commit, presentMachine>> /\ n # presentMachine
    BY DEF NewlyPublished
  <2> DEFINE s == slots'[n]
  <2>6. s.range.left <= s.range.right /\ s.unpub = LocalRelative
    BY <1>0, <1>2
  <2>7. /\ s.st = "Antique" => s.range.right = Unknown /\ s.mig \in {"None", "Antique"}
        /\ s.range.right = Unknown => s.st = "Antique"
    BY <1>2, <1>3
  <2>8. \/ s.range.right <= LastStarted'
        \/ /\ commit'.phase # "route" /\ s.range = OnePulse(pulses'.future)
           /\ s.st = "Future" /\ s.mig \in {"None", "Future"} /\ published'[pulses'.future] = n
    BY <1>1, <1>2, <2>2, <2>4, <2>5
  <2>9. /\ s.range.right \in FirstPulse .. LastStarted' => s.st \in {"Present", "Past"}
        /\ s.range.right > FirstPulse => KnowsBounds(s.range)
        /\ s.st = "Present" <=> commit'.phase # "publish" /\ n = presentMachine'
    BY <1>1, <1>2, <1>3, <2>1, <2>3, <2>5
  <2> HIDE DEF s
  <2> QED BY <2>6, <2>7, <2>8, <2>9 DEF SlotFits, s, Covers
<1>5. ASSUME NEW i \in DOMAIN slots PROVE SlotFits(i)'
  <2>1. SlotFits(i) /\ slots'[i] = slots[i]
    BY <1>5 DEF Running, NewlyPublished
  <2>2. i # NoSlot
    BY <1>5, SlotsAre DEF Typed, NoSlot
  <2>3. published[pulses.future] = i => published'[pulses'.future] = i
    BY <1>0, <2>2 DEF NewlyPublished
  <2> QED BY <1>1, <2>1, <2>3 DEF SlotFits, NewlyPublished, Covers
<1>6. \A i \in DOMAIN slots' : SlotFits(i)'
  BY <1>4, <1>5 DEF NewlyPublished
<1>7. ASSUME NEW j \in DOMAIN slots, NEW k \in Keys, k >= FirstPulse, Covers(slots[j], k)
      PROVE  ~Covers(slots'[n], k)
  <2>1. SUFFICES ASSUME k = key PROVE FALSE
    BY <1>0, <1>a, <1>2 DEF Covers
  <2>2. as = "Future" /\ key = pulses.future /\ commit.phase # "route"
    <3>1. as # "Antique"
      <4>1. key # Unknown
        BY <1>0, <1>7, <2>1
      <4> QED BY <1>3, <4>1
    <3> QED BY <1>3, <1>7, <2>1, <3>1
  <2>3. slots[j].range.right >= pulses.future
    BY <1>0, <1>a, <1>7, <2>1, <2>2 DEF Covers
  <2>4. SlotFits(j)
    BY <1>7 DEF Running
  <2>5. ~(slots[j].range.right <= LastStarted)
    BY <1>0, <1>a, <1>7, <2>2, <2>3
  <2>6. published[pulses.future] = j
    BY <2>4, <2>5 DEF SlotFits
  <2>7. j # NoSlot
    BY <1>7, SlotsAre DEF Typed, NoSlot
  <2> QED BY <2>2, <2>6, <2>7
<1>8. OneSlotPerPulse'
  <2>1. SUFFICES ASSUME NEW i \in DOMAIN slots', NEW j \in DOMAIN slots', NEW k \in Keys,
                        k >= FirstPulse, Covers(slots'[i], k), Covers(slots'[j], k)
                 PROVE  i = j
    BY DEF OneSlotPerPulse, Covers
  <2>2. CASE i \in DOMAIN slots /\ j \in DOMAIN slots
    BY <2>1, <2>2 DEF Running, OneSlotPerPulse, NewlyPublished
  <2>3. CASE i = n /\ j # n
    BY <1>7, <2>1, <2>3 DEF NewlyPublished
  <2>4. CASE j = n /\ i # n
    BY <1>7, <2>1, <2>4 DEF NewlyPublished
  <2> QED BY <2>1, <2>2, <2>3, <2>4 DEF NewlyPublished
<1>9. RegistryFits'
  <2>1. SUFFICES ASSUME NEW k \in Keys, published'[k] # NoSlot
                 PROVE  /\ k >= FirstPulse => Covers(slots'[published'[k]], k)
                        /\ k = Unknown => slots'[published'[k]].st = "Antique"
                        /\ k <= LastPublished
    BY <1>1 DEF RegistryFits, Covers
  <2>2. CASE k = key
    <3>1. published'[k] = n
      BY <2>2 DEF NewlyPublished
    <3>2. key <= LastPublished
      <4>1. CASE as = "Antique"
        BY <1>0, <1>3, <4>1
      <4>2. CASE as = "Future" /\ key >= FirstPulse
        BY <1>0, <1>3, <4>2 DEF LastPublished
      <4>3. CASE as = "Future" /\ ~(key >= FirstPulse)
        BY <1>0, <4>3
      <4> QED BY <1>3, <4>1, <4>2, <4>3
    <3>3. Covers(slots'[n], key)
      BY <1>0, <1>2 DEF Covers
    <3>4. key = Unknown => as = "Antique"
      BY <1>3
    <3> QED BY <1>2, <2>2, <3>1, <3>2, <3>3, <3>4
  <2>3. CASE k # key
    <3>1. published'[k] = published[k] /\ published[k] \in DOMAIN slots
      BY <2>1, <2>3, SlotsAre DEF NewlyPublished, Typed
    <3>2. slots'[published'[k]] = slots[published[k]]
      BY <3>1 DEF NewlyPublished
    <3> QED BY <2>1, <3>1, <3>2 DEF Running, RegistryFits
  <2> QED BY <2>2, <2>3
<1>10. PresentFits' /\ NextFits'
  <2>1. Grows
    BY <1>0 DEF NewlyPublished, Grows
  <2>2. /\ published[pulses.present] # NoSlot
        /\ published'[pulses.present] = published[pulses.present]
        /\ slots'[published[pulses.present]] = slots[published[pulses.present]]
    <3>1. published[pulses.present] # NoSlot
      BY DEF Running, PresentFits
    <3>2. published[pulses.present] \in DOMAIN slots
      BY <1>0, <3>1, SlotsAre DEF Typed
    <3> QED BY <1>0, <2>1, <3>1, <3>2 DEF Grows
  <2>3. PresentFits'
    BY <2>1, <2>2 DEF Running, PresentFits, Grows
  <2>4. NextFits'
    <3>1. SUFFICES ASSUME commit.phase = "route" PROVE NextFits'
      BY DEF NextFits, NewlyPublished
    <3>2. presentMachine # NoSlot /\ presentMachine \in DOMAIN slots
      BY SlotsAre DEF Running, Typed, PulsesTyped, NoSlot
    <3>3. commit.range.right \in Keys /\ commit.future \in Keys
      <4>1. commit.range.right = LastPublished
        BY <3>1 DEF LastPublished
      <4> QED BY <4>1, RunningNumbers, <3>1, <1>0 DEF Running, CommitFits
    <3>4. slots'[presentMachine] = slots[presentMachine]
      BY <2>1, <3>2 DEF Grows
    <3> QED BY <2>1, <3>1, <3>2, <3>3, <3>4 DEF Running, NextFits, Grows
  <2> QED BY <2>3, <2>4
<1>11. /\ pulses'.present \in FirstPulse .. LastPulse
       /\ pulses'.future = pulses'.present + Delta
       /\ presentMachine' # NoSlot /\ unpublishPulse' < LastStarted'
  BY <1>1 DEF Running, NewlyPublished
<1> QED BY <1>1, <1>6, <1>8, <1>9, <1>10, <1>11 DEF Running

LEMMA PublishesInv ==
    ASSUME ConveyorInv, ~broken, NEW e \in Events, ev[e].pc = "mapped", Typed',
           NEW key \in Keys, NEW as \in States, Publishes(e, key, as),
           UNCHANGED <<pulses, cache, WorkerState, broken>>
    PROVE  ConveyorInv'
<1> DEFINE n == Len(slots) + 1
<1>0. /\ Typed /\ Orderly /\ EventsTyped /\ SlotsTyped /\ PulsesTyped
      /\ published[key] = NoSlot /\ Seeks(e, key, as) /\ as \in {"Antique", "Future"}
  BY DEF ConveyorInv, Typed, Publishes
<1>1. SlotFor(key, as) \in SlotType
  BY <1>0, PublishesTyped DEF Publishes
<1>2. /\ Moves(e) /\ slots' = Append(slots, SlotFor(key, as))
      /\ published' = [published EXCEPT ![key] = n]
      /\ ev'[e].pc = "activate" /\ ev'[e].slot = n /\ ev'[e].as = as
  BY <1>0, <1>1, PublishNewEffect DEF Publishes
<1>3. NewlyPublished(n, key, as)
  <2>1. /\ n \notin DOMAIN slots /\ DOMAIN slots' = DOMAIN slots \cup {n}
        /\ \A j \in DOMAIN slots : slots'[j] = slots[j]
        /\ slots'[n] = SlotFor(key, as)
    <3>1. PICK s \in SlotType : s = SlotFor(key, as)
      BY <1>1
    <3>2. slots \in Seq(SlotType) /\ slots' = Append(slots, s)
      BY <1>0, <1>2, <3>1 DEF SlotsTyped
    <3>3. /\ n \notin DOMAIN slots
          /\ DOMAIN Append(slots, s) = DOMAIN slots \cup {n}
          /\ \A j \in DOMAIN slots : Append(slots, s)[j] = slots[j]
          /\ Append(slots, s)[n] = s
      BY <3>2, SlotAppended
    <3> QED BY <3>1, <3>2, <3>3, Zenon
  <2>2. n # NoSlot /\ n # presentMachine
    BY <1>0, SlotsAre DEF PulsesTyped, NoSlot
  <2>3. \A k \in Keys : published'[k] = IF k = key THEN n ELSE published[k]
    BY <1>0, <1>2 DEF SlotsTyped
  <2> QED BY <2>1, <2>2, <2>3 DEF NewlyPublished, WorkerState
<1> HIDE DEF n
<1>4. Grows
  BY <1>0, <1>3 DEF NewlyPublished, Grows
<1>5. /\ InCall(e) /\ AsFits(e) /\ CallFits(e) /\ ~HasSlot(e)
      /\ InCall(e)' /\ HasSlot(e)' /\ ev'[e].pc \notin Inside
      /\ \A d \in Events : d # e => ev'[d] = ev[d]
      /\ \A d \in Events : ev'[d].early = ev[d].early
  BY <1>0, <1>2 DEF InCall, HasSlot, Inside, Orderly, CallsInv, Moves
<1>6. /\ pulses.present = Unknown => as = "Future" /\ key = pulses.future
      /\ as = "Antique" => key = Unknown
      /\ as = "Future" => key \in Pulses
      /\ pulses.present # Unknown /\ as = "Future" =>
            \/ ev[e].early /\ key < FirstPulse
            \/ key = pulses.future /\ commit.phase # "route"
  BY <1>0, PublishesWhere
<1>7. pulses.present # Unknown => Running /\ presentMachine # NoSlot
  BY <1>0 DEF Orderly, Running
<1>8. AcceptedNotLost'
  <2>1. SUFFICES ASSUME NEW d \in Events, ev'[d].pc \in Inside
                 PROVE  IsActive(slots'[ev'[d].slot])
    BY DEF AcceptedNotLost, IsActive
  <2>2. ev'[d] = ev[d] /\ HasSlot(d)
    BY <1>5, <2>1 DEF HasSlot
  <2>3. slots'[ev'[d].slot] = slots[ev[d].slot]
    BY <1>0, <1>4, <2>2 DEF EventsTyped, Grows
  <2> QED BY <2>1, <2>2, <2>3 DEF ConveyorInv, AcceptedNotLost
<1>9. LivesInv'
  <2>1. /\ slots'[n].life = "new" /\ slots'[n].mig = "None"
    BY <1>3 DEF NewlyPublished, SlotFor, NewSlot
  <2>2. ASSUME NEW d \in Events, d # e, ev'[d].pc = "activate"
        PROVE  ev'[d] = ev[d] /\ ev[d].slot \in DOMAIN slots /\ ev[d].slot # n
    BY <1>0, <1>3, <1>5, <2>2 DEF EventsTyped, HasSlot, NewlyPublished
  <2>3. ASSUME NEW i \in DOMAIN slots'
        PROVE  /\ slots'[i].life \in {"new", "added"} <=> slots'[i].mig = "None"
               /\ slots'[i].life \in {"dead", "gone"} => slots'[i].mig = "Past"
               /\ slots'[i].life = "new" =>
                     \E d \in Events : ev'[d].pc = "activate" /\ ev'[d].slot = i
    <3>1. CASE i = n
      BY <1>2, <2>1, <3>1
    <3>2. CASE i # n
      <4>1. i \in DOMAIN slots /\ slots'[i] = slots[i]
        BY <1>3, <2>3, <3>2 DEF NewlyPublished
      <4>2. \A d \in Events : ev[d].pc = "activate" => ev'[d] = ev[d]
        BY <1>0, <1>5
      <4> QED BY <1>0, <4>1, <4>2 DEF Orderly, LivesInv
    <3> QED BY <3>1, <3>2
  <2>4. ASSUME NEW d \in Events, ev'[d].pc = "activate"
        PROVE  /\ slots'[ev'[d].slot].life = "new"
               /\ \A c \in Events : ev'[c].pc = "activate" /\ ev'[c].slot = ev'[d].slot => c = d
    <3>1. CASE d = e
      BY <1>2, <2>1, <2>2, <3>1
    <3>2. CASE d # e
      <4>1. ev'[d] = ev[d] /\ ev[d].slot \in DOMAIN slots /\ ev[d].slot # n
        BY <2>2, <2>4, <3>2
      <4>2. slots'[ev[d].slot] = slots[ev[d].slot]
        BY <1>3, <4>1 DEF NewlyPublished
      <4>3. ASSUME NEW c \in Events, ev'[c].pc = "activate", ev'[c].slot = ev'[d].slot
            PROVE  c = d
        <5>1. c # e
          BY <1>2, <4>1, <4>3
        <5>2. ev'[c] = ev[c]
          BY <1>5, <5>1
        <5> QED BY <1>0, <2>4, <4>1, <4>3, <5>2 DEF Orderly, LivesInv
      <4> QED BY <1>0, <2>4, <4>1, <4>2, <4>3 DEF Orderly, LivesInv
    <3> QED BY <3>1, <3>2
  <2> QED BY <2>3, <2>4 DEF LivesInv
<1>15. /\ slots'[ev'[e].slot].st = as
       /\ slots'[ev'[e].slot].range.left = key /\ slots'[ev'[e].slot].range.right = key
  <2>1. slots'[n] = SlotFor(key, as)
    BY <1>3 DEF NewlyPublished
  <2>2. SlotFor(key, as).st = as /\ SlotFor(key, as).range.left = key
        /\ SlotFor(key, as).range.right = key
    BY DEF SlotFor, NewSlot, OnePulse
  <2>3. slots'[ev'[e].slot] = SlotFor(key, as)
    BY <1>2, <2>1
  <2> QED BY <2>2, <2>3
<1>10. CallsInv'
  <2>1. ASSUME NEW d \in Events, d # e
        PROVE  /\ ev'[d].pc = "none" => ~ev'[d].late
               /\ InCall(d)' => CallFits(d)'
               /\ InCall(d)' \/ HasSlot(d)' => AsFits(d)'
               /\ ev'[d].pc = "activate" => StartFits(d)'
    <3>1. ev'[d] = ev[d]
      BY <1>5, <2>1
    <3>2. /\ ev[d].pc = "none" => ~ev[d].late
          /\ InCall(d) => CallFits(d)
          /\ InCall(d) \/ HasSlot(d) => AsFits(d)
          /\ ev[d].pc = "activate" => StartFits(d)
      BY <1>0 DEF Orderly, CallsInv
    <3>3. /\ (InCall(d)' <=> InCall(d)) /\ (HasSlot(d)' <=> HasSlot(d))
          /\ (AsFits(d)' <=> AsFits(d))
      BY <3>1 DEF InCall, HasSlot, AsFits
    <3>4. CallFits(d) => CallFits(d)'
      BY <1>0, <1>4, <1>7, <3>1, GrowsFrame
    <3>5. ev[d].pc = "activate" => (StartFits(d)' <=> StartFits(d))
      BY <1>0, <1>4, <3>1, GrowsPlaces DEF HasSlot
    <3> QED BY <3>1, <3>2, <3>3, <3>4, <3>5
  <2>2. CallFits(e)'
    BY <1>0, <1>2, <1>4, <1>5, <1>7, GrowsFrame DEF Moves
  <2>3. AsFits(e)'
    BY <1>0, <1>2, <1>5 DEF AsFits, Seeks, Moves
  <2>4. StartFits(e)'
    <3>1. as = "Future" => key = ev'[e].now.future
      BY <1>0, <1>2 DEF Seeks, Moves
    <3>2. key \in Int
      BY KeysAre
    <3>3. as = "Future" => Covers(slots'[ev'[e].slot], ev'[e].now.future)
      BY <1>15, <3>1, <3>2 DEF Covers
    <3> QED BY <1>0, <1>2, <1>15, <3>3 DEF StartFits, Covers
  <2> QED BY <1>2, <2>1, <2>2, <2>3, <2>4 DEF CallsInv
<1>11. PlacesInv'
  <2>1. ASSUME NEW d \in Events, ~ev'[d].early
        PROVE  /\ HasSlot(d)' => PlaceFits(d)'
               /\ ev'[d].pc \in Inside => InsideFits(d)'
    <3>1. CASE d # e
      <4>1. ev'[d] = ev[d]
        BY <1>5, <3>1
      <4>2. (HasSlot(d)' <=> HasSlot(d)) /\ (ev[d].pc \in Inside => HasSlot(d))
        BY <4>1 DEF HasSlot
      <4>3. HasSlot(d) => (PlaceFits(d)' <=> PlaceFits(d)) /\ (InsideFits(d)' <=> InsideFits(d))
        BY <1>0, <1>4, <4>1, GrowsPlaces
      <4> QED BY <1>0, <2>1, <4>1, <4>2, <4>3 DEF Orderly, PlacesInv
    <3>2. CASE d = e
      <4>1. slots'[ev'[e].slot].st = as /\ slots'[ev'[e].slot].range.right = key
        BY <1>15
      <4>2. as = "Future" => key > FirstPulse
        <5>1. pulses.present # Unknown
          BY <1>0, <1>5, <2>1, <3>2 DEF Orderly, BeforeFirst
        <5> QED BY <1>0, <1>5, <1>6, <1>7, <2>1, <3>2, <5>1, RunningNumbers
      <4>3. PlaceFits(e)'
        BY <1>0, <1>2, <4>1, <4>2 DEF PlaceFits
      <4> QED BY <1>5, <3>2, <4>3
    <3> QED BY <3>1, <3>2
  <2> QED BY <1>0, <2>1 DEF Orderly, PlacesInv
<1>12. pulses'.present = Unknown => BeforeFirst'
  <2>1. SUFFICES ASSUME pulses.present = Unknown PROVE BeforeFirst'
    BY <1>4 DEF Grows
  <2>2. BeforeFirst
    BY <1>0, <2>1 DEF Orderly
  <2>3. \A d \in Events : ev'[d].pc \in {"mapped", "activate", "add"} \cup Inside => ev'[d].early
    BY <1>0, <1>5, <2>2 DEF BeforeFirst
  <2>4. key # LocalRelative
    BY <1>6, <2>1, KeysAre DEF LocalRelative
  <2> QED BY <1>0, <1>3, <1>5, <1>6, <2>1, <2>2, <2>3, <2>4, PublishesBeforeFirst
<1>13. pulses'.present # Unknown => Running'
  <2>1. SUFFICES ASSUME pulses.present # Unknown PROVE Running'
    BY <1>4 DEF Grows
  <2> QED BY <1>0, <1>3, <1>6, <1>7, <2>1, PublishesRunning
<1>14. Orderly'
  BY <1>9, <1>10, <1>11, <1>12, <1>13 DEF Orderly
<1> QED BY <1>8, <1>14, OrderlyInv

LEMMA FindSlotInv ==
    ASSUME ConveyorInv, NEW e \in Events, FindSlot(e)
    PROVE  ConveyorInv'
<1>0. /\ Typed /\ Orderly /\ EventsTyped /\ ~broken /\ ev[e].pc = "mapped"
      /\ UNCHANGED <<pulses, cache, WorkerState>>
  BY DEF ConveyorInv, Typed, FindSlot
<1>1. ev[e].as # "None"
  BY <1>0 DEF Orderly, CallsInv, InCall, AsFits
<1>2. Typed'
  BY <1>0, <1>1, FindSlotTyped
<1>3. CASE Refuse(e) /\ UNCHANGED <<slots, published, broken>>
  <2>1. Moves(e) /\ ev'[e].pc = "refused" /\ UNCHANGED <<SlotState, broken>>
    BY <1>0, <1>3, RefuseEffect DEF SlotState, WorkerState
  <2> QED BY <1>0, <1>2, <2>1, RefusePasses, PassesInv
<1>4. ASSUME NEW key \in Keys, NEW as \in States,
             Finds(e, key, as) \/ Publishes(e, key, as), UNCHANGED broken
      PROVE  ConveyorInv'
  BY <1>0, <1>2, <1>4, FindsInv, PublishesInv
<1> QED BY <1>0, <1>1, <1>3, <1>4, FindSlotEffect, NoMiss

-----------------------------------------------------------------------------
(***************************************************************************)
(* A call reads the pulses.  The first one may set the expected pulse: no  *)
(* other call is under way then, as each has seen an expected pulse.       *)
(***************************************************************************)
LEMMA MapsBeforeFirst ==
    ASSUME Typed, BeforeFirst, NEW e \in Events, NEW pn, Maps(e, pn), pulses.present = Unknown,
           UNCHANGED <<slots, published, unpublishPulse, presentMachine, commit>>,
           \A d \in Events : d # e => ev'[d] = ev[d]
    PROVE  BeforeFirst'
<1>1. ev'[e].early /\ pulses'.present = Unknown
  BY DEF Maps
<1>2. \A d \in Events : ev'[d].pc \in {"mapped", "activate", "add"} \cup Inside => ev'[d].early
  BY <1>1 DEF BeforeFirst
<1>3. \E d \in Events : ev'[d].early
  BY <1>1
<1>4. CASE pulses.future # LocalRelative
  <2>1. pulses' = pulses
    BY <1>4 DEF Maps
  <2> QED BY <1>2, <1>3, <2>1 DEF BeforeFirst, Early, FirstPresent
<1>5. CASE pulses.future = LocalRelative
  <2>1. \A i \in DOMAIN slots : i = presentMachine
    BY <1>5 DEF BeforeFirst, Early
  <2>2. \A k \in Keys : published[k] # NoSlot => published[k] = presentMachine
    BY <2>1, SlotsAre DEF Typed
  <2>3. \A k \in Keys : published[k] # NoSlot => k \in {LocalRelative, FirstPulse}
    BY <1>5 DEF BeforeFirst
  <2>4. \A i \in DOMAIN slots : /\ slots[i].mig \in {"None", "Future"}
                                /\ slots[i].st = "Present" /\ slots[i].range = FirstRange
                                /\ slots[i].unpub \in {LocalRelative, FirstPulse}
    BY <1>5, <2>1 DEF BeforeFirst, FirstPresent
  <2>5. /\ presentMachine = NoSlot <=> commit.phase # "route"
        /\ commit.phase # "idle" => /\ commit.range = FirstRange
                                    /\ commit.future = LocalRelative
                                    /\ FirstPulse <= LastPulse
        /\ presentMachine = NoSlot => unpublishPulse = Unknown
        /\ presentMachine # NoSlot =>
              /\ published[FirstPulse] = presentMachine
              /\ unpublishPulse \in {LocalRelative, Unknown} \ {FirstPulse}
    BY <1>5 DEF BeforeFirst
  <2> QED BY <1>2, <1>3, <2>1, <2>2, <2>3, <2>4, <2>5 DEF BeforeFirst, FirstPresent
<1> QED BY <1>4, <1>5

LEMMA MapToPulseInv ==
    ASSUME ConveyorInv, NEW in \in Inputs, MapToPulse(in[1], in[2])
    PROVE  ConveyorInv'
<1> DEFINE e == in[1]
<1>0. /\ Typed /\ Orderly /\ ~broken /\ EventsTyped /\ PulsesTyped
      /\ UNCHANGED <<slots, published, unpublishPulse, presentMachine, commit, cache, broken>>
  BY DEF ConveyorInv, Typed, MapToPulse, WorkerState
<1>1. /\ e \in Events /\ ev[e].pc = "none" /\ \A d \in Events : d # e => ev'[d] = ev[d]
      /\ \/ Refuse(e) /\ UNCHANGED pulses
         \/ Maps(e, in[2])
  BY <1>0, MapToPulseEffect
<1>2. Typed'
  BY <1>0, MapToPulseTyped
<1>3. CASE Refuse(e) /\ UNCHANGED pulses
  <2>1. Moves(e) /\ ev'[e].pc = "refused" /\ UNCHANGED <<SlotState, broken>>
    BY <1>0, <1>1, <1>3, RefuseEffect DEF SlotState
  <2> HIDE DEF e
  <2> QED BY <1>0, <1>1, <1>2, <2>1, RefusePasses, PassesInv
<1>4. CASE Maps(e, in[2])
  <2> HIDE DEF e
  <2>1. /\ pulses' = ev'[e].now /\ ev'[e].now.present = pulses.present
        /\ pulses'.present = pulses.present /\ pulses'.future # LocalRelative
        /\ ev'[e].pc = "mapped" /\ ~ev'[e].late
    <3>1. \A n \in Pulses : n # LocalRelative
      BY KeysAre DEF LocalRelative
    <3> QED BY <1>0, <1>1, <1>4, <3>1 DEF Maps, Orderly, CallsInv
  <2>2. ASSUME NEW d \in Events, InCall(d) PROVE pulses' = pulses
    <3>1. CallFits(d)
      BY <1>0, <2>2 DEF Orderly, CallsInv
    <3>2. CASE pulses.future # LocalRelative
      BY <1>4, <3>2 DEF Maps
    <3>3. CASE pulses.future = LocalRelative
      <4>1. pulses.present = Unknown
        BY <1>4, <3>3 DEF Maps
      <4> QED BY <3>1, <3>3, <4>1 DEF CallFits, LateFits
    <3> QED BY <3>2, <3>3
  <2>3. /\ ~HasSlot(e)' /\ InCall(e)' /\ ev'[e].pc \notin Inside /\ ~HasSlot(e)
        /\ ev'[e].pc # "activate" /\ ev[e].pc # "activate"
    BY <1>1, <2>1 DEF HasSlot, InCall, Inside
  <2>4. AcceptedNotLost'
    BY <1>0, <1>1, <2>3 DEF ConveyorInv, AcceptedNotLost
  <2>5. LivesInv'
    <3>1. \A d \in Events : (ev'[d].pc = "activate" <=> ev[d].pc = "activate")
                            /\ (ev[d].pc = "activate" => ev'[d] = ev[d])
      BY <1>1, <2>3
    <3> QED BY <1>0, <3>1 DEF Orderly, LivesInv
  <2>6. CallsInv'
    <3>1. ASSUME NEW d \in Events, d # e
          PROVE  /\ ev'[d].pc = "none" => ~ev'[d].late
                 /\ InCall(d)' => CallFits(d)'
                 /\ InCall(d)' \/ HasSlot(d)' => AsFits(d)'
                 /\ ev'[d].pc = "activate" => StartFits(d)'
      <4>1. ev'[d] = ev[d]
        BY <1>1, <3>1
      <4>2. CASE InCall(d)
        <5>1. UNCHANGED SlotState
          BY <1>0, <2>2, <4>2 DEF SlotState
        <5> QED BY <1>0, <4>1, <5>1, CallsFrame DEF Orderly, CallsInv
      <4>3. CASE ~InCall(d)
        <5>1. /\ ~InCall(d)' /\ (HasSlot(d)' <=> HasSlot(d)) /\ ev[d].pc # "activate"
              /\ (AsFits(d)' <=> AsFits(d))
          BY <4>1, <4>3 DEF InCall, HasSlot, AsFits
        <5> QED BY <1>0, <4>1, <5>1 DEF Orderly, CallsInv
      <4> QED BY <4>2, <4>3
    <3>2. CallFits(e)'
      BY <2>1 DEF CallFits
    <3>3. AsFits(e)'
      BY <1>4 DEF AsFits, Maps
    <3> QED BY <2>1, <2>3, <3>1, <3>2, <3>3 DEF CallsInv
  <2>7. PlacesInv'
    <3>1. ASSUME NEW d \in Events, ~ev'[d].early, HasSlot(d)'
          PROVE  PlaceFits(d)' /\ (ev'[d].pc \in Inside => InsideFits(d)')
      <4>1. ev'[d] = ev[d] /\ HasSlot(d)
        BY <1>1, <2>3, <3>1 DEF HasSlot
      <4>2. (PlaceFits(d)' <=> PlaceFits(d)) /\ (InsideFits(d)' <=> InsideFits(d))
        BY <1>0, <4>1 DEF PlaceFits, InsideFits, OfItsPulse, Covers
      <4> QED BY <1>0, <3>1, <4>1, <4>2 DEF Orderly, PlacesInv
    <3>2. \A d \in Events : ev'[d].pc \in Inside => HasSlot(d)'
      BY DEF HasSlot
    <3> QED BY <1>0, <3>1, <3>2 DEF Orderly, PlacesInv
  <2>8. pulses'.present = Unknown => BeforeFirst'
    BY <1>0, <1>1, <1>4, <2>1, MapsBeforeFirst DEF Orderly
  <2>9. pulses'.present # Unknown => Running'
    <3>1. SUFFICES ASSUME pulses.present # Unknown PROVE Running'
      BY <2>1
    <3>2. pulses' = pulses
      BY <1>0, <1>4, <3>1 DEF Maps, PulsesTyped
    <3> QED BY <1>0, <3>1, <3>2, RunningFrame DEF Orderly, SlotState
  <2>10. Orderly'
    BY <2>5, <2>6, <2>7, <2>8, <2>9 DEF Orderly
  <2> QED BY <1>0, <1>2, <2>4, <2>10, OrderlyInv
<1> QED BY <1>1, <1>3, <1>4

-----------------------------------------------------------------------------
(***************************************************************************)
(* A slot is started, makes its first step, or ends.                       *)
(***************************************************************************)
\* All slots stay what they are to their events.
KeepsSlots ==
    \A j \in DOMAIN slots : j \in DOMAIN slots' /\ KeepsRange(j)

LEMMA KeepsPlaces ==
    ASSUME Typed, KeepsSlots, NEW d \in Events, HasSlot(d),
           ev'[d].slot = ev[d].slot, ev'[d].as = ev[d].as, ev'[d].pn = ev[d].pn
    PROVE  /\ PlaceFits(d)' <=> PlaceFits(d)
           /\ ev'[d].wrap = ev[d].wrap /\ ev'[d].pc = ev[d].pc => (InsideFits(d)' <=> InsideFits(d))
           /\ ev'[d].now = ev[d].now /\ (pulses'.present = Unknown <=> pulses.present = Unknown)
                 => (StartFits(d)' <=> StartFits(d))
<1>1. /\ slots'[ev'[d].slot].st = slots[ev[d].slot].st
      /\ slots'[ev'[d].slot].range = slots[ev[d].slot].range
  BY DEF Typed, EventsTyped, KeepsSlots, KeepsRange
<1>2. PlaceFits(d)' <=> PlaceFits(d)
  BY <1>1 DEF PlaceFits, OfItsPulse, Covers
<1>3. ASSUME ev'[d].wrap = ev[d].wrap, ev'[d].pc = ev[d].pc
      PROVE  InsideFits(d)' <=> InsideFits(d)
  BY <1>1, <1>3 DEF InsideFits, OfItsPulse, Covers
<1>4. ASSUME ev'[d].now = ev[d].now, pulses'.present = Unknown <=> pulses.present = Unknown
      PROVE  StartFits(d)' <=> StartFits(d)
  BY <1>1, <1>4 DEF StartFits, Covers
<1> QED BY <1>2, <1>3, <1>4

\* The slot i goes on in its life; it may leave the registry when it ends.
LivesOn(i) ==
    /\ OneSlot(i) /\ KeepsRange(i)
    /\ UNCHANGED <<pulses, unpublishPulse, presentMachine, commit, cache, broken>>
    /\ \/ slots'[i].mig = slots[i].mig
       \/ commit.phase = "idle" /\ slots'[i].mig = slots[i].st
    /\ \A d \in Events : /\ ev'[d].now = ev[d].now /\ ev'[d].late = ev[d].late
                         /\ ev'[d].early = ev[d].early /\ ev'[d].slot = ev[d].slot
                         /\ ev'[d].as = ev[d].as /\ ev'[d].pn = ev[d].pn
                         /\ ev'[d].wrap = ev[d].wrap
                         /\ \/ ev'[d].pc = ev[d].pc
                            \/ ev[d].pc = "activate" /\ ev'[d].pc = "add"

LEMMA LivesOnPlaces ==
    ASSUME Typed, PlacesInv, NEW i \in DOMAIN slots, LivesOn(i)
    PROVE  PlacesInv' /\ KeepsSlots
<1>1. KeepsSlots
  BY DEF LivesOn, OneSlot, KeepsSlots, KeepsRange
<1>2. ASSUME NEW d \in Events, ~ev'[d].early
      PROVE  /\ HasSlot(d)' => PlaceFits(d)'
             /\ ev'[d].pc \in Inside => InsideFits(d)'
  <2>1. /\ HasSlot(d)' => HasSlot(d)
        /\ ev'[d].pc \in Inside => HasSlot(d)' /\ ev'[d].pc = ev[d].pc
    BY <1>2 DEF LivesOn, HasSlot, Inside
  <2>2. ~ev[d].early /\ ev'[d].wrap = ev[d].wrap /\ ev'[d].slot = ev[d].slot
        /\ ev'[d].as = ev[d].as /\ ev'[d].pn = ev[d].pn
    BY <1>2 DEF LivesOn
  <2>3. HasSlot(d) => /\ PlaceFits(d)' <=> PlaceFits(d)
                      /\ ev'[d].pc = ev[d].pc => (InsideFits(d)' <=> InsideFits(d))
    BY <1>1, <2>2, KeepsPlaces
  <2> QED BY <2>1, <2>2, <2>3 DEF PlacesInv
<1>3. \A n \in cache'.data : n >= FirstPulse
  BY DEF PlacesInv, LivesOn
<1> QED BY <1>1, <1>2, <1>3 DEF PlacesInv

\* The slots that a call which has overlapped a pulse change may find stay.
Spares(i, d) ==
    LET now == ev[d].now IN
    /\ published'[now.present] = published[now.present]
    /\ published'[now.future] = published[now.future]
    /\ published[now.present] = i => slots'[i].life \in {"added", "live"}

LEMMA LivesOnCalls ==
    ASSUME Typed, CallsInv, NEW i \in DOMAIN slots, LivesOn(i),
           \A d \in Events : InCall(d) /\ ev[d].late /\ ev[d].now.present # Unknown => Spares(i, d)
    PROVE  CallsInv'
<1>1. KeepsSlots
  BY DEF LivesOn, OneSlot, KeepsSlots, KeepsRange
<1>2. ASSUME NEW d \in Events
      PROVE  /\ ev'[d].pc = "none" => ~ev'[d].late
             /\ InCall(d)' => CallFits(d)'
             /\ InCall(d)' \/ HasSlot(d)' => AsFits(d)'
             /\ ev'[d].pc = "activate" => StartFits(d)'
  <2>1. /\ InCall(d)' => InCall(d)
        /\ InCall(d)' \/ HasSlot(d)' => InCall(d) \/ HasSlot(d)
        /\ ev'[d].pc = "activate" => HasSlot(d) /\ ev[d].pc = "activate"
        /\ ev'[d].pc = "none" => ev[d].pc = "none"
    BY DEF LivesOn, InCall, HasSlot, Inside
  <2>2. /\ ev'[d].now = ev[d].now /\ ev'[d].late = ev[d].late
        /\ ev'[d].early = ev[d].early /\ ev'[d].slot = ev[d].slot
        /\ ev'[d].as = ev[d].as /\ ev'[d].pn = ev[d].pn
        /\ UNCHANGED <<pulses, presentMachine, commit>>
    BY DEF LivesOn
  <2>3. AsFits(d)' <=> AsFits(d)
    BY <2>2 DEF AsFits
  <2>4. HasSlot(d) => (StartFits(d)' <=> StartFits(d))
    BY <1>1, <2>2, KeepsPlaces
  <2>5. ASSUME CallFits(d), InCall(d) PROVE CallFits(d)'
    <3> DEFINE now == ev[d].now
               j == published[now.present]
    <3>1. CASE ~ev[d].late
      BY <2>2, <2>5, <3>1 DEF CallFits
    <3>2. CASE ev[d].late
      <4>1. LateFits(d)
        BY <2>5, <3>2 DEF CallFits
      <4>2. ASSUME now.present # Unknown
            PROVE  /\ slots'[j].range = slots[j].range /\ slots'[j].st = slots[j].st
                   /\ slots'[j].mig \in {"None", "Past"}
                   /\ slots'[j].life \in {"new", "added", "live"}
                   /\ published'[now.present] = j
                   /\ published'[now.future] = published[now.future]
        <5>0. /\ published[now.present] # NoSlot /\ slots[j].st = "Past"
              /\ slots[j].mig \in {"None", "Past"} /\ IsActive(slots[j])
          BY <4>1, <4>2 DEF LateFits
        <5>1. now.present \in Keys
          <6>1. ev[d] \in EventType
            BY DEF Typed, EventsTyped
          <6> QED BY <6>1, KeysAre DEF EventType, NowType, Keys
        <5>2. j \in DOMAIN slots
          BY <5>0, <5>1, SlotsAre DEF Typed
        <5> HIDE DEF j
        <5>3. slots'[j].range = slots[j].range /\ slots'[j].st = slots[j].st
          BY <1>1, <5>2 DEF KeepsSlots, KeepsRange
        <5>4. j # i => slots'[j] = slots[j]
          BY <5>2 DEF LivesOn, OneSlot
        <5>5. slots'[j].mig \in {"None", "Past"}
          BY <5>0, <5>4 DEF LivesOn
        <5>6. Spares(i, d)
          BY <2>5, <3>2, <4>2
        <5>7. published'[now.present] = j /\ published'[now.future] = published[now.future]
              /\ (j = i => slots'[i].life \in {"added", "live"})
          BY <5>6 DEF Spares, j
        <5>8. slots'[j].life \in {"new", "added", "live"}
          BY <5>0, <5>4, <5>7 DEF IsActive
        <5> QED BY <5>3, <5>5, <5>7, <5>8
      <4>3. LateFits(d)'
        <5> HIDE DEF j
        <5>1. CASE now.present = Unknown
          BY <2>2, <4>1, <5>1 DEF LateFits
        <5>2. CASE now.present # Unknown
          <6>1. /\ published'[now.present] = j /\ slots'[j].range = slots[j].range
                /\ slots'[j].st = slots[j].st /\ slots'[j].mig \in {"None", "Past"}
                /\ slots'[j].life \in {"new", "added", "live"}
                /\ published'[now.future] = published[now.future]
            BY <4>2, <5>2
          <6>2. j # NoSlot /\ slots[j].range.right = now.present /\ slots[j].st = "Past"
                /\ published[now.future] = presentMachine
                /\ now.present >= FirstPulse /\ now.present < pulses.present
                /\ now.future > FirstPulse /\ commit.phase = "idle" /\ pulses.present # Unknown
            BY <4>1, <5>2 DEF LateFits, j
          <6> QED BY <2>2, <5>2, <6>1, <6>2 DEF LateFits, IsActive
        <5> QED BY <5>1, <5>2
      <4> QED BY <2>2, <2>5, <3>2, <4>3 DEF CallFits
    <3> QED BY <3>1, <3>2
  <2> QED BY <2>1, <2>2, <2>3, <2>4, <2>5 DEF CallsInv
<1> QED BY <1>2 DEF CallsInv

LEMMA LivesOnRunning ==
    ASSUME Typed, Running, NEW i \in DOMAIN slots, LivesOn(i),
           slots'[i].unpub = LocalRelative \/ Covers(slots[i], slots'[i].unpub),
           \A k \in Keys : \/ published'[k] = published[k]
                           \/ /\ published'[k] = NoSlot /\ commit.phase = "idle"
                              /\ k \notin {pulses.present, pulses.future}
    PROVE  Running'
<1>0. /\ UNCHANGED <<pulses, unpublishPulse, presentMachine, commit>>
      /\ DOMAIN slots' = DOMAIN slots /\ \A j \in DOMAIN slots : j # i => slots'[j] = slots[j]
      /\ \A j \in DOMAIN slots : slots'[j].st = slots[j].st /\ slots'[j].range = slots[j].range
  BY DEF LivesOn, OneSlot, KeepsRange
<1>1. /\ LastStarted' = LastStarted /\ LastPublished' = LastPublished
      /\ (CommitFits)' <=> CommitFits
  BY <1>0 DEF LastStarted, LastPublished, CommitFits, KnowsBounds
<1>2. pulses.present \in Keys /\ pulses.future \in Keys
  BY RunningNumbers
<1>3. published'[pulses.present] = published[pulses.present]
      /\ published'[pulses.future] = published[pulses.future]
  BY <1>2
<1>4. ASSUME NEW j \in DOMAIN slots PROVE SlotFits(j)'
  <2>1. SlotFits(j)
    BY DEF Running
  <2>2. slots'[j].unpub = LocalRelative \/ Covers(slots'[j], slots'[j].unpub)
    BY <1>0, <2>1 DEF SlotFits, Covers
  <2>3. slots[j].st = "Antique" => slots'[j].mig \in {"None", "Antique"}
    <3>1. SUFFICES ASSUME slots[j].st = "Antique" PROVE slots'[j].mig \in {"None", "Antique"}
      OBVIOUS
    <3>2. slots[j].mig \in {"None", "Antique"}
      BY <2>1, <3>1 DEF SlotFits
    <3> QED BY <1>0, <3>1, <3>2 DEF LivesOn
  <2>4. slots[j].st = "Future" /\ slots[j].mig \in {"None", "Future"} =>
          slots'[j].mig \in {"None", "Future"}
    BY <1>0 DEF LivesOn
  <2>5. slots'[j].st = slots[j].st /\ slots'[j].range = slots[j].range
    BY <1>0
  <2> DEFINE s == slots'[j]
             t == slots[j]
  <2>6. /\ t.range.left <= t.range.right
        /\ t.st = "Antique" => t.range.right = Unknown
        /\ t.range.right = Unknown => t.st = "Antique"
        /\ \/ t.range.right <= LastStarted
           \/ /\ commit.phase # "route" /\ t.range = OnePulse(pulses.future)
              /\ t.st = "Future" /\ t.mig \in {"None", "Future"} /\ published[pulses.future] = j
        /\ t.range.right \in FirstPulse .. LastStarted => t.st \in {"Present", "Past"}
        /\ t.range.right > FirstPulse => KnowsBounds(t.range)
        /\ t.st = "Present" <=> commit.phase # "publish" /\ j = presentMachine
    BY <2>1 DEF SlotFits
  <2>7. s.st = t.st /\ s.range = t.range
    BY <2>5
  <2> HIDE DEF s, t
  <2>8. /\ s.range.left <= s.range.right
        /\ s.st = "Antique" => s.range.right = Unknown
        /\ s.range.right = Unknown => s.st = "Antique"
        /\ \/ s.range.right <= LastStarted'
           \/ /\ commit'.phase # "route" /\ s.range = OnePulse(pulses'.future)
              /\ s.st = "Future" /\ t.mig \in {"None", "Future"} /\ published'[pulses'.future] = j
        /\ s.range.right \in FirstPulse .. LastStarted' => s.st \in {"Present", "Past"}
        /\ s.range.right > FirstPulse => KnowsBounds(s.range)
        /\ s.st = "Present" <=> commit'.phase # "publish" /\ j = presentMachine'
    BY <1>0, <1>1, <1>3, <2>6, <2>7
  <2>9. /\ s.st = "Future" /\ t.mig \in {"None", "Future"} => s.mig \in {"None", "Future"}
        /\ s.st = "Antique" => s.mig \in {"None", "Antique"}
        /\ s.unpub = LocalRelative \/ Covers(s, s.unpub)
    BY <2>2, <2>3, <2>4, <2>5 DEF s, t
  <2>10. /\ s.range.left <= s.range.right
         /\ s.unpub = LocalRelative \/ Covers(s, s.unpub)
         /\ s.st = "Antique" => s.range.right = Unknown /\ s.mig \in {"None", "Antique"}
         /\ s.range.right = Unknown => s.st = "Antique"
         /\ \/ s.range.right <= LastStarted'
            \/ /\ commit'.phase # "route" /\ s.range = OnePulse(pulses'.future)
               /\ s.st = "Future" /\ s.mig \in {"None", "Future"} /\ published'[pulses'.future] = j
         /\ s.range.right \in FirstPulse .. LastStarted' => s.st \in {"Present", "Past"}
         /\ s.range.right > FirstPulse => KnowsBounds(s.range)
         /\ s.st = "Present" <=> commit'.phase # "publish" /\ j = presentMachine'
    BY <2>8, <2>9
  <2> QED BY <2>10 DEF SlotFits, s, Covers, KnowsBounds
<1>5. OneSlotPerPulse'
  BY <1>0 DEF Running, OneSlotPerPulse, Covers
<1>6. RegistryFits'
  <2>1. SUFFICES ASSUME NEW k \in Keys, published'[k] # NoSlot
                 PROVE  /\ k >= FirstPulse => Covers(slots'[published'[k]], k)
                        /\ k = Unknown => slots'[published'[k]].st = "Antique"
                        /\ k <= LastPublished
    BY <1>1 DEF RegistryFits, Covers
  <2>2. published'[k] = published[k] /\ published[k] \in DOMAIN slots
    BY <2>1, SlotsAre DEF Typed
  <2>3. slots'[published'[k]].st = slots[published[k]].st
        /\ slots'[published'[k]].range = slots[published[k]].range
    BY <1>0, <2>2
  <2> QED BY <2>1, <2>2, <2>3 DEF Running, RegistryFits, Covers
<1>7. PresentFits'
  <2> DEFINE p == published[pulses.present]
  <2>1. /\ p # NoSlot /\ slots[p].range.right = pulses.present /\ slots[p].mig \in {"None", "Present"}
        /\ slots[p].st = IF commit.phase = "idle" THEN "Present" ELSE "Past"
        /\ commit.phase # "route" => p = presentMachine
    BY DEF Running, PresentFits
  <2>2. p \in DOMAIN slots
    BY <1>2, <2>1, SlotsAre DEF Typed
  <2>3. published'[pulses'.present] = p
    BY <1>0, <1>3
  <2> HIDE DEF p
  <2>4. slots'[p].st = slots[p].st /\ slots'[p].range = slots[p].range
    BY <1>0, <2>2
  <2>5. slots'[p].mig \in {"None", "Present"}
    BY <1>0, <2>1, <2>2 DEF LivesOn
  <2> QED BY <1>0, <2>1, <2>3, <2>4, <2>5 DEF PresentFits
<1>8. NextFits'
  <2>1. SUFFICES ASSUME commit.phase = "route" PROVE NextFits'
    BY <1>0 DEF NextFits
  <2>2. presentMachine \in DOMAIN slots
    BY SlotsAre DEF Running, Typed, PulsesTyped, NoSlot
  <2>3. \A k \in Keys : published'[k] = published[k]
    BY <2>1
  <2>4. commit.range.right \in Keys /\ commit.future \in Keys
    <3>1. commit.range.right = LastPublished
      BY <2>1 DEF LastPublished
    <3> QED BY <1>2, <3>1, RunningNumbers, <2>1 DEF Running, CommitFits
  <2>5. /\ slots[presentMachine].range = commit.range
        /\ slots[presentMachine].mig \in {"None", "Future"}
        /\ published[commit.range.right] = presentMachine
        /\ published[commit.future] = presentMachine
    BY <2>1 DEF Running, NextFits
  <2>6. slots'[presentMachine].range = slots[presentMachine].range
        /\ slots'[presentMachine].mig = slots[presentMachine].mig
    BY <1>0, <2>1, <2>2 DEF LivesOn
  <2> QED BY <1>0, <2>1, <2>3, <2>4, <2>5, <2>6 DEF NextFits
<1> QED BY <1>0, <1>1, <1>4, <1>5, <1>6, <1>7, <1>8 DEF Running

LEMMA LivesOnBeforeFirst ==
    ASSUME Typed, BeforeFirst, NEW i \in DOMAIN slots, LivesOn(i), UNCHANGED published,
           slots'[i].unpub \in {slots[i].unpub, pulses.future}
    PROVE  BeforeFirst'
<1>0. /\ UNCHANGED <<pulses, unpublishPulse, presentMachine, commit, published>>
      /\ DOMAIN slots' = DOMAIN slots /\ \A j \in DOMAIN slots : j # i => slots'[j] = slots[j]
      /\ slots'[i].st = slots[i].st /\ slots'[i].range = slots[i].range
  BY DEF LivesOn, OneSlot, KeepsRange
<1>1. \A d \in Events : ev'[d].pc \in {"mapped", "activate", "add"} \cup Inside => ev'[d].early
  BY DEF BeforeFirst, LivesOn
<1>2. \A d \in Events : ev'[d].early = ev[d].early
  BY DEF LivesOn
<1>3. slots'[i].mig \in {"None", "Future"}
  <2>1. CASE slots'[i].mig = slots[i].mig
    BY <2>1 DEF BeforeFirst
  <2>2. CASE commit.phase = "idle" /\ slots'[i].mig = slots[i].st
    <3>1. i # presentMachine
      BY <2>2, SlotsAre DEF BeforeFirst, Typed, NoSlot
    <3> QED BY <2>2, <3>1 DEF BeforeFirst, Early
  <2> QED BY <2>1, <2>2 DEF LivesOn
<1>4. ASSUME NEW j \in DOMAIN slots
      PROVE  /\ slots'[j].mig \in {"None", "Future"}
             /\ j = presentMachine => FirstPresent(slots[j])'
             /\ j # presentMachine => Early(slots[j])'
  <2>1. CASE j = i
    <3>1. j = presentMachine => FirstPresent(slots[i])
      BY <2>1 DEF BeforeFirst
    <3>2. j # presentMachine => Early(slots[i])
      BY <2>1 DEF BeforeFirst
    <3> QED BY <1>0, <1>3, <2>1, <3>1, <3>2 DEF FirstPresent, Early
  <2>2. CASE j # i
    BY <1>0, <2>2 DEF BeforeFirst, FirstPresent, Early
  <2> QED BY <2>1, <2>2
<1> QED BY <1>0, <1>1, <1>2, <1>4 DEF BeforeFirst

LEMMA ActivateSlotInv ==
    ASSUME ConveyorInv, NEW e \in Events, ActivateSlot(e)
    PROVE  ConveyorInv'
<1> DEFINE i == ev[e].slot
<1>0. /\ Typed /\ Orderly /\ EventsTyped /\ SlotsTyped /\ ~broken /\ ev[e].pc = "activate"
      /\ UNCHANGED <<pulses, published, cache, broken, WorkerState>>
  BY DEF ConveyorInv, Typed, ActivateSlot
<1>1. /\ Moves(e) /\ ev'[e].pc = "add" /\ ev'[e].slot = i /\ ev'[e].as = ev[e].as
      /\ ev'[e].wrap = ev[e].wrap
  <2>1. ev[e] \in EventType /\ ev \in [Events -> EventType]
    BY <1>0 DEF EventsTyped
  <2>2. ev'[e].wrap = ev[e].wrap
    BY <2>1 DEF ActivateSlot, EventType
  <2> QED BY <1>0, <2>2, ActivateSlotEffect
<1>2. /\ i \in DOMAIN slots /\ OneSlot(i) /\ KeepsRange(i)
      /\ slots'[i].life = "added" /\ slots'[i].mig = slots[i].mig
      /\ slots'[i].unpub = IF ev[e].as = "Antique" THEN Unknown ELSE ev[e].now.future
  BY <1>0, ActivateSlotSlots
<1>3. Typed'
  BY <1>0, ActivateSlotTyped
<1>4. /\ slots[i].life = "new" /\ slots[i].mig = "None"
      /\ \A d \in Events : ev[d].pc = "activate" /\ ev[d].slot = i => d = e
  BY <1>0, <1>2 DEF Orderly, LivesInv
<1>5. InCall(e) /\ HasSlot(e) /\ CallFits(e) /\ AsFits(e) /\ StartFits(e)
  BY <1>0 DEF Orderly, CallsInv, InCall, HasSlot
<1> HIDE DEF i
<1>6. LivesOn(i)
  <2>1. ASSUME NEW d \in Events
        PROVE  /\ ev'[d].now = ev[d].now /\ ev'[d].late = ev[d].late
               /\ ev'[d].early = ev[d].early /\ ev'[d].slot = ev[d].slot
               /\ ev'[d].as = ev[d].as /\ ev'[d].pn = ev[d].pn
               /\ ev'[d].wrap = ev[d].wrap
               /\ \/ ev'[d].pc = ev[d].pc
                  \/ ev[d].pc = "activate" /\ ev'[d].pc = "add"
    <3>1. CASE d = e
      BY <1>0, <1>1, <3>1 DEF Moves, i
    <3>2. CASE d # e
      BY <1>1, <3>2 DEF Moves
    <3> QED BY <3>1, <3>2
  <2>2. UNCHANGED <<pulses, unpublishPulse, presentMachine, commit, cache, broken>>
    BY <1>0 DEF WorkerState
  <2> QED BY <1>2, <2>1, <2>2 DEF LivesOn
<1>7. AcceptedNotLost'
  <2>1. SUFFICES ASSUME NEW d \in Events, ev'[d].pc \in Inside
                 PROVE  IsActive(slots'[ev'[d].slot])
    BY DEF AcceptedNotLost, IsActive
  <2>2. d # e /\ ev'[d] = ev[d]
    BY <1>1, <2>1 DEF Moves, Inside
  <2>3. ev[d].slot \in DOMAIN slots
    BY <1>0, <2>1, <2>2 DEF EventsTyped, HasSlot
  <2>4. IsActive(slots[ev[d].slot])
    BY <2>1, <2>2 DEF ConveyorInv, AcceptedNotLost
  <2> QED BY <1>2, <2>2, <2>3, <2>4 DEF OneSlot, IsActive
<1>8. LivesInv'
  <2>1. \A d \in Events : d # e => ev'[d] = ev[d]
    BY <1>1 DEF Moves
  <2>2. ASSUME NEW j \in DOMAIN slots'
        PROVE  /\ slots'[j].life \in {"new", "added"} <=> slots'[j].mig = "None"
               /\ slots'[j].life \in {"dead", "gone"} => slots'[j].mig = "Past"
               /\ slots'[j].life = "new" =>
                     \E d \in Events : ev'[d].pc = "activate" /\ ev'[d].slot = j
    <3>1. CASE j = i
      BY <1>2, <1>4, <3>1
    <3>2. CASE j # i
      <4>1. j \in DOMAIN slots /\ slots'[j] = slots[j]
        BY <1>2, <2>2, <3>2 DEF OneSlot
      <4>2. slots[j].life = "new" =>
              \E d \in Events : d # e /\ ev[d].pc = "activate" /\ ev[d].slot = j
        BY <1>0, <3>2, <4>1 DEF Orderly, LivesInv, i
      <4> QED BY <1>0, <2>1, <4>1, <4>2 DEF Orderly, LivesInv
    <3> QED BY <3>1, <3>2
  <2>3. ASSUME NEW d \in Events, ev'[d].pc = "activate"
        PROVE  /\ slots'[ev'[d].slot].life = "new"
               /\ \A c \in Events : ev'[c].pc = "activate" /\ ev'[c].slot = ev'[d].slot => c = d
    <3>1. d # e /\ ev'[d] = ev[d]
      BY <1>1, <2>1, <2>3
    <3>2. ev[d].slot # i /\ ev[d].slot \in DOMAIN slots
      BY <1>0, <1>4, <2>3, <3>1 DEF EventsTyped, HasSlot
    <3>3. slots'[ev[d].slot] = slots[ev[d].slot]
      BY <1>2, <3>2 DEF OneSlot
    <3>4. \A c \in Events : ev'[c].pc = "activate" => ev'[c] = ev[c]
      BY <1>1, <2>1
    <3> QED BY <1>0, <2>3, <3>1, <3>3, <3>4 DEF Orderly, LivesInv
  <2> QED BY <2>2, <2>3 DEF LivesInv
<1>9. CallsInv'
  <2>1. \A d \in Events : Spares(i, d)
    BY <1>0, <1>2 DEF Spares
  <2> QED BY <1>0, <1>2, <1>6, <2>1, LivesOnCalls DEF Orderly
<1>10. PlacesInv'
  BY <1>0, <1>2, <1>6, LivesOnPlaces DEF Orderly
<1>11. pulses'.present = Unknown => BeforeFirst'
  <2>1. SUFFICES ASSUME pulses.present = Unknown PROVE BeforeFirst'
    BY <1>0
  <2>2. BeforeFirst
    BY <1>0, <2>1 DEF Orderly
  <2>3. ev[e].early /\ ev[e].as = "Future" /\ ev[e].now = pulses
    <3>1. ev[e].early
      BY <1>0, <2>2 DEF BeforeFirst
    <3>2. ev[e].as = "Future"
      BY <1>5, <3>1 DEF AsFits
    <3>3. ev[e].now = pulses
      BY <1>5, <2>1 DEF CallFits, LateFits
    <3> QED BY <3>1, <3>2, <3>3
  <2>4. slots'[i].unpub = pulses.future
    BY <1>2, <2>3
  <2> QED BY <1>0, <1>2, <1>6, <2>2, <2>4, LivesOnBeforeFirst
<1>12. pulses'.present # Unknown => Running'
  <2>1. SUFFICES ASSUME pulses.present # Unknown PROVE Running'
    BY <1>0
  <2>2. Running
    BY <1>0, <2>1 DEF Orderly
  <2>3. Covers(slots[i], slots'[i].unpub)
    <3>1. CASE ev[e].as = "Antique"
      <4>1. slots[i].st = "Antique" /\ slots'[i].unpub = Unknown
        BY <1>2, <1>5, <3>1 DEF StartFits, i
      <4>2. SlotFits(i)
        BY <1>2, <2>2 DEF Running
      <4>3. slots[i].range.right = Unknown /\ slots[i].range.left <= slots[i].range.right
        BY <4>1, <4>2 DEF SlotFits
      <4>4. slots[i].range.left \in Int /\ Unknown \in Int
        BY <1>0, <1>2, <2>2, RunningNumbers
      <4> QED BY <4>1, <4>3, <4>4 DEF Covers
    <3>2. CASE ev[e].as = "Future"
      BY <1>2, <1>5, <2>1, <3>2 DEF StartFits, i
    <3> QED BY <1>5, <3>1, <3>2 DEF StartFits
  <2> QED BY <1>0, <1>2, <1>6, <2>2, <2>3, LivesOnRunning
<1>13. Orderly'
  BY <1>8, <1>9, <1>10, <1>11, <1>12 DEF Orderly
<1> QED BY <1>0, <1>3, <1>7, <1>13, OrderlyInv

(* A slot that goes on does not disturb the starts of other slots. *)
LEMMA LivesOnLives ==
    ASSUME Typed, LivesInv, NEW i \in DOMAIN slots, OneSlot(i), UNCHANGED ev,
           slots[i].life # "new", slots'[i].life \in {"live", "gone"}, slots'[i].mig # "None",
           slots'[i].life = "gone" => slots'[i].mig = "Past"
    PROVE  LivesInv'
<1>1. ASSUME NEW j \in DOMAIN slots'
      PROVE  /\ slots'[j].life \in {"new", "added"} <=> slots'[j].mig = "None"
             /\ slots'[j].life \in {"dead", "gone"} => slots'[j].mig = "Past"
             /\ slots'[j].life = "new" =>
                   \E d \in Events : ev'[d].pc = "activate" /\ ev'[d].slot = j
  <2>1. CASE j = i
    BY <2>1
  <2>2. CASE j # i
    BY <1>1, <2>2 DEF LivesInv, OneSlot
  <2> QED BY <2>1, <2>2
<1>2. ASSUME NEW d \in Events, ev'[d].pc = "activate"
      PROVE  /\ slots'[ev'[d].slot].life = "new"
             /\ \A c \in Events : ev'[c].pc = "activate" /\ ev'[c].slot = ev'[d].slot => c = d
  <2>1. slots[ev[d].slot].life = "new" /\ ev[d].slot \in DOMAIN slots
    BY <1>2 DEF LivesInv, Typed, EventsTyped, HasSlot
  <2>2. slots'[ev[d].slot] = slots[ev[d].slot]
    BY <2>1 DEF OneSlot
  <2> QED BY <1>2, <2>1, <2>2 DEF LivesInv
<1> QED BY <1>1, <1>2 DEF LivesInv

LEMMA InitSlotInv ==
    ASSUME ConveyorInv, NEW i \in DOMAIN slots, InitSlot(i)
    PROVE  ConveyorInv'
<1>0. /\ Typed /\ Orderly /\ SlotsTyped /\ EventsTyped /\ ~broken /\ commit.phase = "idle"
      /\ UNCHANGED <<ev, cache, PulseState>>
  BY DEF ConveyorInv, Typed, InitSlot, Working
<1>1. /\ OneSlot(i) /\ KeepsRange(i) /\ slots[i].life = "added"
      /\ slots'[i].life = "live" /\ slots'[i].mig = slots[i].st
      /\ slots'[i].unpub = slots[i].unpub
  BY <1>0, InitSlotEffect
<1>2. Typed'
  BY <1>0, InitSlotTyped
<1>3. LivesOn(i)
  BY <1>0, <1>1 DEF LivesOn, PulseState
<1>4. slots[i].st # "None"
  BY <1>0, SlotsAre DEF SlotType, States
<1>5. AcceptedNotLost'
  <2>1. SUFFICES ASSUME NEW d \in Events, ev[d].pc \in Inside
                 PROVE  IsActive(slots'[ev[d].slot])
    BY <1>0 DEF AcceptedNotLost, IsActive
  <2>2. ev[d].slot \in DOMAIN slots /\ IsActive(slots[ev[d].slot])
    BY <1>0, <2>1 DEF EventsTyped, HasSlot, ConveyorInv, AcceptedNotLost
  <2> QED BY <1>1, <2>2 DEF OneSlot, IsActive
<1>6. LivesInv'
  BY <1>0, <1>1, <1>4, LivesOnLives DEF Orderly
<1>7. CallsInv'
  <2>1. \A d \in Events : Spares(i, d)
    BY <1>0, <1>1 DEF Spares, PulseState
  <2> QED BY <1>0, <1>3, <2>1, LivesOnCalls DEF Orderly
<1>8. PlacesInv'
  BY <1>0, <1>3, LivesOnPlaces DEF Orderly
<1>9. pulses'.present = Unknown => BeforeFirst'
  BY <1>0, <1>1, <1>3, LivesOnBeforeFirst DEF Orderly, PulseState
<1>10. pulses'.present # Unknown => Running'
  <2>1. SUFFICES ASSUME pulses.present # Unknown PROVE Running'
    BY <1>0 DEF PulseState
  <2>2. Running
    BY <1>0, <2>1 DEF Orderly
  <2>3. slots'[i].unpub = LocalRelative \/ Covers(slots[i], slots'[i].unpub)
    BY <1>1, <2>2 DEF Running, SlotFits
  <2> QED BY <1>0, <1>3, <2>2, <2>3, LivesOnRunning DEF PulseState
<1>11. Orderly' /\ ~broken'
  BY <1>0, <1>6, <1>7, <1>8, <1>9, <1>10 DEF Orderly, PulseState
<1> QED BY <1>2, <1>5, <1>11, OrderlyInv

(* A slot that ends is not one that a call or the next pulse change needs. *)
LEMMA EndsApart ==
    ASSUME Typed, Running, CallsInv, NEW i \in DOMAIN slots, slots[i].life = "dead",
           slots[i].mig = "Past", commit.phase = "idle", NEW u \in Keys,
           u = slots[i].unpub, u # LocalRelative
    PROVE  /\ u \notin {pulses.present, pulses.future}
           /\ \A d \in Events : InCall(d) /\ ev[d].late /\ ev[d].now.present # Unknown =>
                 /\ u \notin {ev[d].now.present, ev[d].now.future}
                 /\ published[ev[d].now.present] # i
<1>0. /\ FirstPulse \in Nat \ {0} /\ Delta \in Nat \ {0}
      /\ pulses.present \in Int /\ pulses.future \in Int /\ FirstPulse <= pulses.present
      /\ pulses.future = pulses.present + Delta
      /\ pulses.present \in Keys /\ pulses.future \in Keys
      /\ LastStarted = pulses.present /\ u \in Int
      /\ slots[i].range.left \in Int /\ slots[i].range.right \in Int
  BY RunningNumbers
<1>1. SlotFits(i) /\ Covers(slots[i], u)
  BY DEF Running, SlotFits
<1>2. ASSUME NEW k \in Keys, k >= FirstPulse, published[k] # NoSlot, k = u
      PROVE  published[k] = i
  <2>1. published[k] \in DOMAIN slots
    BY <1>2, SlotsAre DEF Typed
  <2>2. Covers(slots[published[k]], k)
    BY <1>2 DEF Running, RegistryFits
  <2> QED BY <1>1, <1>2, <2>1, <2>2 DEF Running, OneSlotPerPulse
<1>3. /\ published[pulses.present] # NoSlot /\ published[pulses.present] # i
      /\ published[pulses.present] = presentMachine
  BY DEF Running, PresentFits
<1>4. u # pulses.present
  BY <1>0, <1>2, <1>3
<1>5. u # pulses.future
  <2>1. SUFFICES ASSUME u = pulses.future PROVE FALSE
    OBVIOUS
  <2>2. ~(slots[i].range.right <= LastStarted)
    BY <1>0, <1>1, <2>1 DEF Covers
  <2> QED BY <1>1, <2>2 DEF SlotFits
<1>6. ASSUME NEW d \in Events, InCall(d), ev[d].late, ev[d].now.present # Unknown
      PROVE  /\ u \notin {ev[d].now.present, ev[d].now.future}
             /\ published[ev[d].now.present] # i
  <2> DEFINE now == ev[d].now
  <2>1. LateFits(d)
    BY <1>6 DEF CallsInv, CallFits
  <2>2. /\ now.present >= FirstPulse /\ published[now.present] # NoSlot
        /\ IsActive(slots[published[now.present]])
        /\ published[now.future] = presentMachine /\ now.future > FirstPulse
    BY <1>6, <2>1 DEF LateFits
  <2>3. now.present \in Keys /\ now.future \in Keys /\ now.future \in Int
    <3>1. ev[d] \in EventType
      BY DEF Typed, EventsTyped
    <3> QED BY <3>1, KeysAre DEF EventType, NowType, Keys
  <2>4. published[now.present] # i
    BY <2>2 DEF IsActive
  <2>5. u # now.present
    BY <1>2, <2>2, <2>3, <2>4
  <2>6. u # now.future
    <3>1. now.future >= FirstPulse
      BY <1>0, <2>2, <2>3
    <3> QED BY <1>2, <1>3, <2>2, <2>3, <3>1
  <2> QED BY <2>4, <2>5, <2>6
<1> QED BY <1>4, <1>5, <1>6

LEMMA OnTerminateInv ==
    ASSUME ConveyorInv, NEW i \in DOMAIN slots, OnTerminate(i)
    PROVE  ConveyorInv'
<1>0. /\ Typed /\ Orderly /\ SlotsTyped /\ EventsTyped /\ ~broken /\ commit.phase = "idle"
      /\ UNCHANGED <<pulses, unpublishPulse, presentMachine, commit, broken, ev, cache>>
  BY DEF ConveyorInv, Typed, OnTerminate, Working
<1>1. /\ OneSlot(i) /\ KeepsRange(i) /\ slots[i].life = "dead"
      /\ slots'[i].life = "gone" /\ slots'[i].mig = slots[i].mig
      /\ slots'[i].unpub = slots[i].unpub
  BY <1>0, OnTerminateEffect
<1>2. \A k \in Keys : \/ published'[k] = published[k]
                      \/ k = slots[i].unpub /\ k # LocalRelative /\ published'[k] = NoSlot
  BY <1>0, OnTerminateEffect
<1>3. Typed'
  BY <1>0, OnTerminateTyped
<1>4. slots[i].mig = "Past"
  BY <1>0, <1>1 DEF Orderly, LivesInv
<1>5. LivesOn(i)
  BY <1>0, <1>1 DEF LivesOn
<1>6. pulses.present # Unknown /\ Running
  <2>1. pulses.present # Unknown
    BY <1>0, <1>4 DEF Orderly, BeforeFirst
  <2> QED BY <1>0, <2>1 DEF Orderly
<1>7. AcceptedNotLost'
  <2>1. SUFFICES ASSUME NEW d \in Events, ev[d].pc \in Inside
                 PROVE  IsActive(slots'[ev[d].slot])
    BY <1>0 DEF AcceptedNotLost, IsActive
  <2>2. ev[d].slot \in DOMAIN slots /\ IsActive(slots[ev[d].slot])
    BY <1>0, <2>1 DEF EventsTyped, HasSlot, ConveyorInv, AcceptedNotLost
  <2> QED BY <1>1, <2>2 DEF OneSlot, IsActive
<1>8. LivesInv'
  BY <1>0, <1>1, <1>4, LivesOnLives DEF Orderly
<1>9. ASSUME NEW k \in Keys, k = slots[i].unpub, k # LocalRelative
      PROVE  /\ k \notin {pulses.present, pulses.future}
             /\ \A d \in Events : InCall(d) /\ ev[d].late /\ ev[d].now.present # Unknown =>
                   k \notin {ev[d].now.present, ev[d].now.future}
  BY <1>0, <1>1, <1>4, <1>6, <1>9, EndsApart DEF Orderly
<1>10. CallsInv'
  <2>1. ASSUME NEW d \in Events, InCall(d), ev[d].late, ev[d].now.present # Unknown
        PROVE  Spares(i, d)
    <3>1. ev[d].now.present \in Keys /\ ev[d].now.future \in Keys
      <4>1. ev[d] \in EventType
        BY <1>0 DEF EventsTyped
      <4> QED BY <4>1, KeysAre DEF EventType, NowType, Keys
    <3>2. LateFits(d)
      BY <1>0, <2>1 DEF Orderly, CallsInv, CallFits
    <3>3. published[ev[d].now.present] # i
      BY <1>1, <2>1, <3>2 DEF LateFits, IsActive
    <3> QED BY <1>2, <1>9, <2>1, <3>1, <3>3 DEF Spares
  <2> QED BY <1>0, <1>5, <2>1, LivesOnCalls DEF Orderly
<1>11. PlacesInv'
  BY <1>0, <1>5, LivesOnPlaces DEF Orderly
<1>12. Running'
  <2>1. slots'[i].unpub = LocalRelative \/ Covers(slots[i], slots'[i].unpub)
    BY <1>1, <1>6 DEF Running, SlotFits
  <2>2. \A k \in Keys : \/ published'[k] = published[k]
                        \/ /\ published'[k] = NoSlot /\ commit.phase = "idle"
                           /\ k \notin {pulses.present, pulses.future}
    BY <1>0, <1>2, <1>9
  <2> QED BY <1>0, <1>5, <1>6, <2>1, <2>2, LivesOnRunning
<1>13. Orderly' /\ ~broken'
  BY <1>0, <1>6, <1>8, <1>10, <1>11, <1>12 DEF Orderly
<1> QED BY <1>3, <1>7, <1>13, OrderlyInv

-----------------------------------------------------------------------------
(***************************************************************************)
(* The requests of the pulse manager, and steps that change nothing.       *)
(***************************************************************************)
LEMMA QuietInv ==
    ASSUME ConveyorInv, ~broken, ~broken', Typed', UNCHANGED <<SlotState, ev, cache>>
    PROVE  ConveyorInv'
<1>0. Orderly
  BY DEF ConveyorInv
<1>1. AcceptedNotLost'
  BY DEF ConveyorInv, AcceptedNotLost, SlotState
<1>2. LivesInv'
  BY <1>0 DEF Orderly, LivesInv, SlotState
<1>3. CallsInv' /\ PlacesInv'
  BY <1>0, CallsFrame DEF Orderly, CallsInv, PlacesInv
<1>4. pulses'.present = Unknown => BeforeFirst'
  <2>1. SUFFICES ASSUME pulses.present = Unknown PROVE BeforeFirst'
    BY DEF SlotState
  <2>2. BeforeFirst
    BY <1>0, <2>1 DEF Orderly
  <2>3. \A d \in Events : ev'[d].pc \in {"mapped", "activate", "add"} \cup Inside => ev'[d].early
    BY <2>2 DEF BeforeFirst
  <2> QED BY <2>2, <2>3, BeforeFirstFrame
<1>5. pulses'.present # Unknown => Running'
  BY <1>0, RunningFrame DEF Orderly, SlotState
<1>6. Orderly'
  BY <1>2, <1>3, <1>4, <1>5 DEF Orderly
<1> QED BY <1>1, <1>6, OrderlyInv

LEMMA StutterInv ==
    ASSUME ConveyorInv, UNCHANGED vars
    PROVE  ConveyorInv'
<1>1. Typed'
  <2>1. PulsesTyped'
    BY DEF ConveyorInv, Typed, PulsesTyped, vars
  <2>2. SlotsTyped' /\ EventsTyped'
    BY DEF ConveyorInv, Typed, SlotsTyped, EventsTyped, HasSlot, vars
  <2> QED BY <2>1, <2>2 DEF Typed
<1>2. CASE broken
  <2>1. NoPanic'
    BY DEF ConveyorInv, NoPanic, SkipWithoutRange, vars
  <2> QED BY <1>1, <1>2, <2>1, BrokenInv DEF vars
<1>3. CASE ~broken
  BY <1>1, <1>3, QuietInv DEF SlotState, vars
<1> QED BY <1>2, <1>3

(* The present slot has been started when the next pulse is prepared: the  *)
(* call that publishes a slot starts it before a second pulse change.      *)
LEMMA PresentStarted ==
    ASSUME Typed, Orderly, commit.phase = "idle", CallsAreShort, presentMachine # NoSlot
    PROVE  slots[presentMachine].life # "new"
<1>1. pulses.present # Unknown /\ Running
  BY DEF Orderly, BeforeFirst
<1>2. SUFFICES ASSUME slots[presentMachine].life = "new" PROVE FALSE
  OBVIOUS
<1>3. presentMachine \in DOMAIN slots
  BY SlotsAre DEF Typed, PulsesTyped, NoSlot
<1>4. PICK e \in Events : ev[e].pc = "activate" /\ ev[e].slot = presentMachine
  BY <1>2, <1>3 DEF Orderly, LivesInv
<1>5. CallFits(e) /\ ~ev[e].late /\ StartFits(e)
  BY <1>4 DEF Orderly, CallsInv, InCall, CallsAreShort
<1>6. ev[e].now = pulses
  BY <1>5 DEF CallFits
<1>7. slots[presentMachine].st = "Present" /\ slots[presentMachine].range.right = pulses.present
  BY <1>1 DEF Running, PresentFits
<1>8. Covers(slots[presentMachine], pulses.future)
  BY <1>1, <1>4, <1>5, <1>6, <1>7 DEF StartFits
<1>9. /\ pulses.present \in Int /\ pulses.future \in Int /\ Delta \in Nat \ {0}
      /\ pulses.future = pulses.present + Delta
  BY <1>1, RunningNumbers
<1>10. slots[presentMachine].range.left \in Int
  BY <1>1, <1>3, RunningNumbers
<1> QED BY <1>7, <1>8, <1>9, <1>10 DEF Covers

LEMMA FlagsInv ==
    ASSUME ConveyorInv, RequestNodeState \/ CancelNodeState
    PROVE  ConveyorInv'
<1>0. /\ Typed /\ Orderly /\ ~broken /\ commit.phase = "idle"
      /\ UNCHANGED <<SlotState, ev, cache>>
  BY DEF ConveyorInv, RequestNodeState, CancelNodeState, Working, SlotState
<1>1. Typed'
  BY <1>0, FlagsTyped
<1>2. ~broken'
  BY <1>0, PresentStarted DEF RequestNodeState, CancelNodeState
<1> QED BY <1>0, <1>1, <1>2, QuietInv

-----------------------------------------------------------------------------
(***************************************************************************)
(* A pulse change starts.                                                  *)
(***************************************************************************)
(* The checks of CommitPulseChange fail after an early event only, or for  *)
(* a beat that skips pulses and has no range.                              *)
LEMMA CommitPanics ==
    ASSUME ConveyorInv, ~broken, commit.phase = "idle", NEW b \in Beats, b[1] <= LastPulse,
           ~CommitChecks(CommitBeatRange(b[1], b[2])),
           commit' = [commit EXCEPT !.range = CommitBeatRange(b[1], b[2])],
           UNCHANGED <<pulses, ev>>
    PROVE  NoPanic'
<1> DEFINE r == CommitBeatRange(b[1], b[2])
<1>0. Typed /\ PulsesTyped /\ Orderly /\ commit \in CommitType
  BY DEF ConveyorInv, Typed, PulsesTyped
<1>1. CASE pulses.present = Unknown
  <2>1. BeforeFirst /\ presentMachine = NoSlot
    BY <1>0, <1>1 DEF Orderly, BeforeFirst
  <2>2. published[Unknown] = NoSlot
    <3>1. Unknown \in Keys /\ Unknown # LocalRelative /\ Unknown # FirstPulse
      BY KeysAre, ConveyorAssumption DEF Unknown, LocalRelative, Keys
    <3>2. pulses.future # Unknown
      BY <1>0, <3>1, KeysAre DEF PulsesTyped, NowType, Unknown
    <3> QED BY <2>1, <3>1, <3>2 DEF BeforeFirst
  <2>3. pulses.future # LocalRelative
    BY <1>1, <2>1, <2>2 DEF CommitChecks
  <2>4. \E e \in Events : ev[e].early
    BY <2>1, <2>3 DEF BeforeFirst
  <2> QED BY <2>4 DEF NoPanic
<1>2. CASE pulses.present # Unknown
  <2>1. Running
    BY <1>0, <1>2 DEF Orderly
  <2>2. /\ presentMachine # NoSlot /\ published[pulses.present] = presentMachine
        /\ slots[presentMachine].st = "Present" /\ pulses.future = pulses.present + Delta
    BY <2>1 DEF Running, PresentFits
  <2>3. r.left # pulses.future
    BY <2>2 DEF CommitChecks
  <2>4. r = NewLeftGapRange(pulses.present, pulses.future + Delta)
    BY <1>0, <1>2, <2>2, <2>3, CommitRangeFits
  <2> HIDE DEF r
  <2>5. commit'.phase = "idle" /\ commit'.range = r
    BY <1>0 DEF CommitType, r
  <2> QED BY <2>4, <2>5 DEF NoPanic, SkipWithoutRange
<1> QED BY <1>1, <1>2

\* The present slot has become past.
TurnsPast(i) ==
    /\ OneSlot(i) /\ slots[i].st = "Present" /\ slots'[i].st = "Past"
    /\ slots'[i].range = slots[i].range /\ slots'[i].life = slots[i].life
    /\ slots'[i].mig = slots[i].mig /\ slots'[i].unpub = slots[i].unpub

LEMMA StartsRunning ==
    ASSUME Typed, Running, commit.phase = "idle", NEW r \in RangeType, TurnsPast(presentMachine),
           r.left = pulses.future, r.right \in {pulses.future, pulses.future + Delta},
           r.right <= LastPulse, KnowsBounds(r),
           commit' = [phase |-> "publish", range |-> r, future |-> pulses.future],
           UNCHANGED <<pulses, published, unpublishPulse, presentMachine>>
    PROVE  Running'
<1> DEFINE i == presentMachine
<1>0. /\ DOMAIN slots' = DOMAIN slots /\ \A j \in DOMAIN slots : j # i => slots'[j] = slots[j]
      /\ slots[i].st = "Present" /\ slots'[i].st = "Past"
      /\ slots'[i].range = slots[i].range /\ slots'[i].mig = slots[i].mig
      /\ slots'[i].unpub = slots[i].unpub
  BY DEF TurnsPast, OneSlot
<1>1. commit'.phase = "publish" /\ commit'.range = r /\ commit'.future = pulses.future
  OBVIOUS
<1>2. /\ LastStarted' = pulses.present /\ LastPublished' = pulses.future
      /\ LastStarted = pulses.present /\ LastPublished = pulses.future
  BY <1>1 DEF LastStarted, LastPublished
<1>3. CommitFits'
  BY <1>1 DEF CommitFits, KnowsBounds
<1>4. presentMachine \in DOMAIN slots /\ published[pulses.present] = presentMachine
  BY SlotsAre DEF Typed, PulsesTyped, NoSlot, Running, PresentFits
<1>5. ASSUME NEW j \in DOMAIN slots PROVE SlotFits(j)'
  <2>1. SlotFits(j)
    BY DEF Running
  <2>2. CASE j # i
    <3>1. slots'[j] = slots[j]
      BY <1>0, <2>2
    <3> QED BY <1>1, <1>2, <2>1, <2>2, <3>1 DEF SlotFits, Covers, KnowsBounds
  <2>3. CASE j = i
    <3> DEFINE s == slots'[j]
               t == slots[j]
    <3>1. /\ t.range.left <= t.range.right
          /\ t.unpub = LocalRelative \/ Covers(t, t.unpub)
          /\ t.range.right # Unknown
          /\ t.range.right <= LastStarted
          /\ t.range.right > FirstPulse => KnowsBounds(t.range)
      BY <1>0, <2>1, <2>3 DEF SlotFits
    <3>2. s.range = t.range /\ s.unpub = t.unpub /\ s.st = "Past"
      BY <1>0, <2>3
    <3> HIDE DEF s, t
    <3>3. /\ s.range.left <= s.range.right
          /\ s.unpub = LocalRelative \/ Covers(s, s.unpub)
          /\ s.range.right # Unknown
          /\ s.range.right <= LastStarted'
          /\ s.range.right > FirstPulse => KnowsBounds(s.range)
      BY <1>2, <3>1, <3>2 DEF Covers
    <3> QED BY <1>1, <3>2, <3>3 DEF SlotFits, s, Covers, KnowsBounds
  <2> QED BY <2>2, <2>3
<1>6. \A j \in DOMAIN slots : slots'[j].range = slots[j].range
  BY <1>0
<1>7. OneSlotPerPulse'
  BY <1>0, <1>6 DEF Running, OneSlotPerPulse, Covers
<1>8. RegistryFits'
  <2>1. SUFFICES ASSUME NEW k \in Keys, published[k] # NoSlot
                 PROVE  /\ k >= FirstPulse => Covers(slots'[published[k]], k)
                        /\ k = Unknown => slots'[published[k]].st = "Antique"
                        /\ k <= LastPublished
    BY <1>2 DEF RegistryFits, Covers
  <2>2. published[k] \in DOMAIN slots
    BY <2>1, SlotsAre DEF Typed
  <2>3. /\ k >= FirstPulse => Covers(slots[published[k]], k)
        /\ k = Unknown => slots[published[k]].st = "Antique"
        /\ k <= LastPublished
    BY <2>1 DEF Running, RegistryFits
  <2>4. slots[published[k]].st = "Antique" => slots'[published[k]].st = "Antique"
    BY <1>0, <2>2
  <2> QED BY <1>6, <2>2, <2>3, <2>4 DEF Covers
<1>9. PresentFits' /\ NextFits'
  BY <1>0, <1>1, <1>4 DEF Running, PresentFits, NextFits
<1>10. unpublishPulse' < LastStarted'
  BY <1>2 DEF Running
<1> QED BY <1>0, <1>3, <1>5, <1>7, <1>8, <1>9, <1>10 DEF Running

(* The calls when nobody has overlapped a pulse change, and no slot loses  *)
(* what its events rely on.                                                *)
LEMMA UpToDateCalls ==
    ASSUME CallsInv, UNCHANGED <<pulses, ev>>, \A d \in Events : InCall(d) => ~ev[d].late,
           \A d \in Events : ev[d].pc = "activate" => StartFits(d)'
    PROVE  CallsInv'
<1>1. ASSUME NEW d \in Events
      PROVE  /\ ev'[d].pc = "none" => ~ev'[d].late
             /\ InCall(d)' => CallFits(d)'
             /\ InCall(d)' \/ HasSlot(d)' => AsFits(d)'
             /\ ev'[d].pc = "activate" => StartFits(d)'
  <2>1. (InCall(d)' <=> InCall(d)) /\ (HasSlot(d)' <=> HasSlot(d)) /\ (AsFits(d)' <=> AsFits(d))
    BY DEF InCall, HasSlot, AsFits
  <2>2. InCall(d) => CallFits(d)'
    BY DEF CallsInv, CallFits
  <2> QED BY <2>1, <2>2 DEF CallsInv
<1> QED BY <1>1 DEF CallsInv

LEMMA StartsInv ==
    ASSUME ConveyorInv, NEW b \in Beats, b[1] <= LastPulse, CommitPulseChange(b[1], b[2]),
           Starts(CommitBeatRange(b[1], b[2]))
    PROVE  ConveyorInv'
<1> DEFINE r == CommitBeatRange(b[1], b[2])
           i == presentMachine
<1>0. /\ Typed /\ PulsesTyped /\ SlotsTyped /\ EventsTyped /\ Orderly /\ ~broken
      /\ commit.phase = "idle" /\ CallsAreShort
      /\ UNCHANGED <<pulses, published, unpublishPulse, presentMachine, ev, broken>>
  BY CommitEffect DEF ConveyorInv, Typed, Working, Starts
<1>1. /\ r \in RangeType /\ r.right = b[1] /\ r.known \subseteq Pulses
      /\ pulses.present = Unknown => r = FirstRange /\ b[1] = FirstPulse
  BY <1>0, CommitRangeTyped
<1>2. /\ CommitChecks(r) /\ cache' = Put(cache, r) /\ slots' = SetPast(i)
      /\ commit' = [phase |-> "publish", range |-> r, future |-> pulses.future]
  BY DEF Starts
<1>3. Typed'
  BY <1>0, CommitTyped
<1>4. cache'.data = cache.data \cup r.known
  BY <1>0, <1>1, <1>2, PutTyped DEF PulsesTyped
<1>5. \A d \in Events : InCall(d) => ~ev[d].late
  BY <1>0 DEF CallsAreShort
<1>6. CASE pulses.present = Unknown
  <2>1. BeforeFirst /\ i = NoSlot
    BY <1>0, <1>6 DEF Orderly, BeforeFirst
  <2>2. UNCHANGED slots
    BY <1>2, <2>1 DEF SetPast
  <2>3. \A n \in cache'.data : n >= FirstPulse
    <3>1. r.known = {FirstPulse}
      BY <1>1, <1>6 DEF FirstRange, NewLeftGapRange
    <3>2. FirstPulse >= FirstPulse
      BY ConveyorAssumption
    <3> QED BY <1>0, <1>4, <3>1, <3>2 DEF Orderly, PlacesInv
  <2> HIDE DEF r, i
  <2>4. AcceptedNotLost' /\ LivesInv'
    BY <1>0, <2>2 DEF ConveyorInv, AcceptedNotLost, Orderly, LivesInv
  <2>5. CallsInv'
    <3>1. \A d \in Events : StartFits(d)' <=> StartFits(d)
      BY <1>0, <2>2 DEF StartFits, Covers
    <3> QED BY <1>0, <1>5, <3>1, UpToDateCalls DEF Orderly, CallsInv
  <2>6. PlacesInv'
    <3>1. \A d \in Events : /\ HasSlot(d)' <=> HasSlot(d)
                            /\ PlaceFits(d)' <=> PlaceFits(d)
                            /\ InsideFits(d)' <=> InsideFits(d)
      BY <1>0, <2>2 DEF HasSlot, PlaceFits, InsideFits, OfItsPulse, Covers
    <3> QED BY <1>0, <2>3, <3>1 DEF Orderly, PlacesInv
  <2>7. BeforeFirst'
    <3>1. /\ commit'.phase = "publish" /\ commit'.range = FirstRange
          /\ commit'.future = pulses.future /\ FirstPulse <= LastPulse
      BY <1>1, <1>2, <1>6
    <3> QED BY <1>0, <2>1, <2>2, <3>1 DEF BeforeFirst, Early, FirstPresent, i
  <2>8. Orderly' /\ ~broken'
    BY <1>0, <1>6, <2>4, <2>5, <2>6, <2>7 DEF Orderly
  <2> QED BY <1>3, <2>4, <2>8, OrderlyInv
<1>7. CASE pulses.present # Unknown
  <2>1. Running /\ i # NoSlot /\ slots[i].st = "Present" /\ pulses.future = pulses.present + Delta
    BY <1>0, <1>7 DEF Orderly, Running, PresentFits
  <2>2. i \in DOMAIN slots
    BY <1>0, <2>1, SlotsAre DEF PulsesTyped, NoSlot
  <2>3. TurnsPast(i)
    BY <1>0, <1>2, <2>1, <2>2, SetPastEffect DEF TurnsPast
  <2>4. /\ r.left = pulses.future /\ KnowsBounds(r) /\ r.right <= LastPulse
        /\ r.right \in {pulses.future, pulses.future + Delta}
        /\ \A n \in r.known : n >= pulses.future
    <3>1. r.left = pulses.future
      BY <1>2, <2>1 DEF CommitChecks
    <3> QED BY <1>0, <1>1, <1>7, <2>1, <3>1, CommitRangeFits
  <2> HIDE DEF r
  <2>5. Running'
    BY <1>0, <1>1, <1>2, <2>1, <2>3, <2>4, StartsRunning
  <2> HIDE DEF i
  <2>6. /\ DOMAIN slots' = DOMAIN slots
        /\ \A j \in DOMAIN slots : /\ slots'[j].range = slots[j].range
                                   /\ slots'[j].life = slots[j].life
                                   /\ slots'[j].mig = slots[j].mig
                                   /\ slots[j].st = "Antique" => slots'[j].st = "Antique"
                                   /\ slots[j].st \in {"Present", "Past"} =>
                                         slots'[j].st \in {"Present", "Past"}
    BY <2>3 DEF TurnsPast, OneSlot
  <2>7. \A d \in Events : HasSlot(d) => ev[d].slot \in DOMAIN slots
    BY <1>0 DEF EventsTyped
  <2>8. AcceptedNotLost'
    <3>1. \A d \in Events : ev[d].pc \in Inside => HasSlot(d)
      BY DEF HasSlot
    <3> QED BY <1>0, <2>6, <2>7, <3>1 DEF ConveyorInv, AcceptedNotLost, IsActive
  <2>9. LivesInv'
    <3>1. \A d \in Events : ev[d].pc = "activate" => HasSlot(d)
      BY DEF HasSlot
    <3> QED BY <1>0, <2>6, <2>7, <3>1 DEF Orderly, LivesInv
  <2>10. CallsInv'
    <3>1. ASSUME NEW d \in Events, ev[d].pc = "activate" PROVE StartFits(d)'
      <4>1. StartFits(d) /\ ev[d].slot \in DOMAIN slots
        BY <1>0, <2>7, <3>1 DEF Orderly, CallsInv, HasSlot
      <4> QED BY <1>0, <2>6, <4>1 DEF StartFits, Covers
    <3> QED BY <1>0, <1>5, <3>1, UpToDateCalls DEF Orderly
  <2>11. PlacesInv'
    <3>1. ASSUME NEW d \in Events, ~ev[d].early, HasSlot(d)
          PROVE  PlaceFits(d)' /\ (ev[d].pc \in Inside => InsideFits(d)')
      <4>1. PlaceFits(d) /\ (ev[d].pc \in Inside => InsideFits(d)) /\ ev[d].slot \in DOMAIN slots
        BY <1>0, <2>7, <3>1 DEF Orderly, PlacesInv
      <4>2. OfItsPulse(slots[ev[d].slot], d) => OfItsPulse(slots[ev[d].slot], d)'
        BY <1>0, <2>6, <4>1 DEF OfItsPulse, Covers
      <4>3. PlaceFits(d)'
        BY <1>0, <2>6, <4>1, <4>2 DEF PlaceFits
      <4>4. ev[d].pc \in Inside => InsideFits(d)'
        BY <1>0, <4>1, <4>2 DEF InsideFits
      <4> QED BY <4>3, <4>4
    <3>2. \A n \in cache'.data : n >= FirstPulse
      <4>1. \A n \in r.known : n >= FirstPulse
        <5>1. pulses.future >= FirstPulse /\ pulses.future \in Int /\ FirstPulse \in Int
          BY <1>0, <2>1, RunningNumbers
        <5>2. \A n \in r.known : n \in Int
          BY <1>1 DEF RangeType
        <5> QED BY <2>4, <5>1, <5>2
      <4> QED BY <1>0, <1>4, <4>1 DEF Orderly, PlacesInv
    <3>3. \A d \in Events : (HasSlot(d)' <=> HasSlot(d)) /\ (ev[d].pc \in Inside => HasSlot(d))
      BY <1>0 DEF HasSlot
    <3> QED BY <1>0, <3>1, <3>2, <3>3 DEF PlacesInv
  <2>12. Orderly' /\ ~broken'
    BY <1>0, <1>7, <2>5, <2>9, <2>10, <2>11 DEF Orderly
  <2> QED BY <1>3, <2>8, <2>12, OrderlyInv
<1> QED BY <1>6, <1>7

LEMMA CommitInv ==
    ASSUME ConveyorInv, NEW b \in Beats, b[1] <= LastPulse, CommitPulseChange(b[1], b[2])
    PROVE  ConveyorInv'
<1> DEFINE r == CommitBeatRange(b[1], b[2])
<1>1. /\ \/ Starts(r)
         \/ ~CommitChecks(r) /\ broken' /\ UNCHANGED <<slots, cache, preparing>>
            /\ commit' = [commit EXCEPT !.range = r]
      /\ ~broken /\ commit.phase = "idle" /\ UNCHANGED <<pulses, ev>>
  BY CommitEffect DEF Working
<1>2. CASE Starts(r)
  BY <1>2, StartsInv
<1>3. CASE ~CommitChecks(r) /\ broken' /\ UNCHANGED slots
           /\ commit' = [commit EXCEPT !.range = r]
  <2>1. NoPanic'
    BY <1>1, <1>3, CommitPanics
  <2>2. Typed'
    BY CommitTyped DEF ConveyorInv
  <2> QED BY <1>1, <1>3, <2>1, <2>2, BrokenInv
<1> QED BY <1>1, <1>2, <1>3

-----------------------------------------------------------------------------
(***************************************************************************)
(* The next present slot is published.                                     *)
(***************************************************************************)
(* The registry as the pulse change finds it while the conveyor runs: the  *)
(* alias to remove is that of a past pulse, nothing is published after the *)
(* expected pulse, and what is published for it waits for it.              *)
LEMMA NextIsFree ==
    ASSUME Typed, Running, commit.phase = "publish"
    PROVE  LET F == commit.future
               R == commit.range.right
           IN
           /\ F = pulses.future /\ commit.range.left = F /\ R \in {F, F + Delta}
           /\ F \in Keys /\ R \in Keys /\ F \in Int /\ R \in Int /\ F <= R /\ R > FirstPulse
           /\ F > pulses.present /\ R # Unknown /\ LastStarted = pulses.present
           /\ \A k \in Keys : k >= pulses.present => Base(k) = published[k]
           /\ \A k \in Keys : Base(k) # NoSlot => Base(k) = published[k]
           /\ F # R => published[R] = NoSlot
           /\ published[F] # NoSlot =>
                 LET s == slots[published[F]] IN
                 /\ published[F] \in DOMAIN slots /\ s.range = OnePulse(F)
                 /\ s.range.left = F /\ s.range.right = F
                 /\ s.st = "Future" /\ s.mig \in {"None", "Future"}
<1> DEFINE F == commit.future
           R == commit.range.right
<1>0. /\ FirstPulse \in Nat \ {0} /\ Delta \in Nat \ {0} /\ LastPulse \in Nat
      /\ pulses.present \in Int /\ pulses.future \in Int /\ FirstPulse <= pulses.present
      /\ pulses.future = pulses.present + Delta
      /\ pulses.present \in Keys /\ pulses.future \in Keys
      /\ LastStarted = pulses.present /\ Unknown \in Int /\ Unknown < FirstPulse
  BY RunningNumbers
<1>1. F = pulses.future /\ commit.range.left = F /\ R \in {F, F + Delta} /\ R <= LastPulse
  BY DEF Running, CommitFits
<1>2. /\ F \in Keys /\ R \in Keys /\ F \in Int /\ R \in Int /\ F <= R /\ R > FirstPulse
      /\ F > pulses.present /\ R # Unknown
  BY <1>0, <1>1, KeysAre
<1>3. unpublishPulse < pulses.present /\ unpublishPulse \in Int
  <2>1. unpublishPulse \in Keys /\ unpublishPulse < LastStarted
    BY DEF Typed, PulsesTyped, Running
  <2> QED BY <1>0, <2>1, KeysAre
<1>4. \A k \in Keys : k >= pulses.present => Base(k) = published[k]
  BY <1>0, <1>3, KeysAre DEF Base
<1>5. \A k \in Keys : Base(k) # NoSlot => Base(k) = published[k]
  BY DEF Base
<1>6. LastPublished = pulses.future
  BY DEF LastPublished
<1>7. F # R => published[R] = NoSlot
  <2>1. published[R] # NoSlot => R <= pulses.future
    BY <1>2, <1>6 DEF Running, RegistryFits
  <2> HIDE DEF F, R
  <2> QED BY <1>1, <1>2, <2>1
<1>8. ASSUME published[F] # NoSlot
      PROVE  /\ published[F] \in DOMAIN slots /\ slots[published[F]].range = OnePulse(F)
             /\ slots[published[F]].st = "Future" /\ slots[published[F]].mig \in {"None", "Future"}
  <2> DEFINE j == published[F]
  <2>1. j \in DOMAIN slots
    BY <1>2, <1>8, SlotsAre DEF Typed
  <2>2. Covers(slots[j], F)
    <3>1. F >= FirstPulse
      BY <1>0, <1>1
    <3> QED BY <1>2, <1>8, <3>1 DEF Running, RegistryFits
  <2>3. SlotFits(j)
    BY <2>1 DEF Running
  <2>4. slots[j].range.left \in Int /\ slots[j].range.right \in Int
    BY <2>1, RunningNumbers
  <2> HIDE DEF j, F
  <2>5. ~(slots[j].range.right <= LastStarted)
    BY <1>0, <1>2, <2>2, <2>4 DEF Covers
  <2>6. /\ slots[j].range = OnePulse(pulses.future) /\ slots[j].st = "Future"
        /\ slots[j].mig \in {"None", "Future"}
    BY <2>3, <2>5 DEF SlotFits
  <2> QED BY <1>1, <2>1, <2>6 DEF j
<1>9. OnePulse(F).left = F /\ OnePulse(F).right = F
  BY DEF OnePulse
<1> QED BY <1>0, <1>1, <1>2, <1>4, <1>5, <1>7, <1>8, <1>9

(* The checks of _migratePulseSlots fail after an early event only. *)
LEMMA ClashesEarly ==
    ASSUME Typed, Orderly, commit.phase = "publish", Clashes
    PROVE  \E e \in Events : ev[e].early
<1>1. CASE pulses.present = Unknown
  <2>1. BeforeFirst
    BY <1>1 DEF Orderly
  <2>2. SUFFICES ASSUME pulses.future = LocalRelative PROVE FALSE
    BY <2>1 DEF BeforeFirst
  <2>3. DOMAIN slots = {}
    <3>1. presentMachine = NoSlot /\ \A i \in DOMAIN slots : i # NoSlot
      BY <2>1, SlotsAre DEF BeforeFirst, Typed, NoSlot
    <3> QED BY <2>1, <2>2, <3>1 DEF BeforeFirst, Early
  <2>4. \A k \in Keys : Base(k) = NoSlot
    BY <2>3, SlotsAre DEF Base, Typed
  <2>5. commit.future \in Keys /\ commit.range.right \in Keys
    BY CommitRight, KeysAre DEF Typed, PulsesTyped, CommitType, Keys
  <2> QED BY <2>4, <2>5 DEF Clashes
<1>2. CASE pulses.present # Unknown
  <2>1. Running
    BY <1>2 DEF Orderly
  <2> DEFINE F == commit.future
             R == commit.range.right
  <2>2. /\ F \in Keys /\ R \in Keys /\ F >= pulses.present /\ R >= pulses.present
        /\ F # R => published[R] = NoSlot
        /\ published[F] # NoSlot => slots[published[F]].st = "Future"
    <3>1. /\ F \in Keys /\ R \in Keys /\ F \in Int /\ R \in Int /\ F <= R /\ F > pulses.present
          /\ F # R => published[R] = NoSlot
          /\ published[F] # NoSlot => slots[published[F]].st = "Future"
      BY <2>1, NextIsFree
    <3>2. pulses.present \in Int
      BY <2>1, RunningNumbers
    <3> QED BY <3>1, <3>2
  <2>3. Base(F) = published[F] /\ Base(R) = published[R]
    BY <2>1, <2>2, NextIsFree
  <2> QED BY <2>2, <2>3 DEF Clashes
<1> QED BY <1>1, <1>2

LEMMA PromotesBeforeFirst ==
    ASSUME Typed, BeforeFirst, pulses.present = Unknown, commit.phase = "publish",
           NEW i \in Nat \ {NoSlot}, Promotes(i), presentMachine' = i,
           commit' = [commit EXCEPT !.phase = "route"],
           unpublishPulse' = IF commit.future # commit.range.right THEN commit.future ELSE Unknown,
           UNCHANGED <<pulses, ev>>
    PROVE  BeforeFirst'
<1> DEFINE key == commit.future
<1>0. /\ presentMachine = NoSlot /\ unpublishPulse = Unknown
      /\ commit.range = FirstRange /\ key \in {LocalRelative, pulses.future}
      /\ FirstPulse <= LastPulse
  BY DEF BeforeFirst
<1>1. commit.range.right = FirstPulse
  BY <1>0 DEF FirstRange, NewLeftGapRange
<1>2. \A k \in Keys : Base(k) = published[k]
  BY <1>0 DEF Base, Unknown, MinTimePulse
<1>3. /\ FirstPulse \in Keys /\ key \in Keys /\ LocalRelative \in Keys /\ Unknown # FirstPulse
      /\ LocalRelative # FirstPulse /\ pulses.future \in Keys
  BY SMTT(30), <1>0, KeysAre, ConveyorAssumption
     DEF Typed, PulsesTyped, NowType, Unknown, LocalRelative, Keys
<1>4. /\ commit'.phase = "route" /\ commit'.range = FirstRange /\ commit'.future = key
  BY <1>0 DEF Typed, PulsesTyped, CommitType
<1>5. ASSUME NEW j \in DOMAIN slots
      PROVE  j # NoSlot /\ Early(slots[j]) /\ published[pulses.future] = j
             /\ slots[j].mig \in {"None", "Future"}
  BY <1>0, SlotsAre DEF BeforeFirst, Typed, NoSlot
<1>6. /\ DOMAIN slots' = DOMAIN slots \cup {i}
      /\ \A j \in DOMAIN slots : j # i => slots'[j] = slots[j]
      /\ slots'[i].st = "Present" /\ slots'[i].range = FirstRange
      /\ published'[key] = i /\ published'[FirstPulse] = i
      /\ key # FirstPulse => published[FirstPulse] = NoSlot
      /\ \A k \in Keys : k \notin {key, FirstPulse} => published'[k] = published[k]
      /\ i \in DOMAIN slots => published[key] = i
      /\ i \notin DOMAIN slots => published[key] = NoSlot
  BY <1>0, <1>1, <1>2, <1>3 DEF Promotes
<1>7. FirstPresent(slots[i])' /\ slots'[i].mig \in {"None", "Future"}
  <2>1. CASE i \in DOMAIN slots
    <3>1. slots'[i].mig = slots[i].mig /\ slots'[i].unpub \in {slots[i].unpub, FirstPulse}
      BY <1>1, <2>1 DEF Promotes
    <3> QED BY <1>5, <1>6, <2>1, <3>1 DEF FirstPresent, Early
  <2>2. CASE i \notin DOMAIN slots
    <3>1. slots'[i].mig = "None" /\ slots'[i].unpub \in {LocalRelative, FirstPulse}
      BY <1>1, <2>2 DEF Promotes
    <3> QED BY <1>6, <3>1 DEF FirstPresent
  <2> QED BY <2>1, <2>2
<1>8. ASSUME NEW j \in DOMAIN slots, j # i
      PROVE  /\ Early(slots[j])' /\ published'[pulses.future] = j /\ pulses.future # FirstPulse
             /\ slots'[j].mig \in {"None", "Future"}
  <2>1. j # NoSlot /\ Early(slots[j]) /\ published[pulses.future] = j
        /\ slots[j].mig \in {"None", "Future"}
    BY <1>5, <1>8
  <2>2. pulses.future # key
    BY <1>6, <1>8, <2>1
  <2>3. pulses.future # FirstPulse
    BY <1>6, <2>1, <2>2
  <2> QED BY <1>3, <1>6, <1>8, <2>1, <2>2, <2>3 DEF Early
<1>9. ASSUME NEW k \in Keys, published'[k] # NoSlot
      PROVE  \/ k = pulses.future
             \/ published'[k] = i /\ k \in {LocalRelative, FirstPulse}
  <2>1. CASE k \in {key, FirstPulse}
    BY <1>0, <1>6, <2>1
  <2>2. CASE k \notin {key, FirstPulse}
    BY <1>0, <1>6, <1>9, <2>2 DEF BeforeFirst
  <2> QED BY <2>1, <2>2
<1>10. unpublishPulse' \in {LocalRelative, Unknown, pulses.future} \ {FirstPulse}
  BY <1>0, <1>1, <1>3
<1>11. ASSUME NEW j \in DOMAIN slots'
       PROVE  /\ slots'[j].mig \in {"None", "Future"}
              /\ j = presentMachine' => FirstPresent(slots[j])'
              /\ j # presentMachine' => /\ Early(slots[j])' /\ published'[pulses'.future] = j
                                        /\ presentMachine' # NoSlot => pulses'.future # FirstPulse
  <2>1. CASE j = i
    BY <1>7, <2>1
  <2>2. CASE j # i
    BY <1>6, <1>8, <1>11, <2>2
  <2> QED BY <2>1, <2>2
<1>12. /\ \A e \in Events : ev'[e].pc \in {"mapped", "activate", "add"} \cup Inside => ev'[e].early
       /\ pulses'.future # LocalRelative => \E e \in Events : ev'[e].early
  BY DEF BeforeFirst
<1> HIDE DEF key
<1> QED BY <1>0, <1>4, <1>6, <1>9, <1>10, <1>11, <1>12 DEF BeforeFirst

LEMMA PromotesRunning ==
    ASSUME Typed, Running, commit.phase = "publish",
           NEW i \in Nat \ {NoSlot}, Promotes(i), presentMachine' = i,
           commit' = [commit EXCEPT !.phase = "route"],
           unpublishPulse' = IF commit.future # commit.range.right THEN commit.future ELSE Unknown,
           UNCHANGED pulses
    PROVE  Running'
<1> DEFINE F == commit.future
           R == commit.range.right
<1>0. /\ FirstPulse \in Nat \ {0} /\ Delta \in Nat \ {0}
      /\ pulses.present \in Int /\ FirstPulse <= pulses.present
      /\ pulses.future = pulses.present + Delta
      /\ pulses.present \in Keys
      /\ LastStarted = pulses.present /\ Unknown \in Int /\ Unknown < FirstPulse
  BY RunningNumbers
<1>a. \A j \in DOMAIN slots : slots[j].range.left \in Int /\ slots[j].range.right \in Int
  BY RunningNumbers
<1>1. /\ F = pulses.future /\ commit.range.left = F /\ R \in {F, F + Delta}
      /\ F \in Keys /\ R \in Keys /\ F \in Int /\ R \in Int /\ F <= R /\ R > FirstPulse
      /\ F > pulses.present /\ R # Unknown
  BY NextIsFree
<1>b. /\ \A k \in Keys : Base(k) # NoSlot => Base(k) = published[k]
      /\ Base(pulses.present) = published[pulses.present] /\ Base(F) = published[F]
  <2>1. F >= pulses.present /\ pulses.present >= pulses.present
    BY <1>0, <1>1
  <2> QED BY <1>0, <1>1, <2>1, NextIsFree
<1>2. commit'.phase = "route" /\ commit'.range = commit.range /\ commit'.future = F
  BY DEF Typed, PulsesTyped, CommitType
<1>3. LastStarted' = R /\ LastPublished' = R
  BY <1>2 DEF LastStarted, LastPublished
<1>4. CommitFits'
  BY <1>2 DEF Running, CommitFits, KnowsBounds
<1>5. /\ DOMAIN slots' = DOMAIN slots \cup {i}
      /\ \A j \in DOMAIN slots : j # i => slots'[j] = slots[j]
      /\ slots'[i].st = "Present" /\ slots'[i].range = commit.range
      /\ published'[F] = i /\ published'[R] = i
      /\ \A k \in Keys : k \notin {F, R} => published'[k] = Base(k)
  BY DEF Promotes
<1>6. /\ slots'[i].mig \in {"None", "Future"}
      /\ slots'[i].unpub = LocalRelative \/ slots'[i].unpub \in F .. R
      /\ i \in DOMAIN slots => published[F] = i /\ slots[i].range.left = F /\ slots[i].range.right = F
      /\ i \notin DOMAIN slots => published[F] = NoSlot
  <2>1. CASE i \in DOMAIN slots
    <3>1. /\ published[F] = i /\ slots'[i].mig = slots[i].mig
          /\ slots'[i].unpub \in {slots[i].unpub, R}
      BY <1>b, <2>1 DEF Promotes
    <3>2. slots[i].range.left = F /\ slots[i].range.right = F /\ slots[i].mig \in {"None", "Future"}
      BY <3>1, NextIsFree
    <3>3. SlotFits(i)
      BY <2>1 DEF Running
    <3>4. slots[i].unpub = LocalRelative \/ slots[i].unpub \in F .. F
      BY <3>2, <3>3 DEF SlotFits, Covers
    <3> HIDE DEF F, R
    <3>5. slots'[i].unpub = LocalRelative \/ slots'[i].unpub \in F .. R
      BY <1>1, <3>1, <3>4
    <3> QED BY <2>1, <3>1, <3>2, <3>5
  <2>2. CASE i \notin DOMAIN slots
    <3>1. /\ published[F] = NoSlot /\ slots'[i].mig = "None"
          /\ slots'[i].unpub \in {LocalRelative, R}
      BY <1>b, <2>2 DEF Promotes
    <3> HIDE DEF F, R
    <3>2. R \in F .. R
      BY <1>1
    <3> QED BY <2>2, <3>1, <3>2
  <2> QED BY <2>1, <2>2
<1> HIDE DEF F, R
<1>7. ASSUME NEW j \in DOMAIN slots, j # i
      PROVE  slots[j].range.right <= pulses.present /\ slots[j].st # "Present"
  <2>1. SlotFits(j)
    BY DEF Running
  <2>2. published[F] # j
    BY <1>6, <1>7, SlotsAre DEF Typed, NoSlot
  <2> QED BY <1>0, <1>1, <2>1, <2>2 DEF SlotFits
<1>8. SlotFits(i)'
  <2> DEFINE s == slots'[i]
  <2>1. s.range.left = F /\ s.range.right = R /\ s.st = "Present"
    BY <1>1, <1>5 DEF R
  <2>2. KnowsBounds(s.range)
    BY <1>5 DEF Running, CommitFits
  <2>3. s.unpub = LocalRelative \/ Covers(s, s.unpub)
    BY <1>6, <2>1 DEF Covers
  <2> HIDE DEF s
  <2>4. s.range.left <= s.range.right /\ s.range.right # Unknown /\ s.range.right <= LastStarted'
    BY <1>1, <1>3, <2>1
  <2> QED BY <1>2, <2>1, <2>2, <2>3, <2>4 DEF SlotFits, s, Covers, KnowsBounds
<1>9. ASSUME NEW j \in DOMAIN slots, j # i PROVE SlotFits(j)'
  <2>1. SlotFits(j) /\ slots'[j] = slots[j]
    BY <1>5, <1>9 DEF Running
  <2>2. slots[j].range.right <= pulses.present /\ slots[j].st # "Present"
    BY <1>7, <1>9
  <2>3. slots[j].range.right <= R /\ slots[j].range.right <= LastStarted
    BY <1>0, <1>a, <1>1, <2>2
  <2>4. slots[j].range.right \in FirstPulse .. R => slots[j].range.right \in FirstPulse .. LastStarted
    BY <1>0, <1>a, <2>2
  <2> DEFINE t == slots[j]
  <2>5. /\ t.range.left <= t.range.right
        /\ t.unpub = LocalRelative \/ Covers(t, t.unpub)
        /\ t.st = "Antique" => t.range.right = Unknown /\ t.mig \in {"None", "Antique"}
        /\ t.range.right = Unknown => t.st = "Antique"
        /\ t.range.right \in FirstPulse .. LastStarted => t.st \in {"Present", "Past"}
        /\ t.range.right > FirstPulse => KnowsBounds(t.range)
    BY <2>1 DEF SlotFits
  <2>6. /\ t.range.right <= LastStarted'
        /\ t.range.right \in FirstPulse .. LastStarted' => t.st \in {"Present", "Past"}
    BY <1>3, <2>3, <2>4, <2>5
  <2>7. ~(t.st = "Present") /\ ~(j = presentMachine')
    BY <1>9, <2>2
  <2>8. t = slots'[j]
    BY <2>1
  <2> HIDE DEF t
  <2> QED BY <2>5, <2>6, <2>7, <2>8 DEF SlotFits, Covers, KnowsBounds
<1>10. \A j \in DOMAIN slots' : SlotFits(j)'
  BY <1>5, <1>8, <1>9
<1>11. ASSUME NEW j \in DOMAIN slots, j # i, NEW k \in Keys, k >= FirstPulse,
              Covers(slots[j], k)
       PROVE  ~Covers(slots'[i], k)
  <2>1. k \in Int /\ k <= slots[j].range.right
    BY <1>a, <1>11, KeysAre DEF Covers
  <2>2. slots[j].range.right <= pulses.present /\ slots[j].range.right \in Int
    BY <1>a, <1>7, <1>11
  <2>3. k < F
    BY <1>0, <1>1, <2>1, <2>2
  <2>4. slots'[i].range.left = F
    BY <1>1, <1>5
  <2> QED BY <1>1, <2>1, <2>3, <2>4 DEF Covers
<1>12. OneSlotPerPulse'
  <2>1. SUFFICES ASSUME NEW j \in DOMAIN slots', NEW l \in DOMAIN slots', NEW k \in Keys,
                        k >= FirstPulse, Covers(slots'[j], k), Covers(slots'[l], k)
                 PROVE  j = l
    BY DEF OneSlotPerPulse, Covers
  <2>2. CASE j # i /\ l # i
    BY <1>5, <2>1, <2>2 DEF Running, OneSlotPerPulse
  <2>3. CASE j = i /\ l # i
    BY <1>5, <1>11, <2>1, <2>3
  <2>4. CASE l = i /\ j # i
    BY <1>5, <1>11, <2>1, <2>4
  <2> QED BY <2>2, <2>3, <2>4
<1>13. RegistryFits'
  <2>1. SUFFICES ASSUME NEW k \in Keys, published'[k] # NoSlot
                 PROVE  /\ k >= FirstPulse => Covers(slots'[published'[k]], k)
                        /\ k = Unknown => slots'[published'[k]].st = "Antique"
                        /\ k <= R
    BY <1>3 DEF RegistryFits, Covers
  <2>2. CASE k \in {F, R}
    <3>1. published'[k] = i
      BY <1>5, <2>2
    <3>2. slots'[i].range.left = F /\ slots'[i].range.right = R
      BY <1>1, <1>5 DEF R
    <3>3. Covers(slots'[i], k) /\ k <= R
      BY <1>1, <2>2, <3>2 DEF Covers
    <3>4. k # Unknown
      BY <1>0, <1>1, <2>2
    <3> QED BY <3>1, <3>3, <3>4
  <2>3. CASE k \notin {F, R}
    <3>1. published'[k] = published[k] /\ published[k] # NoSlot
      BY <1>5, <1>b, <2>1, <2>3
    <3>2. /\ k >= FirstPulse => Covers(slots[published[k]], k)
          /\ k = Unknown => slots[published[k]].st = "Antique"
          /\ k <= LastPublished
      BY <3>1 DEF Running, RegistryFits
    <3>3. LastPublished = F
      BY <1>1 DEF LastPublished
    <3>4. k <= R
      BY <1>1, <3>2, <3>3, KeysAre
    <3>5. published[k] \in DOMAIN slots
      BY <3>1, SlotsAre DEF Typed
    <3>6. CASE published[k] # i
      BY <1>5, <3>1, <3>2, <3>4, <3>5, <3>6
    <3>7. CASE published[k] = i
      <4>1. slots[i].range.left = F /\ slots[i].range.right = F
        BY <1>6, <3>5, <3>7
      <4>2. ~(k >= FirstPulse)
        BY <1>1, <2>3, <3>2, <3>7, <4>1 DEF Covers
      <4>3. slots[i].st # "Antique"
        BY <3>5, <3>7 DEF Promotes
      <4> QED BY <3>2, <3>4, <3>7, <4>2, <4>3
    <3> QED BY <3>6, <3>7
  <2> QED BY <2>2, <2>3
<1>14. PresentFits'
  <2> DEFINE p == published[pulses.present]
  <2>1. /\ p # NoSlot /\ slots[p].range.right = pulses.present
        /\ slots[p].mig \in {"None", "Present"} /\ slots[p].st = "Past"
    BY DEF Running, PresentFits
  <2>2. p \in DOMAIN slots
    BY <1>0, <2>1, SlotsAre DEF Typed
  <2>3. published'[pulses.present] = p
    BY <1>0, <1>1, <1>5, <1>b
  <2> HIDE DEF p
  <2>4. p # i
    BY <1>0, <1>1, <1>6, <2>1, <2>2
  <2>5. slots'[p] = slots[p]
    BY <1>5, <2>2, <2>4
  <2> QED BY <1>2, <2>1, <2>3, <2>5 DEF PresentFits
<1>15. NextFits'
  BY <1>2, <1>5, <1>6 DEF NextFits, R, F
<1>16. unpublishPulse' < LastStarted'
  <2>1. unpublishPulse' = IF F # R THEN F ELSE Unknown
    BY DEF F, R
  <2> QED BY <1>0, <1>1, <1>3, <2>1
<1> QED BY <1>4, <1>10, <1>12, <1>13, <1>14, <1>15, <1>16 DEF Running, NoSlot

LEMMA PublishPresentInv ==
    ASSUME ConveyorInv, PublishPresent
    PROVE  ConveyorInv'
<1>0. /\ Typed /\ PulsesTyped /\ SlotsTyped /\ EventsTyped /\ Orderly /\ ~broken
      /\ commit.phase = "publish" /\ UNCHANGED <<pulses, cache, ev>>
  BY DEF ConveyorInv, Typed, PublishPresent
<1>1. commit.range.right \in Pulses
  BY <1>0, CommitRight
<1>2. /\ \/ broken' /\ Clashes /\ UNCHANGED <<slots, published, presentMachine>>
         \/ UNCHANGED broken /\ \E i \in Nat \ {NoSlot} : Promotes(i) /\ presentMachine' = i
      /\ commit' = [commit EXCEPT !.phase = "route"]
      /\ unpublishPulse' = IF commit.future # commit.range.right THEN commit.future ELSE Unknown
  BY <1>0, <1>1, PublishPresentEffect
<1>3. Typed'
  BY <1>0, PublishPresentTyped
<1>4. CASE broken' /\ Clashes /\ UNCHANGED slots
  <2>1. NoPanic'
    BY <1>0, <1>4, ClashesEarly DEF NoPanic
  <2> QED BY <1>0, <1>3, <1>4, <2>1, BrokenInv
<1>5. ASSUME NEW i \in Nat \ {NoSlot}, Promotes(i), presentMachine' = i, UNCHANGED broken
      PROVE  ConveyorInv'
  <2>0. /\ DOMAIN slots' = DOMAIN slots \cup {i}
        /\ \A j \in DOMAIN slots : j # i => slots'[j] = slots[j]
        /\ slots'[i].st = "Present" /\ slots'[i].range = commit.range
        /\ i \in DOMAIN slots => slots[i].st = "Future" /\ slots'[i].life = slots[i].life
                                 /\ slots'[i].mig = slots[i].mig
        /\ i \notin DOMAIN slots => slots'[i].life = "added" /\ slots'[i].mig = "None"
    BY <1>5 DEF Promotes
  <2>1. \A j \in DOMAIN slots : slots'[j].life = slots[j].life /\ slots'[j].mig = slots[j].mig
    BY <2>0
  <2>2. \A d \in Events : HasSlot(d) => ev[d].slot \in DOMAIN slots
    BY <1>0 DEF EventsTyped
  <2>3. AcceptedNotLost'
    <3>1. \A d \in Events : ev[d].pc \in Inside => HasSlot(d)
      BY DEF HasSlot
    <3> QED BY <1>0, <2>1, <2>2, <3>1 DEF ConveyorInv, AcceptedNotLost, IsActive
  <2>4. LivesInv'
    <3>1. \A d \in Events : ev[d].pc = "activate" => ev[d].slot \in DOMAIN slots
      BY <2>2 DEF HasSlot
    <3>2. ASSUME NEW j \in DOMAIN slots'
          PROVE  /\ slots'[j].life \in {"new", "added"} <=> slots'[j].mig = "None"
                 /\ slots'[j].life \in {"dead", "gone"} => slots'[j].mig = "Past"
                 /\ slots'[j].life = "new" =>
                       \E d \in Events : ev'[d].pc = "activate" /\ ev'[d].slot = j
      <4>1. CASE j \in DOMAIN slots
        BY <1>0, <2>1, <4>1 DEF Orderly, LivesInv
      <4>2. CASE j \notin DOMAIN slots
        BY <2>0, <3>2, <4>2
      <4> QED BY <4>1, <4>2
    <3>3. \A d \in Events : ev'[d].pc = "activate" =>
            /\ slots'[ev'[d].slot].life = "new"
            /\ \A c \in Events : ev'[c].pc = "activate" /\ ev'[c].slot = ev'[d].slot => c = d
      BY <1>0, <2>1, <3>1 DEF Orderly, LivesInv
    <3> QED BY <3>2, <3>3 DEF LivesInv
  <2>5. \A d \in Events : InCall(d) => ~ev[d].late
    BY <1>0 DEF Orderly, CallsInv, CallFits, LateFits
  <2>6. CASE pulses.present = Unknown
    <3>1. BeforeFirst
      BY <1>0, <2>6 DEF Orderly
    <3>2. BeforeFirst'
      BY <1>0, <1>2, <1>5, <2>6, <3>1, PromotesBeforeFirst
    <3>3. \A d \in Events : HasSlot(d) => ev[d].early
      BY <3>1 DEF BeforeFirst, HasSlot
    <3>4. CallsInv'
      <4>1. ASSUME NEW d \in Events, ev[d].pc = "activate" PROVE StartFits(d)'
        <5>1. HasSlot(d)
          BY <4>1 DEF HasSlot
        <5>2. ev[d].as = "Future"
          BY <1>0, <3>3, <5>1 DEF Orderly, CallsInv, AsFits
        <5> QED BY <1>0, <2>6, <5>2 DEF StartFits
      <4> QED BY <1>0, <2>5, <4>1, UpToDateCalls DEF Orderly
    <3>5. PlacesInv'
      <4>1. \A d \in Events : (HasSlot(d)' <=> HasSlot(d)) /\ (ev[d].pc \in Inside => HasSlot(d))
        BY <1>0 DEF HasSlot
      <4> QED BY <1>0, <3>3, <4>1 DEF Orderly, PlacesInv
    <3>6. Orderly' /\ ~broken'
      BY <1>0, <1>5, <2>4, <2>6, <3>2, <3>4, <3>5 DEF Orderly
    <3> QED BY <1>3, <2>3, <3>6, OrderlyInv
  <2>7. CASE pulses.present # Unknown
    <3>1. Running
      BY <1>0, <2>7 DEF Orderly
    <3>2. Running'
      BY <1>0, <1>2, <1>5, <3>1, PromotesRunning
    <3>a. /\ commit.range.left = pulses.future /\ commit.range.left \in Int
          /\ commit.range.right \in Int /\ commit.range.left <= commit.range.right
          /\ commit.range.right > FirstPulse
      BY <1>0, <3>1, NextIsFree
    <3>3. CallsInv'
      <4>1. ASSUME NEW d \in Events, ev[d].pc = "activate" PROVE StartFits(d)'
        <5>1. StartFits(d) /\ ev[d].slot \in DOMAIN slots /\ ev[d].now = pulses
          BY <1>0, <2>2, <2>5, <4>1 DEF Orderly, CallsInv, InCall, HasSlot, CallFits
        <5>2. CASE ev[d].slot # i
          BY <1>0, <2>0, <5>1, <5>2 DEF StartFits, Covers
        <5>3. CASE ev[d].slot = i
          <6>1. ev[d].as = "Future"
            BY <2>0, <5>1, <5>3 DEF StartFits
          <6>2. Covers(slots'[i], pulses.future)
            BY <2>0, <3>a DEF Covers
          <6> QED BY <1>0, <5>1, <5>3, <6>1, <6>2 DEF StartFits, Covers
        <5> QED BY <5>2, <5>3
      <4> QED BY <1>0, <2>5, <4>1, UpToDateCalls DEF Orderly
    <3>4. PlacesInv'
      <4>1. ASSUME NEW d \in Events, ~ev[d].early, HasSlot(d)
            PROVE  PlaceFits(d)' /\ (ev[d].pc \in Inside => InsideFits(d)')
        <5>1. PlaceFits(d) /\ (ev[d].pc \in Inside => InsideFits(d)) /\ ev[d].slot \in DOMAIN slots
          BY <1>0, <2>2, <4>1 DEF Orderly, PlacesInv
        <5>2. CASE ev[d].slot # i
          BY <1>0, <2>0, <5>1, <5>2 DEF PlaceFits, InsideFits, OfItsPulse, Covers
        <5>3. CASE ev[d].slot = i
          <6>1. slots[i].st = "Future" /\ slots'[i].range.right > FirstPulse
            BY <2>0, <3>a, <5>1, <5>3
          <6>2. PlaceFits(d)'
            BY <1>0, <5>1, <5>3, <6>1 DEF PlaceFits, OfItsPulse
          <6>3. ev[d].pc \in Inside => InsideFits(d)'
            BY <1>0, <5>1, <5>3, <6>1 DEF InsideFits, OfItsPulse
          <6> QED BY <6>2, <6>3
        <5> QED BY <5>2, <5>3
      <4>2. \A d \in Events : (HasSlot(d)' <=> HasSlot(d)) /\ (ev[d].pc \in Inside => HasSlot(d))
        BY <1>0 DEF HasSlot
      <4> QED BY <1>0, <4>1, <4>2 DEF Orderly, PlacesInv
    <3>5. Orderly' /\ ~broken'
      BY <1>0, <1>5, <2>4, <2>7, <3>2, <3>3, <3>4 DEF Orderly
    <3> QED BY <1>3, <2>3, <3>5, OrderlyInv
  <2> QED BY <2>6, <2>7
<1> QED BY <1>2, <1>4, <1>5

-----------------------------------------------------------------------------
(***************************************************************************)
(* The events are routed to the new present slot, and all slots migrate.   *)
(***************************************************************************)
\* What the migration makes of a slot that has or will have the handler h.
LEMMA MigratedFits ==
    ASSUME Typed, LivesInv, NEW i \in DOMAIN slots, Migrated(i)
    PROVE  /\ slots[i].mig \in {"None", "Future"} => slots'[i].mig \in {"None", "Present"}
           /\ slots[i].mig \in {"None", "Present"} =>
                 slots'[i].mig \in {"None", "Past"} /\ slots'[i].life \in {"new", "added", "live"}
           /\ slots[i].mig \in {"None", "Antique"} => slots'[i].mig \in {"None", "Antique"}
           /\ slots'[i].life \in {"new", "added"} <=> slots'[i].mig = "None"
           /\ slots'[i].life \in {"dead", "gone"} => slots'[i].mig = "Past"
           /\ slots'[i].life = "new" <=> slots[i].life = "new"
<1>1. /\ slots[i].life \in {"new", "added"} <=> slots[i].mig = "None"
      /\ slots[i].life \in {"dead", "gone"} => slots[i].mig = "Past"
      /\ slots[i].life \in Lives
  BY SlotsAre DEF LivesInv, Typed, SlotType
<1>2. CASE slots[i].life # "live"
  <2>1. slots'[i] = slots[i]
    BY <1>2 DEF Migrated
  <2> QED BY <1>1, <1>2, <2>1 DEF Lives
<1>3. CASE slots[i].life = "live"
  <2>1. /\ slots'[i].life \in {"live", "dead"}
        /\ slots'[i].life = "dead" => slots[i].mig = "Past"
        /\ slots'[i].mig = CASE slots[i].mig = "Future" -> "Present"
                             [] slots[i].mig = "Present" -> "Past"
                             [] OTHER -> slots[i].mig
    BY <1>3 DEF Migrated
  <2>2. slots[i].mig # "None"
    BY <1>1, <1>3
  <2>3. CASE slots[i].mig = "Future"
    BY <1>3, <2>1, <2>3
  <2>4. CASE slots[i].mig = "Present"
    BY <1>3, <2>1, <2>4
  <2>5. CASE slots[i].mig \notin {"Future", "Present"}
    <3>1. slots'[i].mig = slots[i].mig
      BY <2>1, <2>5
    <3> QED BY <1>3, <2>1, <2>2, <2>5, <3>1
  <2> QED BY <2>3, <2>4, <2>5
<1> QED BY <1>2, <1>3

LEMMA RoutesFirst ==
    ASSUME Typed, LivesInv, BeforeFirst, pulses.present = Unknown, commit.phase = "route", Routes,
           commit' = Idle, UNCHANGED <<published, unpublishPulse, presentMachine>>
    PROVE  Running'
<1> DEFINE m == presentMachine
           F == pulses.future
<1>0. /\ m # NoSlot /\ commit.range = FirstRange /\ FirstPulse <= LastPulse
      /\ published[FirstPulse] = m
      /\ unpublishPulse \in {LocalRelative, Unknown, F} \ {FirstPulse}
  BY DEF BeforeFirst
<1>1. /\ FirstRange.left = 1 /\ FirstRange.right = FirstPulse
      /\ FirstPulse \in Nat \ {0} /\ LastPulse \in Nat /\ Delta \in Nat \ {0} /\ FirstPulse > 1
  BY ConveyorAssumption DEF FirstRange, NewLeftGapRange, MinTimePulse
<1>2. /\ pulses'.present = FirstPulse /\ pulses'.future = FirstPulse + Delta
      /\ FirstPulse >= F /\ F \in Int /\ F \in Keys /\ F # Unknown
      /\ F = LocalRelative \/ F >= 1
  <2>1. FirstPulse >= F /\ pulses' = [present |-> FirstPulse, future |-> FirstPulse + Delta]
    BY <1>0, <1>1 DEF Routes
  <2>2. F \in Pulses \cup {LocalRelative} /\ LocalRelative \in Keys
    BY DEF Typed, PulsesTyped, NowType, Keys
  <2> QED BY <2>1, <2>2, KeysAre DEF Unknown, LocalRelative
<1>3. /\ commit'.phase = "idle" /\ LastStarted' = FirstPulse
      /\ LastPublished' = FirstPulse + Delta
  BY <1>2 DEF Idle, LastStarted, LastPublished
<1>4. m \in DOMAIN slots /\ DOMAIN slots' = DOMAIN slots
  BY <1>0, SlotsAre DEF Typed, PulsesTyped, NoSlot, Routes
<1>5. /\ slots'[m].st = "Present" /\ slots'[m].range.left = 1 /\ slots'[m].range.right = FirstPulse
      /\ slots'[m].unpub \in {LocalRelative, FirstPulse, F}
      /\ slots'[m].mig \in {"None", "Present"}
  <2>1. FirstPresent(slots[m]) /\ slots[m].mig \in {"None", "Future"} /\ Migrated(m)
    BY <1>4 DEF BeforeFirst, Routes
  <2>2. slots'[m].mig \in {"None", "Present"}
    BY <1>4, <2>1, MigratedFits
  <2> QED BY <1>1, <2>1, <2>2 DEF FirstPresent, Migrated, KeepsRange
<1>6. ASSUME NEW j \in DOMAIN slots, j # m
      PROVE  /\ slots'[j].st = "Future" /\ slots'[j].range.left = F /\ slots'[j].range.right = F
             /\ slots'[j].unpub \in {LocalRelative, F} /\ F >= 1 /\ F < FirstPulse
  <2>1. Early(slots[j]) /\ F # FirstPulse /\ Migrated(j)
    BY <1>0, <1>6 DEF BeforeFirst, Routes
  <2>2. /\ slots'[j].st = "Future" /\ slots'[j].range = OnePulse(F)
        /\ slots'[j].unpub \in {LocalRelative, F} /\ F # LocalRelative
    BY <2>1 DEF Early, Migrated, KeepsRange
  <2>3. OnePulse(F).left = F /\ OnePulse(F).right = F
    BY DEF OnePulse
  <2>4. F >= 1 /\ F < FirstPulse
    BY <1>1, <1>2, <2>1, <2>2
  <2> QED BY <2>2, <2>3, <2>4
<1> HIDE DEF m, F
<1>7. CommitFits' /\ NextFits'
  BY <1>3 DEF CommitFits, NextFits
<1>8. ASSUME NEW j \in DOMAIN slots, j = m PROVE SlotFits(j)'
  <2> DEFINE s == slots'[j]
  <2>0. /\ s.st = "Present" /\ s.range.left = 1 /\ s.range.right = FirstPulse
        /\ s.unpub \in {LocalRelative, FirstPulse, F}
    BY <1>5, <1>8
  <2>1. s.unpub = LocalRelative \/ Covers(s, s.unpub)
    <3> HIDE DEF s
    <3>1. s.unpub = LocalRelative \/ s.unpub \in 1 .. FirstPulse
      BY <1>1, <1>2, <2>0
    <3> QED BY <2>0, <3>1 DEF Covers
  <2>2. /\ s.range.left <= s.range.right /\ s.range.right # Unknown
        /\ s.range.right <= LastStarted' /\ ~(s.range.right > FirstPulse)
    BY <1>1, <1>3, <2>0 DEF Unknown
  <2>3. s.st = "Present" /\ commit'.phase # "publish" /\ j = presentMachine'
    BY <1>3, <1>8, <2>0 DEF m
  <2> HIDE DEF s
  <2> QED BY <2>1, <2>2, <2>3 DEF SlotFits, s, Covers
<1>9. ASSUME NEW j \in DOMAIN slots, j # m PROVE SlotFits(j)'
  <2> DEFINE s == slots'[j]
  <2>0. /\ s.st = "Future" /\ s.range.left = F /\ s.range.right = F
        /\ s.unpub \in {LocalRelative, F} /\ F >= 1 /\ F < FirstPulse
    BY <1>6, <1>9
  <2> HIDE DEF s
  <2>1. s.unpub = LocalRelative \/ Covers(s, s.unpub)
    BY <1>2, <2>0 DEF Covers
  <2>2. /\ s.range.left <= s.range.right /\ s.range.right # Unknown
        /\ s.range.right <= LastStarted' /\ ~(s.range.right > FirstPulse)
        /\ ~(s.range.right \in FirstPulse .. LastStarted')
    BY <1>1, <1>2, <1>3, <2>0
  <2>3. j # presentMachine'
    BY <1>9 DEF m
  <2> QED BY <2>0, <2>1, <2>2, <2>3 DEF SlotFits, s, Covers
<1>10. \A j \in DOMAIN slots' : SlotFits(j)'
  BY <1>4, <1>8, <1>9
<1>11. OneSlotPerPulse'
  <2>1. ASSUME NEW j \in DOMAIN slots, NEW k \in Keys, k >= FirstPulse, Covers(slots'[j], k)
        PROVE  j = m
    <3>1. SUFFICES ASSUME j # m PROVE FALSE
      OBVIOUS
    <3>2. slots'[j].range.left = F /\ slots'[j].range.right = F /\ F < FirstPulse
      BY <1>6, <3>1
    <3> QED BY <1>1, <1>2, <2>1, <3>2, KeysAre DEF Covers
  <2> QED BY <1>4, <2>1 DEF OneSlotPerPulse, Covers
<1>12. RegistryFits'
  <2>1. SUFFICES ASSUME NEW k \in Keys, published[k] # NoSlot
                 PROVE  /\ k >= FirstPulse => Covers(slots'[published[k]], k)
                        /\ k = Unknown => slots'[published[k]].st = "Antique"
                        /\ k <= FirstPulse + Delta
    BY <1>3 DEF RegistryFits, Covers
  <2>2. k = F \/ k = LocalRelative \/ k = FirstPulse
    BY <2>1 DEF BeforeFirst, F
  <2>3. k \in Int /\ k <= FirstPulse /\ k # Unknown
    BY <1>1, <1>2, <2>2, KeysAre DEF LocalRelative, Unknown
  <2>4. k >= FirstPulse => k = FirstPulse
    BY <1>1, <2>3
  <2>5. Covers(slots'[m], FirstPulse)
    BY <1>1, <1>5 DEF Covers
  <2>6. published[FirstPulse] = m
    BY <1>0
  <2> QED BY <1>1, <2>3, <2>4, <2>5, <2>6
<1>13. PresentFits'
  <2>1. published'[pulses'.present] = m /\ m = presentMachine'
    BY <1>0, <1>2 DEF m
  <2> QED BY <1>0, <1>2, <1>3, <1>5, <2>1 DEF PresentFits
<1>14. unpublishPulse' < LastStarted'
  BY <1>0, <1>1, <1>2, <1>3 DEF LocalRelative, Unknown
<1>15. pulses'.present \in FirstPulse .. LastPulse /\ pulses'.future = pulses'.present + Delta
       /\ presentMachine' # NoSlot
  BY <1>0, <1>1, <1>2 DEF m
<1> QED BY <1>7, <1>10, <1>11, <1>12, <1>13, <1>14, <1>15 DEF Running

LEMMA RoutesRunning ==
    ASSUME Typed, LivesInv, Running, commit.phase = "route", Routes, commit' = Idle,
           UNCHANGED <<published, unpublishPulse, presentMachine>>
    PROVE  Running'
<1> DEFINE m == presentMachine
           R == commit.range.right
<1>0. /\ FirstPulse \in Nat \ {0} /\ Delta \in Nat \ {0} /\ R \in Int /\ FirstPulse <= R
      /\ R \in Keys /\ LastStarted = R /\ R <= LastPulse /\ LastPulse \in Nat
  <2>1. LastStarted = R
    BY DEF LastStarted
  <2>2. R <= LastPulse
    BY DEF Running, CommitFits
  <2>3. LastStarted \in Int /\ LastStarted >= FirstPulse /\ FirstPulse \in Nat \ {0}
        /\ Delta \in Nat \ {0} /\ LastPulse \in Nat /\ LastPublished \in Keys
    BY RunningNumbers
  <2> QED BY <2>1, <2>2, <2>3 DEF LastPublished
<1>1. /\ pulses'.present = R /\ pulses'.future = R + Delta /\ commit'.phase = "idle"
      /\ LastStarted' = R /\ LastPublished' = R + Delta /\ LastPublished = R
  BY DEF Routes, Idle, LastStarted, LastPublished
<1>2. /\ DOMAIN slots' = DOMAIN slots
      /\ \A j \in DOMAIN slots : slots'[j].st = slots[j].st /\ slots'[j].range = slots[j].range
                                 /\ slots'[j].unpub = slots[j].unpub /\ Migrated(j)
  BY DEF Routes, Migrated, KeepsRange
<1>3. /\ m # NoSlot /\ m \in DOMAIN slots /\ published[R] = m
      /\ slots[m].range = commit.range /\ slots[m].mig \in {"None", "Future"}
  BY SlotsAre DEF Running, NextFits, Typed, PulsesTyped, NoSlot
<1> HIDE DEF m, R
<1>4. CommitFits' /\ NextFits'
  BY <1>1 DEF CommitFits, NextFits
<1>5. ASSUME NEW j \in DOMAIN slots PROVE SlotFits(j)'
  <2> DEFINE s == slots'[j]
             t == slots[j]
  <2>1. /\ t.range.left <= t.range.right
        /\ t.unpub = LocalRelative \/ Covers(t, t.unpub)
        /\ t.st = "Antique" => t.range.right = Unknown /\ t.mig \in {"None", "Antique"}
        /\ t.range.right = Unknown => t.st = "Antique"
        /\ t.range.right <= R
        /\ t.range.right \in FirstPulse .. R => t.st \in {"Present", "Past"}
        /\ t.range.right > FirstPulse => KnowsBounds(t.range)
        /\ t.st = "Present" <=> j = presentMachine
    <3>1. SlotFits(j)
      BY DEF Running
    <3> QED BY <1>0, <3>1 DEF SlotFits
  <2>2. s.st = t.st /\ s.range = t.range /\ s.unpub = t.unpub
    BY <1>2
  <2>3. t.mig \in {"None", "Antique"} => s.mig \in {"None", "Antique"}
    BY <1>2, MigratedFits
  <2> HIDE DEF s, t
  <2>4. /\ s.range.left <= s.range.right
        /\ s.unpub = LocalRelative \/ Covers(s, s.unpub)
        /\ s.st = "Antique" => s.range.right = Unknown /\ s.mig \in {"None", "Antique"}
        /\ s.range.right = Unknown => s.st = "Antique"
        /\ s.range.right <= LastStarted'
        /\ s.range.right \in FirstPulse .. LastStarted' => s.st \in {"Present", "Past"}
        /\ s.range.right > FirstPulse => KnowsBounds(s.range)
        /\ s.st = "Present" <=> commit'.phase # "publish" /\ j = presentMachine'
    BY <1>1, <2>1, <2>2, <2>3 DEF Covers
  <2> QED BY <2>4 DEF SlotFits, s, Covers, KnowsBounds
<1>6. OneSlotPerPulse'
  BY <1>2 DEF Running, OneSlotPerPulse, Covers
<1>7. RegistryFits'
  <2>1. SUFFICES ASSUME NEW k \in Keys, published[k] # NoSlot
                 PROVE  /\ k >= FirstPulse => Covers(slots'[published[k]], k)
                        /\ k = Unknown => slots'[published[k]].st = "Antique"
                        /\ k <= R + Delta
    BY <1>1 DEF RegistryFits, Covers
  <2>2. published[k] \in DOMAIN slots
    BY <2>1, SlotsAre DEF Typed
  <2>3. /\ k >= FirstPulse => Covers(slots[published[k]], k)
        /\ k = Unknown => slots[published[k]].st = "Antique"
        /\ k <= R
    BY <1>1, <2>1 DEF Running, RegistryFits
  <2>4. k <= R + Delta
    BY <1>0, <2>3, KeysAre
  <2> QED BY <1>2, <2>2, <2>3, <2>4 DEF Covers
<1>8. PresentFits'
  <2>1. slots[m].st = "Present"
    BY <1>3 DEF Running, SlotFits, m
  <2>2. slots'[m].st = "Present" /\ slots'[m].range.right = R
    BY <1>2, <1>3, <2>1 DEF R
  <2>3. slots'[m].mig \in {"None", "Present"}
    BY <1>2, <1>3, MigratedFits
  <2>4. published'[pulses'.present] = m /\ m = presentMachine'
    BY <1>1, <1>3 DEF m
  <2> QED BY <1>1, <1>3, <2>2, <2>3, <2>4 DEF PresentFits
<1>9. unpublishPulse' < LastStarted'
  BY <1>0, <1>1 DEF Running
<1>10. pulses'.present \in FirstPulse .. LastPulse /\ pulses'.future = pulses'.present + Delta
       /\ presentMachine' # NoSlot
  BY <1>0, <1>1, <1>3 DEF m
<1> QED BY <1>2, <1>4, <1>5, <1>6, <1>7, <1>8, <1>9, <1>10 DEF Running

(* A call under way is late from now on: the slot it takes for the present *)
(* one is still published, and the one for the pulse it expects is present. *)
LEMMA RoutesLate ==
    ASSUME Typed, Orderly, commit.phase = "route", Routes, commit' = Idle,
           UNCHANGED <<published, unpublishPulse, presentMachine>>,
           NEW e \in Events, InCall(e)
    PROVE  CallFits(e)'
<1> DEFINE R == commit.range.right
<1>0. CallFits(e) /\ ~ev[e].late /\ ev[e].now = pulses
  BY DEF Orderly, CallsInv, CallFits, LateFits
<1>1. ev'[e].now = pulses /\ ev'[e].late /\ pulses.future # LocalRelative
  BY <1>0 DEF Routes, Woken, CallFits
<1>2. pulses'.present = R /\ commit'.phase = "idle" /\ R >= pulses.future
  BY DEF Routes, Idle
<1>3. R # Unknown
  <2>1. R >= FirstPulse /\ R \in Pulses
    BY CommitRight DEF Typed
  <2> QED BY <2>1, KeysAre DEF Unknown
<1>4. CASE pulses.present = Unknown
  <2>1. R = FirstPulse
    BY <1>4 DEF Orderly, BeforeFirst, FirstRange, NewLeftGapRange
  <2>2. pulses.future <= FirstPulse
    <3>1. pulses.future \in Int /\ FirstPulse \in Int
      BY KeysAre, ConveyorAssumption DEF Typed, PulsesTyped, NowType, LocalRelative
    <3> QED BY <1>2, <2>1, <3>1
  <2>3. LateFits(e)'
    BY <1>1, <1>2, <1>3, <1>4, <2>1, <2>2 DEF LateFits
  <2> QED BY <1>1, <2>3 DEF CallFits
<1>5. CASE pulses.present # Unknown
  <2>1. Running
    BY <1>5 DEF Orderly
  <2> DEFINE p == published[pulses.present]
  <2>2. /\ p # NoSlot /\ slots[p].range.right = pulses.present
        /\ slots[p].mig \in {"None", "Present"} /\ slots[p].st = "Past"
    BY <2>1 DEF Running, PresentFits
  <2>3. p \in DOMAIN slots
    BY <2>1, <2>2, SlotsAre, RunningNumbers DEF Typed
  <2>4. published'[pulses.present] = p
    OBVIOUS
  <2> HIDE DEF p
  <2>5. Migrated(p)
    BY <2>3 DEF Routes
  <2>6. slots'[p].st = "Past" /\ slots'[p].range.right = pulses.present
    BY <2>2, <2>5 DEF Migrated, KeepsRange
  <2>7. slots'[p].mig \in {"None", "Past"} /\ slots'[p].life \in {"new", "added", "live"}
    BY <2>2, <2>3, <2>5, MigratedFits DEF Orderly
  <2>8. published[pulses.future] = presentMachine
    BY <2>1 DEF Running, NextFits, CommitFits
  <2>9. /\ pulses.present >= FirstPulse /\ pulses.future > FirstPulse /\ pulses.present < R
    <3>1. /\ pulses.present \in Int /\ pulses.future \in Int /\ FirstPulse \in Int
          /\ pulses.present >= FirstPulse /\ Delta \in Nat \ {0}
          /\ pulses.future = pulses.present + Delta
      BY <2>1, RunningNumbers
    <3>2. R \in Int
      BY DEF Typed, PulsesTyped, CommitType, RangeType
    <3> QED BY <1>2, <3>1, <3>2
  <2> HIDE DEF R
  <2>10. published'[pulses.future] = presentMachine'
    BY <2>8
  <2>11. pulses'.present # Unknown /\ pulses.present < pulses'.present
    BY <1>2, <1>3, <2>9
  <2>12. LateFits(e)'
    BY <1>1, <1>2, <1>5, <2>2, <2>4, <2>6, <2>7, <2>9, <2>10, <2>11 DEF LateFits, IsActive
  <2> QED BY <1>1, <2>12 DEF CallFits
<1> QED BY <1>4, <1>5

LEMMA RoutesStart ==
    ASSUME Typed, Orderly, commit.phase = "route", Routes,
           NEW e \in Events, ev[e].pc = "activate"
    PROVE  StartFits(e)'
<1> DEFINE i == ev[e].slot
<1>0. /\ StartFits(e) /\ CallFits(e) /\ ~ev[e].late /\ ev[e].now = pulses /\ i \in DOMAIN slots
      /\ pulses.future # LocalRelative
  BY DEF Orderly, CallsInv, InCall, CallFits, LateFits, Typed, EventsTyped, HasSlot
<1>1. /\ ev'[e].now = pulses /\ ev'[e].as = ev[e].as /\ ev'[e].slot = i
  BY <1>0 DEF Routes, Woken
<1>2. slots'[i].st = slots[i].st /\ slots'[i].range = slots[i].range
  BY <1>0 DEF Routes, Migrated, KeepsRange
<1>3. ev[e].as = "Future" => Covers(slots[i], pulses.future)
  <2>1. CASE pulses.present # Unknown
    BY <1>0, <2>1 DEF StartFits
  <2>2. CASE pulses.present = Unknown
    <3>1. BeforeFirst /\ commit.range = FirstRange
      BY <2>2 DEF Orderly, BeforeFirst
    <3>2. FirstRange.left = 1 /\ FirstRange.right = FirstPulse /\ FirstPulse \in Nat
      BY ConveyorAssumption DEF FirstRange, NewLeftGapRange, MinTimePulse
    <3>3. pulses.future \in 1 .. FirstPulse /\ pulses.future \in pulses.future .. pulses.future
      <4>1. pulses.future \in Pulses
        BY <1>0 DEF Typed, PulsesTyped, NowType
      <4>2. FirstPulse >= pulses.future
        BY <3>1, <3>2 DEF Routes
      <4> QED BY <3>2, <4>1, <4>2, KeysAre
    <3>4. CASE i = presentMachine
      <4>1. slots[i].range = FirstRange
        BY <1>0, <3>1, <3>4 DEF BeforeFirst, FirstPresent
      <4> QED BY <3>2, <3>3, <4>1 DEF Covers
    <3>5. CASE i # presentMachine
      <4>1. slots[i].range = OnePulse(pulses.future)
        BY <1>0, <3>1, <3>5 DEF BeforeFirst, Early
      <4>2. OnePulse(pulses.future).left = pulses.future
            /\ OnePulse(pulses.future).right = pulses.future
        BY DEF OnePulse
      <4> QED BY <3>3, <4>1, <4>2 DEF Covers
    <3> QED BY <3>4, <3>5
  <2> QED BY <2>1, <2>2
<1> HIDE DEF i
<1>4. ev[e].as \in {"Future", "Antique"} /\ (ev[e].as = "Antique" => slots[i].st = "Antique")
  BY <1>0 DEF StartFits, i
<1> QED BY <1>1, <1>2, <1>3, <1>4 DEF StartFits, Covers

LEMMA RouteAndMigrateInv ==
    ASSUME ConveyorInv, RouteAndMigrate
    PROVE  ConveyorInv'
<1>0. Typed /\ PulsesTyped /\ SlotsTyped /\ EventsTyped /\ Orderly
  BY DEF ConveyorInv, Typed, RouteAndMigrate
<1>1. /\ \/ Routes
         \/ /\ commit.range.right < pulses.future /\ broken'
            /\ UNCHANGED <<pulses, cache, earliestBound, ev, slots>>
      /\ commit.phase = "route" /\ ~broken /\ commit' = Idle
      /\ UNCHANGED <<published, unpublishPulse, presentMachine>>
  BY <1>0, RouteAndMigrateEffect
<1>2. Typed'
  BY <1>0, RouteAndMigrateTyped
<1>3. CASE commit.range.right < pulses.future /\ broken' /\ UNCHANGED <<pulses, ev, slots>>
  <2>1. commit.range.right \in Int /\ pulses.future \in Int
    BY <1>0, KeysAre DEF PulsesTyped, CommitType, RangeType, NowType, LocalRelative
  <2>2. pulses.present = Unknown
    <3>1. SUFFICES ASSUME pulses.present # Unknown PROVE FALSE
      OBVIOUS
    <3>2. Running
      BY <1>0, <3>1 DEF Orderly
    <3>3. commit.range.right \in {pulses.future, pulses.future + Delta} /\ Delta \in Nat \ {0}
      BY <1>1, <3>2, ConveyorAssumption DEF Running, CommitFits
    <3> QED BY <1>3, <2>1, <3>3
  <2>3. pulses.future # LocalRelative
    <3>1. commit.range.right >= FirstPulse
      BY <1>0, <1>1, CommitRight
    <3> QED BY <1>3, <2>1, <3>1, ConveyorAssumption DEF LocalRelative
  <2>4. \E e \in Events : ev[e].early
    BY <1>0, <2>2, <2>3 DEF Orderly, BeforeFirst
  <2>5. NoPanic'
    BY <1>3, <2>4 DEF NoPanic
  <2> QED BY <1>2, <1>3, <2>5, BrokenInv
<1>4. CASE Routes
  <2>0. /\ DOMAIN slots' = DOMAIN slots /\ \A i \in DOMAIN slots : Migrated(i)
        /\ \A e \in Events : Woken(e)
        /\ UNCHANGED broken /\ cache' = EvictAndRotate(cache, commit.range.right)
        /\ pulses'.present = commit.range.right
    BY <1>4 DEF Routes
  <2>1. commit.range.right \in Pulses
    BY <1>0, <1>1, CommitRight
  <2>2. \A e \in Events : /\ HasSlot(e)' => HasSlot(e)
                          /\ InCall(e)' <=> InCall(e)
                          /\ ev'[e].pc = "activate" <=> ev[e].pc = "activate"
                          /\ ev'[e].slot = ev[e].slot
                          /\ ev'[e].pc = "none" => ~InCall(e)
    BY <2>0 DEF Woken, HasSlot, InCall, Inside
  <2>3. KeepsSlots
    BY <2>0 DEF KeepsSlots, Migrated
  <2>4. AcceptedNotLost'
    <3>1. SUFFICES ASSUME NEW e \in Events, ev'[e].pc \in Inside
                   PROVE  IsActive(slots'[ev'[e].slot])
      BY DEF AcceptedNotLost, IsActive
    <3> DEFINE i == ev[e].slot
    <3>2. ev[e].pc \in Inside
      BY <2>0, <3>1 DEF Woken, Inside
    <3>3. i \in DOMAIN slots /\ IsActive(slots[i]) /\ e \in Content(i)
      BY <1>0, <3>2 DEF EventsTyped, HasSlot, ConveyorInv, AcceptedNotLost, Content
    <3> HIDE DEF i
    <3>4. Migrated(i)
      BY <2>0, <3>3
    <3>5. IsActive(slots'[i])
      BY <3>3, <3>4 DEF Migrated, IsActive
    <3> QED BY <2>2, <3>5 DEF i
  <2>5. LivesInv'
    <3>1. ASSUME NEW j \in DOMAIN slots'
          PROVE  /\ slots'[j].life \in {"new", "added"} <=> slots'[j].mig = "None"
                 /\ slots'[j].life \in {"dead", "gone"} => slots'[j].mig = "Past"
                 /\ slots'[j].life = "new" =>
                       \E d \in Events : ev'[d].pc = "activate" /\ ev'[d].slot = j
      <4>1. j \in DOMAIN slots /\ Migrated(j)
        BY <2>0, <3>1
      <4>2. /\ slots'[j].life \in {"new", "added"} <=> slots'[j].mig = "None"
            /\ slots'[j].life \in {"dead", "gone"} => slots'[j].mig = "Past"
            /\ slots'[j].life = "new" <=> slots[j].life = "new"
        BY <1>0, <4>1, MigratedFits DEF Orderly
      <4>3. slots[j].life = "new" => \E d \in Events : ev[d].pc = "activate" /\ ev[d].slot = j
        BY <1>0, <4>1 DEF Orderly, LivesInv
      <4> QED BY <2>2, <4>2, <4>3
    <3>2. ASSUME NEW d \in Events, ev'[d].pc = "activate"
          PROVE  /\ slots'[ev'[d].slot].life = "new"
                 /\ \A c \in Events : ev'[c].pc = "activate" /\ ev'[c].slot = ev'[d].slot => c = d
      <4>1. ev[d].pc = "activate" /\ ev[d].slot \in DOMAIN slots
        BY <1>0, <2>2, <3>2 DEF EventsTyped, HasSlot
      <4>2. slots[ev[d].slot].life = "new"
        BY <1>0, <4>1 DEF Orderly, LivesInv
      <4>3. slots'[ev[d].slot].life = "new"
        BY <1>0, <2>0, <4>1, <4>2, MigratedFits DEF Orderly
      <4> QED BY <1>0, <2>2, <3>2, <4>1, <4>3 DEF Orderly, LivesInv
    <3> QED BY <3>1, <3>2 DEF LivesInv
  <2>6. CallsInv'
    <3>1. ASSUME NEW d \in Events
          PROVE  /\ ev'[d].pc = "none" => ~ev'[d].late
                 /\ InCall(d)' => CallFits(d)'
                 /\ InCall(d)' \/ HasSlot(d)' => AsFits(d)'
                 /\ ev'[d].pc = "activate" => StartFits(d)'
      <4>1. ev'[d].pc = "none" => ~ev'[d].late
        BY <2>0, <2>2 DEF Woken
      <4>2. InCall(d)' => CallFits(d)'
        BY <1>0, <1>1, <1>4, <2>2, RoutesLate
      <4>3. InCall(d)' \/ HasSlot(d)' => AsFits(d)'
        <5>1. AsFits(d)' <=> AsFits(d)
          BY <2>0 DEF Woken, AsFits
        <5> QED BY <1>0, <2>2, <5>1 DEF Orderly, CallsInv
      <4>4. ev'[d].pc = "activate" => StartFits(d)'
        BY <1>0, <1>1, <1>4, <2>2, RoutesStart
      <4> QED BY <4>1, <4>2, <4>3, <4>4
    <3> QED BY <3>1 DEF CallsInv
  <2>7. PlacesInv'
    <3>1. ASSUME NEW d \in Events, ~ev'[d].early, HasSlot(d)'
          PROVE  PlaceFits(d)' /\ (ev'[d].pc \in Inside => InsideFits(d)')
      <4>1. /\ ~ev[d].early /\ HasSlot(d) /\ ev'[d].slot = ev[d].slot /\ ev'[d].as = ev[d].as
            /\ ev'[d].pn = ev[d].pn /\ ev'[d].wrap = ev[d].wrap
        BY <2>0, <2>2, <3>1 DEF Woken
      <4>2. PlaceFits(d) /\ (ev[d].pc \in Inside => InsideFits(d))
        BY <1>0, <4>1 DEF Orderly, PlacesInv
      <4>3. /\ PlaceFits(d)' <=> PlaceFits(d)
            /\ ev'[d].pc = ev[d].pc => (InsideFits(d)' <=> InsideFits(d))
        BY <1>0, <2>3, <4>1, KeepsPlaces
      <4>4. CASE ev'[d].pc = ev[d].pc
        BY <4>2, <4>3, <4>4
      <4>5. CASE ev[d].pc \in {"waiting", "woken"} /\ ev'[d].pc \in {"woken", "failed"}
        <5>1. InsideFits(d)
          BY <4>2, <4>5 DEF Inside
        <5>2. ev'[d].pc \in Inside => InsideFits(d)'
          BY <4>1, <4>5, <5>1 DEF InsideFits, Inside
        <5> QED BY <4>2, <4>3, <5>2
      <4> QED BY <2>0, <4>4, <4>5 DEF Woken
    <3>2. \A n \in cache'.data : n >= FirstPulse
      BY <1>0, <2>0, <2>1, EvictAndRotateTyped DEF PulsesTyped, Orderly, PlacesInv
    <3>3. \A d \in Events : ev'[d].pc \in Inside => HasSlot(d)'
      BY DEF HasSlot
    <3> QED BY <3>1, <3>2, <3>3 DEF PlacesInv
  <2>8. pulses'.present # Unknown /\ Running'
    <3>1. pulses'.present # Unknown
      BY <2>0, <2>1, KeysAre DEF Unknown
    <3>2. CASE pulses.present = Unknown
      BY <1>0, <1>1, <1>4, <3>1, <3>2, RoutesFirst DEF Orderly
    <3>3. CASE pulses.present # Unknown
      BY <1>0, <1>1, <1>4, <3>1, <3>3, RoutesRunning DEF Orderly
    <3> QED BY <3>1, <3>2, <3>3
  <2>9. Orderly' /\ ~broken'
    BY <1>1, <2>0, <2>5, <2>6, <2>7, <2>8 DEF Orderly
  <2> QED BY <1>2, <2>4, <2>9, OrderlyInv
<1> QED BY <1>1, <1>3, <1>4

-----------------------------------------------------------------------------
(***************************************************************************)
(* The invariant.                                                          *)
(***************************************************************************)
LEMMA ConveyorInvInit == Init => ConveyorInv
<1>0. SUFFICES ASSUME Init PROVE ConveyorInv
  OBVIOUS
<1>1. Typed
  BY <1>0, InitTyped
<1>2. /\ pulses = [present |-> Unknown, future |-> LocalRelative] /\ DOMAIN slots = {}
      /\ published = [k \in Keys |-> NoSlot] /\ unpublishPulse = Unknown
      /\ presentMachine = NoSlot /\ cache.data = {} /\ commit = Idle
      /\ ev = [e \in Events |-> NoEvent] /\ ~broken
  BY <1>0 DEF Init
<1>3. \A e \in Events : /\ ev[e].pc = "none" /\ ~ev[e].late /\ ~ev[e].early
                        /\ ~InCall(e) /\ ~HasSlot(e) /\ ev[e].pc \notin Inside
  BY <1>2 DEF NoEvent, InCall, HasSlot, Inside
<1>4. AcceptedNotLost /\ HandledInItsPulse /\ NoPanic /\ MigrationSet
  BY <1>2, <1>3 DEF AcceptedNotLost, HandledInItsPulse, NoPanic, MigrationSet
<1>5. LivesInv /\ CallsInv /\ PlacesInv
  BY <1>2, <1>3 DEF LivesInv, CallsInv, PlacesInv
<1>6. BeforeFirst
  <2>1. commit.phase = "idle"
    BY <1>2 DEF Idle
  <2> QED BY <1>2, <1>3, <2>1 DEF BeforeFirst
<1>7. Orderly
  BY <1>2, <1>5, <1>6 DEF Orderly
<1> QED BY <1>1, <1>4, <1>7 DEF ConveyorInv

LEMMA ConveyorInvNext == ConveyorInv /\ [Next]_vars => ConveyorInv'
<1>0. SUFFICES ASSUME ConveyorInv, [Next]_vars PROVE ConveyorInv'
  OBVIOUS
<1>1. CASE UNCHANGED vars
  BY <1>0, <1>1, StutterInv
<1>2. CASE \E in \in Inputs : MapToPulse(in[1], in[2])
  BY <1>0, <1>2, MapToPulseInv
<1>3. CASE \E e \in Events : CallStep(e) \/ FactoryRefuses(e) \/ HandlerEnds(e)
  BY <1>0, <1>3, FindSlotInv, ActivateSlotInv, AddEventInv, FactoryRefusesInv, HandlerEndsInv
     DEF CallStep
<1>4. CASE WorkerStep
  BY <1>0, <1>4, InitSlotInv, OnTerminateInv, ExecuteEventInv, StepGotAnswerInv,
     PublishPresentInv, RouteAndMigrateInv DEF WorkerStep
<1>5. CASE RequestNodeState \/ CancelNodeState
  BY <1>0, <1>5, FlagsInv
<1>6. CASE PulseStep
  BY <1>0, <1>6, CommitInv DEF PulseStep
<1> QED BY <1>0, <1>1, <1>2, <1>3, <1>4, <1>5, <1>6 DEF Next

\* The inductive invariant holds in every reachable state: as long as nothing has
\* panicked, the slots, the registry, the pulses published to AddInput and the calls
\* under way fit together, in a pulse, within a pulse change (CommitPulseChange) and
\* before the first pulse.
THEOREM ConveyorInvariant == Spec => []ConveyorInv
<1> QED BY ConveyorInvInit, ConveyorInvNext, PTL DEF Spec

-----------------------------------------------------------------------------
(***************************************************************************)
(* What the conveyor guarantees.                                           *)
(***************************************************************************)
\* The variables keep their types: the registry and the events name slots that
\* exist, and a slot has a migration handler from its first step on (stepInit).
THEOREM ConveyorTyped == Spec => []TypeOK
<1>1. ConveyorInv => TypeOK
  <2>0. SUFFICES ASSUME ConveyorInv PROVE TypeOK
    OBVIOUS
  <2>1. PulsesTyped /\ SlotsTyped /\ EventsTyped /\ MigrationSet
    BY <2>0 DEF ConveyorInv, Typed
  <2>2. pulses \in [present : Pulses \cup {Unknown}, future : Pulses \cup {LocalRelative}]
    BY <2>1 DEF PulsesTyped, NowType
  <2>3. \A i \in DOMAIN slots :
          /\ slots[i].st \in States /\ slots[i].mig \in States \cup {"None"}
          /\ slots[i].life \in {"new", "added", "live", "dead", "gone"}
          /\ slots[i].unpub \in Keys
          /\ slots[i].life \in {"live", "dead"} => slots[i].mig # "None"
    BY <2>1, SlotsAre DEF SlotType, Lives, MigrationSet
  <2>4. cache.cur \subseteq Pulses /\ cache.old \subseteq Pulses /\ cache.data \subseteq Pulses
    BY <2>1 DEF PulsesTyped, CacheType
  <2>5. commit.phase \in {"idle", "publish", "route"}
    BY <2>1 DEF PulsesTyped, CommitType
  <2>6. \A e \in Events :
          /\ ev[e].pc \in Inside \cup {"none", "mapped", "activate", "add", "done", "failed",
                                       "refused"}
          /\ ev[e].pc \in Inside => ev[e].slot \in DOMAIN slots
    BY <2>1 DEF EventsTyped, EventType, HasSlot
  <2>7. /\ published \in [Keys -> 0 .. Len(slots)]
        /\ unpublishPulse \in Keys /\ presentMachine \in 0 .. Len(slots)
        /\ earliestBound \in Pulses \cup {Unknown}
        /\ preparing \in BOOLEAN /\ acked \in BOOLEAN /\ broken \in BOOLEAN
        /\ rollbacks \in 0 .. MaxRollbacks
    BY <2>1 DEF PulsesTyped, SlotsTyped
  <2> QED BY <2>2, <2>3, <2>4, <2>5, <2>6, <2>7 DEF TypeOK
<1> QED BY <1>1, ConveyorInvariant, PTL

\* No interleaving of calls of AddInput with pulse changes makes the conveyor panic,
\* whatever the events, the pulses they carry and the length of the run - unless an
\* event came before the first pulse, or a beat skips pulses without a range
\* (mapToPulseSlotMachine, CommitPulseChange, _migratePulseSlots, setPresentPulse).
THEOREM ConveyorNoPanic == Spec => []NoPanic
<1>1. ConveyorInv => NoPanic
  BY DEF ConveyorInv
<1> QED BY <1>1, ConveyorInvariant, PTL

\* An event is handled in a slot of its pulse, present or past, or in the slot for
\* antique events, also when its call has overlapped a pulse change
\* (AddInput, stepWaitMigration, InnerMigrate).
THEOREM ConveyorHandlesInPulse == Spec => []HandledInItsPulse
<1>1. ConveyorInv => HandledInItsPulse
  BY DEF ConveyorInv
<1> QED BY <1>1, ConveyorInvariant, PTL

\* An accepted event is never in a slot that has stopped (AddNewByFunc and the
\* migration of past slots).
THEOREM ConveyorLosesNothing == Spec => []AcceptedNotLost
<1>1. ConveyorInv => AcceptedNotLost
  BY DEF ConveyorInv
<1> QED BY <1>1, ConveyorInvariant, PTL

\* Between pulse changes there is one present slot, the one that is published under
\* the present pulse (PulseConveyor.presentMachine).
THEOREM ConveyorOnePresent == Spec => []OnePresent
<1>1. ConveyorInv => OnePresent
  <2>0. SUFFICES ASSUME ConveyorInv, commit.phase = "idle", presentMachine # NoSlot, ~broken
                 PROVE  /\ {i \in DOMAIN slots : slots[i].st = "Present"} = {presentMachine}
                        /\ published[pulses.present] = presentMachine
                        /\ slots[presentMachine].range.right = pulses.present
    BY DEF OnePresent
  <2>1. pulses.present # Unknown /\ Running
    BY <2>0 DEF ConveyorInv, Orderly, BeforeFirst
  <2>2. presentMachine \in DOMAIN slots
    BY <2>0, SlotsAre DEF ConveyorInv, Typed, PulsesTyped, NoSlot
  <2>3. \A i \in DOMAIN slots : slots[i].st = "Present" <=> i = presentMachine
    BY <2>0, <2>1 DEF Running, SlotFits
  <2> QED BY <2>0, <2>1, <2>2, <2>3 DEF Running, PresentFits
<1> QED BY <1>1, ConveyorInvariant, PTL
-----------------------------------------------------------------------------
(***************************************************************************)
(* The cache of pulse data.  The number of a slot that has been present is *)
(* touched when its pulse starts; two rotations later it may be evicted,   *)
(* if it is old by then.  Rotations and slots go together: a slot that has *)
(* no later one was touched since the last rotation, one with a single     *)
(* later slot not before the last but one.                                 *)
(***************************************************************************)
\* The slot has become present; the one that is about to is set apart.
Serves(i) == /\ slots[i].st \in {"Present", "Past"}
             /\ commit.phase = "route" => i # presentMachine
Later(i, j) == Serves(j) /\ slots[j].range.right > slots[i].range.right

Forgotten(i) ==
    /\ slots[i].range.right + MinCachePulseAge < pulses.present
    /\ \E j, k, l \in DOMAIN slots : /\ Later(i, j) /\ Later(i, k) /\ Later(i, l)
                                     /\ j # k /\ k # l /\ j # l

DataFits(i) ==
    LET n == slots[i].range.right IN
    /\ (\A j \in DOMAIN slots : ~Later(i, j)) => n \in cache.cur
    /\ (\A j, k \in DOMAIN slots : Later(i, j) /\ Later(i, k) => j = k)
          => n \in cache.cur \cup cache.old
    /\ n \in cache.data \/ Forgotten(i)

DataInv ==
    ~broken =>
        /\ commit.phase # "idle" => commit.range.right \in cache.data
        /\ \A i \in DOMAIN slots : Serves(i) => DataFits(i)

(* A step in which the same slots serve and nothing leaves the cache. *)
LEMMA DataKeeps ==
    ASSUME DataInv, ~broken, DOMAIN slots \subseteq DOMAIN slots',
           \A i \in DOMAIN slots' : Serves(i)' => i \in DOMAIN slots,
           \A i \in DOMAIN slots : /\ Serves(i)' <=> Serves(i)
                                   /\ Serves(i) => slots'[i].range.right = slots[i].range.right,
           pulses'.present = pulses.present,
           cache.cur \subseteq cache'.cur, cache.old \subseteq cache'.old,
           cache.data \subseteq cache'.data,
           commit'.phase # "idle" => commit'.range.right \in cache'.data
    PROVE  DataInv'
<1>1. ASSUME NEW i \in DOMAIN slots', Serves(i)' PROVE DataFits(i)'
  <2>1. i \in DOMAIN slots /\ Serves(i) /\ slots'[i].range.right = slots[i].range.right
    BY <1>1
  <2>2. DataFits(i)
    BY <2>1 DEF DataInv
  <2>3. \A j \in DOMAIN slots : Later(i, j)' <=> Later(i, j)
    BY <2>1 DEF Later
  <2>4. \A j \in DOMAIN slots' : Later(i, j)' => j \in DOMAIN slots
    BY DEF Later
  <2>5. Forgotten(i) => Forgotten(i)'
    BY <2>1, <2>3 DEF Forgotten
  <2> QED BY <2>1, <2>2, <2>3, <2>5 DEF DataFits
<1> QED BY <1>1 DEF DataInv

(* The cache after a touch, and after the data of a range is put. *)
LEMMA CacheGrows ==
    ASSUME NEW c \in CacheType, NEW S, NEW r
    PROVE  /\ c.cur \subseteq Touch(c, S).cur /\ c.old = Touch(c, S).old /\ c.data = Touch(c, S).data
           /\ c.cur \subseteq Put(c, r).cur /\ c.old = Put(c, r).old
           /\ Put(c, r).data = c.data \cup r.known
BY DEF Touch, Put, CacheType

(* A step that leaves the slots and the pulse change alone. *)
LEMMA DataTouched ==
    ASSUME Typed, DataInv, ~broken, UNCHANGED <<slots, presentMachine, commit, pulses>>,
           \/ cache' = cache
           \/ \E S : cache' = Touch(cache, S)
    PROVE  DataInv'
<1>1. cache \in CacheType
  BY DEF Typed, PulsesTyped
<1>2. cache.cur \subseteq cache'.cur /\ cache.old \subseteq cache'.old /\ cache.data \subseteq cache'.data
  BY <1>1, CacheGrows
<1>3. \A i \in DOMAIN slots : Serves(i)' <=> Serves(i)
  BY DEF Serves
<1>4. commit'.phase # "idle" => commit'.range.right \in cache'.data
  BY <1>2 DEF DataInv
<1> QED BY <1>2, <1>3, <1>4, DataKeeps

(* A step that changes one slot, and neither its state nor its range. *)
LEMMA DataOneSlot ==
    ASSUME Typed, DataInv, ~broken, UNCHANGED <<presentMachine, commit, pulses, cache>>,
           NEW i \in DOMAIN slots, OneSlot(i), KeepsRange(i)
    PROVE  DataInv'
<1>1. \A j \in DOMAIN slots : slots'[j].st = slots[j].st /\ slots'[j].range = slots[j].range
  BY DEF OneSlot, KeepsRange
<1>2. DOMAIN slots' = DOMAIN slots /\ \A j \in DOMAIN slots : Serves(j)' <=> Serves(j)
  BY <1>1 DEF Serves, OneSlot
<1>3. commit'.phase # "idle" => commit'.range.right \in cache'.data
  BY DEF DataInv
<1> QED BY <1>1, <1>2, <1>3, DataKeeps

(* A call that publishes a slot: the slot has never been present. *)
LEMMA DataPublishes ==
    ASSUME Typed, DataInv, ~broken, UNCHANGED <<presentMachine, commit, pulses, cache>>,
           NEW e \in Events, NEW key \in Keys, NEW as \in {"Antique", "Future"},
           PublishNew(e, key, as, SlotFor(key, as))
    PROVE  DataInv'
<1>1. SlotFor(key, as) \in SlotType /\ SlotFor(key, as).st = as
  <2>1. key \in Int /\ as \in States
    BY KeysAre DEF States
  <2> QED BY <2>1, RangesTyped, NewSlotTyped DEF SlotFor, NewSlot
<1>2. slots \in Seq(SlotType) /\ slots' = Append(slots, SlotFor(key, as))
  BY DEF Typed, SlotsTyped, PublishNew
<1>3. /\ DOMAIN slots' = DOMAIN slots \cup {Len(slots) + 1}
      /\ \A j \in DOMAIN slots : slots'[j] = slots[j]
      /\ slots'[Len(slots) + 1].st = as
  <2>1. PICK s \in SlotType : s = SlotFor(key, as) /\ s.st = as
    BY <1>1
  <2>2. slots' = Append(slots, s)
    BY <1>2, <2>1
  <2>3. /\ DOMAIN Append(slots, s) = DOMAIN slots \cup {Len(slots) + 1}
        /\ \A j \in DOMAIN slots : Append(slots, s)[j] = slots[j]
        /\ Append(slots, s)[Len(slots) + 1] = s
    BY <1>2, SlotAppended
  <2> QED BY <2>1, <2>2, <2>3, Zenon
<1>4. \A j \in DOMAIN slots : Serves(j)' <=> Serves(j)
  BY <1>3 DEF Serves
<1>5. \A j \in DOMAIN slots' : Serves(j)' => j \in DOMAIN slots
  BY <1>3 DEF Serves
<1>6. commit'.phase # "idle" => commit'.range.right \in cache'.data
  BY DEF DataInv
<1> QED BY <1>3, <1>4, <1>5, <1>6, DataKeeps

(* The start of a pulse change: the data of the new range is put, and the  *)
(* present slot is past, which serves as well.                             *)
LEMMA DataStarts ==
    ASSUME ConveyorInv, DataInv, ~broken, NEW b \in Beats, b[1] <= LastPulse,
           CommitPulseChange(b[1], b[2])
    PROVE  DataInv'
<1> DEFINE r == CommitBeatRange(b[1], b[2])
<1>0. /\ Typed /\ Orderly /\ PulsesTyped /\ SlotsTyped /\ cache \in CacheType
  BY DEF ConveyorInv, Typed, PulsesTyped
<1>1. /\ Starts(r) \/ broken'
      /\ commit.phase = "idle" /\ UNCHANGED <<pulses, presentMachine>>
  BY CommitEffect DEF Working
<1>2. CASE broken'
  BY <1>2 DEF DataInv
<1>3. CASE Starts(r)
  <2>1. r.right \in r.known
    <3>1. CASE pulses.present = Unknown
      BY <1>0, <3>1, CommitRangeTyped DEF FirstRange, NewLeftGapRange
    <3>2. CASE pulses.present # Unknown
      <4>1. Delta \in Nat \ {0} /\ b[1] \in Int /\ pulses.future \in Int
        BY <1>0, CommitRangeTyped, KeysAre, ConveyorAssumption DEF PulsesTyped, NowType, LocalRelative
      <4>2. pulses.future = pulses.present + Delta
        BY <1>0, <3>2 DEF Orderly, Running
      <4>3. b[1] >= pulses.future
        <5>1. b[1] = pulses.future \/ b[1] = pulses.future + Delta
          BY <3>2, BeatsAre
        <5> QED BY <4>1, <5>1
      <4>4. (b[1] - b[1]) % Delta = 0
        BY <4>1
      <4>5. b[1] \in NewSequenceRange(pulses.future, b[1]).known
        BY <4>1, <4>3, <4>4 DEF NewSequenceRange
      <4> QED BY <4>5 DEF CommitBeatRange, NewSequenceRange, OnePulse, NewLeftGapRange
    <3> QED BY <3>1, <3>2
  <2>2. /\ cache' = Put(cache, r) /\ slots' = SetPast(presentMachine)
        /\ commit'.phase = "publish" /\ commit'.range = r
    BY <1>3 DEF Starts
  <2> HIDE DEF r
  <2>3. /\ cache.cur \subseteq cache'.cur /\ cache.old \subseteq cache'.old
        /\ cache.data \subseteq cache'.data /\ r.right \in cache'.data
    BY <1>0, <2>1, <2>2, CacheGrows
  <2>4. /\ DOMAIN slots' = DOMAIN slots
        /\ \A j \in DOMAIN slots : slots'[j].range = slots[j].range
        /\ \A j \in DOMAIN slots :
              slots'[j].st \in {"Present", "Past"} <=> slots[j].st \in {"Present", "Past"}
    <3>1. CASE presentMachine = NoSlot
      BY <2>2, <3>1 DEF SetPast
    <3>2. CASE presentMachine # NoSlot
      <4>1. presentMachine \in DOMAIN slots
        BY <1>0, <3>2, SlotsAre DEF PulsesTyped, NoSlot
      <4>2. slots[presentMachine].st = "Present"
        BY <1>3, <3>2 DEF Starts, CommitChecks
      <4> QED BY <1>0, <2>2, <4>1, <4>2, SetPastEffect DEF OneSlot
    <3> QED BY <3>1, <3>2
  <2>5. \A j \in DOMAIN slots : Serves(j)' <=> Serves(j)
    BY <1>1, <2>2, <2>4 DEF Serves
  <2> QED BY <1>1, <2>2, <2>3, <2>4, <2>5, DataKeeps
<1> QED BY <1>1, <1>2, <1>3

(* The next present slot has been a future one, or is new.                 *)
LEMMA DataPromotes ==
    ASSUME ConveyorInv, DataInv, PublishPresent
    PROVE  DataInv'
<1>0. Typed /\ PulsesTyped /\ SlotsTyped /\ commit.phase = "publish" /\ ~broken
  BY DEF ConveyorInv, Typed, PublishPresent
<1>1. commit.range.right \in Pulses
  BY <1>0, CommitRight DEF ConveyorInv
<1>2. /\ commit'.phase = "route" /\ commit'.range = commit.range /\ UNCHANGED <<pulses, cache>>
      /\ \/ broken'
         \/ \E i \in Nat \ {NoSlot} : Promotes(i) /\ presentMachine' = i
  BY <1>0, <1>1, PublishPresentEffect DEF PublishPresent, PulsesTyped, CommitType
<1>3. CASE broken'
  BY <1>3 DEF DataInv
<1>4. ASSUME NEW i \in Nat \ {NoSlot}, Promotes(i), presentMachine' = i PROVE DataInv'
  <2>1. /\ DOMAIN slots' = DOMAIN slots \cup {i}
        /\ \A j \in DOMAIN slots : j # i => slots'[j] = slots[j]
        /\ i \in DOMAIN slots => slots[i].st = "Future"
    BY <1>4 DEF Promotes
  <2>2. \A j \in DOMAIN slots' : Serves(j)' => j \in DOMAIN slots
    BY <1>2, <1>4, <2>1 DEF Serves
  <2>3. \A j \in DOMAIN slots : Serves(j)' <=> Serves(j)
    BY <1>0, <1>2, <1>4, <2>1 DEF Serves
  <2>4. \A j \in DOMAIN slots : Serves(j) => slots'[j].range.right = slots[j].range.right
    BY <2>1 DEF Serves
  <2>5. commit'.phase # "idle" => commit'.range.right \in cache'.data
    BY <1>0, <1>2 DEF DataInv
  <2> QED BY <1>0, <1>2, <2>1, <2>2, <2>3, <2>4, <2>5, DataKeeps
<1> QED BY <1>2, <1>3, <1>4

(* What stays in the cache when a pulse starts *)
LEMMA EvictKeeps ==
    ASSUME NEW c \in CacheType, NEW pn \in Pulses
    PROVE  LET d == EvictAndRotate(c, pn) IN
           /\ pn \in d.cur /\ c.cur \subseteq d.old
           /\ \A n \in c.data : \/ n >= pn - MinCachePulseAge
                                \/ n \in c.cur \cup c.old
                  => n \in d.data
BY DEF EvictAndRotate, Evict, Touch, CacheType

(* The pulse that is committed is later than that of any slot that serves. *)
LEMMA CommitsLater ==
    ASSUME Typed, Orderly, commit.phase = "route", NEW i \in DOMAIN slots, Serves(i)
    PROVE  /\ presentMachine \in DOMAIN slots /\ slots[presentMachine].range.right = commit.range.right
           /\ slots[presentMachine].st = "Present"
           /\ slots[i].range.right < commit.range.right
           /\ pulses.present < commit.range.right
<1>0. PulsesTyped /\ SlotsTyped /\ i # presentMachine
  BY DEF Typed, Serves
<1>1. pulses.present # Unknown
  BY <1>0 DEF Orderly, BeforeFirst, Early, Serves
<1>2. Running
  BY <1>1 DEF Orderly
<1>3. presentMachine \in DOMAIN slots
  BY <1>0, <1>2, SlotsAre DEF Running, PulsesTyped, NoSlot
<1>4. slots[presentMachine].range = commit.range /\ slots[presentMachine].st = "Present"
  BY <1>2, <1>3 DEF Running, NextFits, SlotFits
<1>5. commit.range.right \in Pulses /\ commit.range.right >= FirstPulse
  BY <1>0, CommitRight
<1>6. /\ slots[i].range.left \in Int /\ slots[i].range.right \in Int
      /\ commit.range.left \in Int /\ commit.range.right \in Int
  BY <1>0, SlotsAre DEF PulsesTyped, CommitType, SlotType, RangeType
<1>7. /\ slots[i].range.left <= slots[i].range.right /\ slots[i].range.right <= commit.range.right
      /\ commit.range.left <= commit.range.right
  BY <1>2, <1>3, <1>4 DEF Running, SlotFits, LastStarted
<1>8. slots[i].range.right # commit.range.right
  <2>1. SUFFICES ASSUME slots[i].range.right = commit.range.right PROVE FALSE
    OBVIOUS
  <2>2. Covers(slots[i], commit.range.right) /\ Covers(slots[presentMachine], commit.range.right)
    BY <1>4, <1>6, <1>7, <2>1 DEF Covers
  <2> QED BY <1>0, <1>2, <1>3, <1>5, <2>2, KeysAre DEF Running, OneSlotPerPulse
<1>9. pulses.present < commit.range.right
  <2>1. /\ pulses.future = pulses.present + Delta /\ pulses.present \in Int
        /\ Delta \in Nat \ {0} /\ commit.range.left = pulses.future
    BY <1>2, ConveyorAssumption DEF Running, CommitFits
  <2> QED BY <1>6, <1>7, <2>1
<1> QED BY <1>3, <1>4, <1>6, <1>7, <1>8, <1>9

LEMMA DataRoutes ==
    ASSUME ConveyorInv, DataInv, RouteAndMigrate
    PROVE  DataInv'
<1> DEFINE pn == commit.range.right
<1>p. PICK pm : pm = presentMachine
  OBVIOUS
<1>0. /\ Typed /\ Orderly /\ PulsesTyped /\ SlotsTyped /\ EventsTyped /\ cache \in CacheType
      /\ ~broken /\ commit.phase = "route" /\ pn \in Pulses /\ pn \in Int
      /\ commit' = Idle /\ presentMachine' = presentMachine
  <2>1. Typed /\ ~broken /\ commit.phase = "route" /\ Orderly
    BY DEF ConveyorInv, RouteAndMigrate
  <2> QED BY <2>1, CommitRight, KeysAre DEF Typed, PulsesTyped, RouteAndMigrate
<1>1. Routes \/ broken'
  BY <1>0, RouteAndMigrateEffect
<1>2. CASE broken'
  BY <1>2 DEF DataInv
<1>3. CASE Routes
  <2>1. /\ pulses'.present = pn /\ cache' = EvictAndRotate(cache, pn)
        /\ DOMAIN slots' = DOMAIN slots
        /\ \A i \in DOMAIN slots : slots'[i].st = slots[i].st /\ slots'[i].range = slots[i].range
        /\ commit'.phase = "idle"
    BY <1>0, <1>3 DEF Routes, Migrated, KeepsRange, Idle
  <2>2. /\ pn \in cache'.cur /\ cache.cur \subseteq cache'.old
        /\ \A n \in cache.data : n >= pn - MinCachePulseAge \/ n \in cache.cur \cup cache.old
              => n \in cache'.data
    BY <1>0, <2>1, EvictKeeps
  <2>3. MinCachePulseAge \in Nat
    BY ConveyorAssumption
  <2> HIDE DEF pn
  <2>4. \A i \in DOMAIN slots : Serves(i) => Serves(i)'
    BY <2>1 DEF Serves
  <2>5. ASSUME NEW i \in DOMAIN slots, Serves(i)
        PROVE  DataFits(i)'
    <3> DEFINE n == slots[i].range.right
    <3>1. /\ pm \in DOMAIN slots /\ slots[pm].range.right = pn /\ slots[pm].st = "Present"
          /\ n < pn /\ pulses.present < pn
      BY <1>0, <1>p, <2>5, CommitsLater DEF pn
    <3>2. n \in Int /\ slots'[i].range.right = n /\ pulses.present \in Int
      BY SMTT(30), <1>0, <2>1, SlotsAre, KeysAre DEF SlotType, RangeType, PulsesTyped, NowType, Unknown
    <3>3. DataFits(i)
      BY <1>0, <2>5 DEF DataInv
    <3>4. \A j \in DOMAIN slots : Later(i, j) => Later(i, j)' /\ j # pm
      BY <1>0, <1>p, <2>1, <2>4 DEF Later, Serves
    <3>5. Later(i, pm)'
      BY <1>0, <1>p, <2>1, <3>1 DEF Later, Serves
    <3> HIDE DEF n
    <3>6. ~ \A j \in DOMAIN slots' : ~Later(i, j)'
      BY <2>1, <3>1, <3>5
    <3>7. ASSUME \A j, k \in DOMAIN slots' : Later(i, j)' /\ Later(i, k)' => j = k
          PROVE  n \in cache'.old
      <4>1. \A j \in DOMAIN slots : ~Later(i, j)
        BY <2>1, <3>1, <3>4, <3>5, <3>7
      <4>2. n \in cache.cur
        BY <3>3, <4>1 DEF DataFits, n
      <4> QED BY <2>2, <4>2
    <3>8. n \in cache'.data \/ Forgotten(i)'
      <4>1. CASE n \in cache.data /\ n >= pn - MinCachePulseAge
        BY <2>2, <4>1
      <4>2. CASE n \in cache.data /\ n \in cache.cur \cup cache.old
        BY <2>2, <4>2
      <4>3. CASE n < pn - MinCachePulseAge /\ n \notin cache.cur \cup cache.old
        <5>1. PICK j, k \in DOMAIN slots : Later(i, j) /\ Later(i, k) /\ j # k
          BY <3>3, <4>3 DEF DataFits, n
        <5>2. /\ Later(i, j)' /\ Later(i, k)' /\ Later(i, pm)' /\ j # pm /\ k # pm
          BY <3>4, <3>5, <5>1
        <5>3. n + MinCachePulseAge < pn
          BY <1>0, <2>3, <3>2, <4>3 DEF pn
        <5> QED BY <2>1, <3>1, <3>2, <5>1, <5>2, <5>3 DEF Forgotten
      <4>4. CASE Forgotten(i)
        <5>1. PICK j, k, l \in DOMAIN slots : /\ Later(i, j) /\ Later(i, k) /\ Later(i, l)
                                              /\ j # k /\ k # l /\ j # l
          BY <4>4 DEF Forgotten
        <5>2. Later(i, j)' /\ Later(i, k)' /\ Later(i, l)'
          BY <3>4, <5>1
        <5>3. n + MinCachePulseAge < pn
          <6>1. n + MinCachePulseAge < pulses.present
            BY <4>4 DEF Forgotten, n
          <6>2. pn \in Int
            BY <1>0 DEF pn
          <6> QED BY <2>3, <3>1, <3>2, <6>1, <6>2
        <5> QED BY <2>1, <3>2, <5>1, <5>2, <5>3 DEF Forgotten
      <4>5. n \in Int /\ pn \in Int
        BY <1>0, <3>2 DEF pn
      <4> QED BY <2>3, <3>3, <4>1, <4>2, <4>3, <4>4, <4>5 DEF DataFits, n
    <3> QED BY <3>2, <3>6, <3>7, <3>8 DEF DataFits
  <2>6. ASSUME NEW i \in DOMAIN slots, Serves(i)', ~Serves(i)
        PROVE  DataFits(i)'
    <3>1. i = pm /\ pm # NoSlot
      BY <1>0, <1>p, <2>1, <2>6, SlotsAre DEF Serves, NoSlot
    <3>2. slots[pm].range.right = pn
      <4>1. CASE pulses.present = Unknown
        BY <1>0, <1>p, <2>6, <3>1, <4>1, SlotsAre DEF Orderly, BeforeFirst, FirstPresent, pn
      <4>2. CASE pulses.present # Unknown
        BY <1>0, <1>p, <4>2 DEF Orderly, Running, NextFits, pn
      <4> QED BY <4>1, <4>2
    <3>3. pn \in cache'.data
      <4>1. pn \in cache.data
        BY <1>0 DEF DataInv, pn
      <4>2. pn >= pn - MinCachePulseAge
        BY <1>0, <2>3 DEF pn
      <4> QED BY <2>2, <4>1, <4>2
    <3> QED BY <2>1, <2>2, <3>1, <3>2, <3>3 DEF DataFits
  <2> QED BY <2>1, <2>5, <2>6 DEF DataInv
<1> QED BY <1>1, <1>2, <1>3

LEMMA DataInvNext == ConveyorInv /\ DataInv /\ [Next]_vars => DataInv'
<1>0. SUFFICES ASSUME ConveyorInv, DataInv, [Next]_vars PROVE DataInv'
  OBVIOUS
<1> Typed
  BY <1>0 DEF ConveyorInv
<1>b. CASE broken'
  BY <1>b DEF DataInv
<1>n. CASE ~broken'
  <2>0. Typed /\ PulsesTyped /\ SlotsTyped /\ EventsTyped
    BY DEF Typed
  <2>1. CASE UNCHANGED vars
    BY <1>0, <1>n, <2>1, DataTouched DEF vars
  <2>2. ASSUME NEW in \in Inputs, MapToPulse(in[1], in[2]) PROVE DataInv'
    <3>1. ~broken /\ UNCHANGED <<slots, presentMachine, commit, cache>>
      BY <2>2 DEF MapToPulse, WorkerState
    <3>2. pulses'.present = pulses.present
      BY <2>0, <2>2 DEF MapToPulse, PulsesTyped, NowType
    <3>3. \A i \in DOMAIN slots : Serves(i)' <=> Serves(i)
      BY <3>1 DEF Serves
    <3> QED BY <1>0, <3>1, <3>2, <3>3, DataKeeps DEF DataInv
  <2>3. ASSUME NEW e \in Events, FindSlot(e) PROVE DataInv'
    <3>1. ~broken /\ UNCHANGED <<presentMachine, commit, pulses, cache>> /\ ev[e].as # "None"
      BY <1>0, <2>3 DEF FindSlot, WorkerState, ConveyorInv, Orderly, CallsInv, InCall, AsFits
    <3>2. CASE UNCHANGED slots
      BY <1>0, <3>1, <3>2, DataTouched
    <3>3. ASSUME NEW key \in Keys, NEW as \in States, Publishes(e, key, as)
          PROVE  DataInv'
      BY <1>0, <3>1, <3>3, DataPublishes DEF Publishes
    <3> QED BY <1>n, <2>0, <2>3, <3>1, <3>2, <3>3, FindSlotEffect DEF Finds, UsePublished
  <2>4. ASSUME NEW e \in Events, ActivateSlot(e) PROVE DataInv'
    BY <1>0, <2>0, <2>4, ActivateSlotSlots, DataOneSlot DEF ActivateSlot, WorkerState
  <2>5. ASSUME NEW e \in Events, AddEvent(e) PROVE DataInv'
    <3>1. ~broken /\ UNCHANGED <<slots, presentMachine, commit, pulses>>
      BY <2>5 DEF AddEvent, WorkerState
    <3>2. cache' = cache \/ cache' = Touch(cache, {ev[e].pn})
      BY <2>5 DEF AddEvent
    <3> QED BY <1>0, <3>1, <3>2, DataTouched
  <2>6. ASSUME NEW e \in Events, FactoryRefuses(e) PROVE DataInv'
    <3>1. ~broken /\ UNCHANGED <<slots, presentMachine, commit, pulses>>
      BY <2>6 DEF FactoryRefuses, WorkerState
    <3>2. cache' = cache \/ cache' = Touch(cache, cache.data \cap {ev[e].pn})
      BY <2>6 DEF FactoryRefuses
    <3> QED BY <1>0, <3>1, <3>2, DataTouched
  <2>7. ASSUME NEW e \in Events, HandlerEnds(e) \/ ExecuteEvent(e) PROVE DataInv'
    BY <1>0, <2>7, DataTouched DEF HandlerEnds, ExecuteEvent, PulseState, Working
  <2>8. ASSUME NEW e \in Events, StepGotAnswer(e) PROVE DataInv'
    <3>1. ~broken /\ UNCHANGED <<slots, presentMachine, commit, pulses>>
      BY <2>8 DEF StepGotAnswer, PulseState, Working
    <3>2. cache' = cache \/ cache' = Touch(cache, {ev[e].pn})
      BY <2>8 DEF StepGotAnswer
    <3> QED BY <1>0, <3>1, <3>2, DataTouched
  <2>9. ASSUME NEW i \in DOMAIN slots, InitSlot(i) \/ OnTerminate(i) PROVE DataInv'
    <3>1. ~broken /\ UNCHANGED <<presentMachine, commit, pulses, cache>>
      BY <2>9 DEF InitSlot, OnTerminate, PulseState, Working
    <3> QED BY <1>0, <2>0, <2>9, <3>1, InitSlotEffect, OnTerminateEffect, DataOneSlot
  <2>10. CASE RequestNodeState \/ CancelNodeState
    BY <1>0, <2>10, DataTouched DEF RequestNodeState, CancelNodeState, Working
  <2>11. ASSUME NEW b \in Beats, b[1] <= LastPulse, CommitPulseChange(b[1], b[2]) PROVE DataInv'
    BY <1>0, <2>11, DataStarts DEF CommitPulseChange, Working
  <2> QED
    BY <1>0, <2>1, <2>2, <2>3, <2>4, <2>5, <2>6, <2>7, <2>8, <2>9, <2>10, <2>11,
       DataPromotes, DataRoutes DEF Next, CallStep, WorkerStep, PulseStep
<1> QED BY <1>b, <1>n

(* Three slots are more than two. *)
LEMMA ThreeLater ==
    ASSUME NEW S, IsFiniteSet(S), NEW j \in S, NEW k \in S, NEW l \in S, j # k, k # l, j # l
    PROVE  Cardinality(S) > 2
<1>1. IsFiniteSet({j}) /\ Cardinality({j}) = 1
  BY FS_Singleton
<1>2. IsFiniteSet({j} \cup {k}) /\ Cardinality({j} \cup {k}) = 2
  <2>1. IsFiniteSet({j} \cup {k}) /\ Cardinality({j} \cup {k}) = Cardinality({j}) + 1
    BY <1>1, FS_AddElement, k \notin {j}, Zenon
  <2> QED BY <1>1, <2>1
<1>3. IsFiniteSet({j} \cup {k} \cup {l}) /\ Cardinality({j} \cup {k} \cup {l}) = 3
  <2>1. /\ IsFiniteSet({j} \cup {k} \cup {l})
        /\ Cardinality({j} \cup {k} \cup {l}) = Cardinality({j} \cup {k}) + 1
    BY <1>2, FS_AddElement, l \notin {j} \cup {k}, Zenon
  <2> QED BY <1>2, <2>1
<1>4. Cardinality({j} \cup {k} \cup {l}) <= Cardinality(S)
  BY FS_Subset
<1>5. Cardinality(S) \in Nat
  BY FS_CardinalityType
<1> QED BY <1>3, <1>4, <1>5

\* The data of a pulse that has been present is in the cache while the pulse is young
\* and for two pulse changes after its own, whatever is touched in between
\* (PulseDataCache.EvictAndRotate), for any ages and any number of pulses.
THEOREM ConveyorKeepsData == Spec => []PulseDataKept
<1>1. Init => DataInv
  <2>1. Init => DOMAIN slots = {} /\ commit.phase = "idle"
    BY DEF Init, Idle
  <2> QED BY <2>1 DEF DataInv
<1>2. ConveyorInv /\ DataInv => PulseDataKept
  <2> SUFFICES ASSUME ConveyorInv, DataInv, NEW i \in DOMAIN slots,
                      slots[i].st \in {"Present", "Past"}, commit.phase = "idle", ~broken
               PROVE  \/ slots[i].range.right \in cache.data
                      \/ /\ Cardinality({j \in DOMAIN slots :
                                /\ slots[j].st \in {"Present", "Past"}
                                /\ slots[j].range.right > slots[i].range.right}) > 2
                         /\ slots[i].range.right + MinCachePulseAge < pulses.present
    BY DEF PulseDataKept
  <2> DEFINE later == {j \in DOMAIN slots : /\ slots[j].st \in {"Present", "Past"}
                                            /\ slots[j].range.right > slots[i].range.right}
  <2>1. Serves(i) /\ DataFits(i)
    BY DEF Serves, DataInv
  <2>2. ASSUME Forgotten(i) PROVE Cardinality(later) > 2
    <3>1. PICK j, k, l \in DOMAIN slots : /\ Later(i, j) /\ Later(i, k) /\ Later(i, l)
                                          /\ j # k /\ k # l /\ j # l
      BY <2>2 DEF Forgotten
    <3>2. j \in later /\ k \in later /\ l \in later
      BY <3>1 DEF Later, Serves
    <3>3. IsFiniteSet(later)
      <4>1. DOMAIN slots = 1 .. Len(slots) /\ Len(slots) \in Nat
        BY SlotsAre DEF ConveyorInv, Typed
      <4>2. IsFiniteSet(DOMAIN slots)
        BY <4>1, FS_Interval
      <4> QED BY <4>2, FS_Subset
    <3> HIDE DEF later
    <3> QED BY <3>1, <3>2, <3>3, ThreeLater
  <2> QED BY <2>1, <2>2 DEF DataFits, Forgotten
<1> QED BY <1>1, <1>2, DataInvNext, ConveyorInvariant, PTL DEF Spec
=============================================================================
