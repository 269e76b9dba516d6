------------------------------ MODULE Conveyor ------------------------------
(***************************************************************************)
(* The pulse conveyor (conveyor/) under the pulse manager and the          *)
(* dispatcher that drive it (instrumentation/insapp/pulse_manager.go,      *)
(* instrumentation/insconveyor/beat_dispatcher.go).                        *)
(*                                                                         *)
(* Input events come on other goroutines than the conveyor's worker.  A    *)
(* call of AddInput reads the present and the future pulse, then finds or  *)
(* publishes a pulse slot, and only then adds the event to the slot; the   *)
(* worker executes slots and events and changes the pulse, also in three   *)
(* steps.  The steps of calls and of the worker interleave, those of the   *)
(* worker do not interleave with each other.                               *)
(***************************************************************************)
EXTENDS Integers, Sequences, FiniteSets, FiniteSetsExt

CONSTANTS
    Events,            \* input events, one call of AddInput each
    Inputs,            \* the events with the pulse numbers each may carry
    Delta,             \* the distance of pulses: NextPulseDelta and PrevPulseDelta
    FirstPulse,        \* the first pulse the node sees
    LastPulse,         \* bound on the pulses
    MinCachePulseAge,  \* configuration of the pulse data cache
    MaxPastPulseAge,   \* how old a pulse an event may carry
    MaxRollbacks       \* bound on the cancelled pulse changes

ASSUME ConveyorAssumption ==
    /\ Delta \in Nat \ {0} /\ FirstPulse \in Nat /\ LastPulse \in Nat
    /\ Inputs \subseteq Events \X (0 .. LastPulse + 2 * Delta)
    /\ MinCachePulseAge \in Nat \ {0} /\ MaxPastPulseAge >= MinCachePulseAge
    /\ FirstPulse > Delta
    /\ MaxRollbacks \in Nat

Unknown == 0             \* also the key of the slot for antique events
LocalRelative == -1      \* uninitializedFuture: no pulse and no event yet
MinTimePulse == 1
NoSlot == 0

VARIABLES
    pulses,          \* presentAndFuturePulse
    slots,           \* the pulse slot machines, in the order of their creation
    published,       \* key -> slot, the registry of the outer slot machine
    unpublishPulse,  \* the alias to remove at the next pulse change
    presentMachine,
    cache,           \* the pulse data cache: numbers and touched numbers
    earliestBound,   \* earliestCacheBound
    preparing,       \* preparingPulseFlag
    acked,           \* ackFn of the pulse manager: a prepared pulse change
    commit,          \* a pulse change in progress
    ev,              \* the events
    rollbacks,       \* number of the cancelled pulse changes
    broken           \* a panic has left the conveyor half way

vars == <<pulses, slots, published, unpublishPulse, presentMachine, cache,
          earliestBound, preparing, acked, commit, ev, rollbacks, broken>>

Keys == {LocalRelative, Unknown} \cup (MinTimePulse .. LastPulse + 2 * Delta)

(***************************************************************************)
(* Pulse ranges: the bounds, and the numbers the range has data of.  A     *)
(* range with a gap on the left knows its right bound only.                *)
(***************************************************************************)
OnePulse(pn) == [left |-> pn, right |-> pn, known |-> {pn}]
NewSequenceRange(l, r) ==
    [left |-> l, right |-> r, known |-> {n \in l .. r : (r - n) % Delta = 0}]
NewLeftGapRange(l, r) == [left |-> l, right |-> r, known |-> {r}]

IsSingular(r) == r.left = r.right
IsArticulated(r) == r.left \notin r.known

\* The numbers are tried in ascending order; the first that decides is the one
\* that is not more than a pulse before pn.  It prohibits the numbers next to it.
Decides(n, pn) == pn < n + Delta
Prohibits(n, pn) == n # pn /\ n - Delta < pn

\* _isAcceptedPresent: the state to handle the number as, and whether it is accepted.
IsAcceptedPresent(s, presentPN, pn) ==
    LET hits == {n \in s.range.known : Decides(n, pn)} IN
    IF s.st # "Present" THEN [st |-> s.st, ok |-> FALSE]
    ELSE IF pn = presentPN THEN [st |-> "Present", ok |-> TRUE]
    ELSE IF pn < s.range.left THEN [st |-> "Past", ok |-> FALSE]
    ELSE [st |-> "Present",
          ok |-> /\ ~IsSingular(s.range)
                 /\ IF hits = {} THEN IsArticulated(s.range)
                                 ELSE ~Prohibits(Min(hits), pn)]

IsAcceptedFutureOrPresent(s, pn, now) ==
    LET a == IsAcceptedPresent(s, now.present, pn) IN
    [isFuture |-> a.st = "Future",
     ok |-> IF a.st = "Future" THEN pn >= now.future ELSE a.ok]

IsAllowedFutureSpan(now, pn) ==
    pn >= now.future /\ pn <= now.future + (now.future - now.present)
IsAllowedPastSpan(presentPN, pn) == pn < presentPN /\ pn + MaxPastPulseAge >= presentPN
IsRecentPastRange(pn) ==
    /\ pn < pulses.present /\ pn + MinCachePulseAge >= pulses.present
    /\ pn >= earliestBound

(***************************************************************************)
(* The cache of pulse data: entries of the last two rotations that were    *)
(* touched, and entries that are young enough, stay.                       *)
(***************************************************************************)
Touch(c, S) == [c EXCEPT !.cur = @ \cup S]
Put(c, r) == Touch([c EXCEPT !.data = @ \cup r.known], r.known)

\* Seeded fault: the numbers touched before the last rotation are forgotten.
EvictForgetsOld(c, pn) ==
    [c EXCEPT !.data = {n \in @ : n >= pn - MinCachePulseAge \/ n \in c.cur}]

Evict(c, pn) ==
    [c EXCEPT !.data = {n \in @ : \/ n >= pn - MinCachePulseAge
                                  \/ n \in c.cur \cup c.old
                                  \/ MinTimePulse + MinCachePulseAge >= pn}]

EvictAndRotate(c, pn) ==
    LET e == Evict(c, pn) IN Touch([e EXCEPT !.old = e.cur, !.cur = {}], {pn})

(***************************************************************************)
(* Pulse slots.  life: "new" published, not started; "added" started, its  *)
(* first step not made; "live"; "dead" stopped, its termination handler    *)
(* not run yet; "gone".  mig is the migration handler that is set, unpub   *)
(* the key its termination handler removes.                                *)
(***************************************************************************)
NewSlot(st, r) ==
    [st |-> st, range |-> r, life |-> "new", mig |-> "None", unpub |-> LocalRelative]

IsActive(s) == s.life \in {"new", "added", "live"}
Inside == {"queued", "waiting", "woken", "loading", "created"}
Content(i) == {e \in Events : ev[e].slot = i /\ ev[e].pc \in Inside}

InCall(e) == ev[e].pc \in {"mapped", "activate", "add"}

\* A call of AddInput is far shorter than a pulse: a call that has overlapped a
\* pulse change ends before the next change is prepared or committed.
CallsAreShort == \A e \in Events : InCall(e) => ~ev[e].late

Idle == [phase |-> "idle", range |-> OnePulse(FirstPulse), future |-> LocalRelative]
NoEvent == [pc |-> "none", pn |-> Unknown, as |-> "None", now |-> [present |-> Unknown,
            future |-> LocalRelative], slot |-> NoSlot, wrap |-> "None",
            early |-> FALSE, late |-> FALSE]

Init ==
    /\ pulses = [present |-> Unknown, future |-> LocalRelative]
    /\ slots = <<>>
    /\ published = [k \in Keys |-> NoSlot]
    /\ unpublishPulse = Unknown /\ presentMachine = NoSlot
    /\ cache = [data |-> {}, cur |-> {}, old |-> {}]
    /\ earliestBound = Unknown
    /\ preparing = FALSE /\ acked = FALSE
    /\ commit = Idle
    /\ ev = [e \in Events |-> NoEvent]
    /\ rollbacks = 0 /\ broken = FALSE

-----------------------------------------------------------------------------
(***************************************************************************)
(* AddInput.                                                               *)
(***************************************************************************)
WorkerState == <<unpublishPulse, presentMachine, earliestBound, preparing, acked,
                 commit, rollbacks>>

Refuse(e) == ev' = [ev EXCEPT ![e].pc = "refused"]

\* What mapToPulseSlotMachine makes of a number: the first pulse number that comes
\* while there is none becomes the future, and all events go to the future slot.
MapAs(now, pn) ==
    IF now.present = Unknown
    THEN IF pn = Unknown /\ now.future = LocalRelative THEN "Invalid" ELSE "Future"
    ELSE CASE pn \in {Unknown, now.present} -> "Present"
           [] pn # Unknown /\ pn < now.present -> "Past"
           [] IsAllowedFutureSpan(now, pn) -> "Future"
           [] OTHER -> "Invalid"

MapToPulse(e, pn) ==
    LET as == MapAs(pulses, pn)
        now == [pulses EXCEPT !.future = IF @ = LocalRelative THEN pn ELSE @]
        target == IF pn # Unknown THEN pn
                  ELSE IF as = "Present" THEN now.present ELSE now.future
    IN
    /\ ev[e].pc = "none" /\ ~broken
    /\ IF as = "Invalid" THEN Refuse(e) /\ UNCHANGED pulses
       ELSE /\ pulses' = now
            /\ ev' = [ev EXCEPT ![e] = [@ EXCEPT !.pc = "mapped", !.pn = target, !.as = as,
                                        !.now = now, !.early = now.present = Unknown]]
    /\ UNCHANGED <<slots, published, cache, broken, WorkerState>>

\* Publishes a new slot; the caller starts it afterwards.
PublishNew(e, key, as, slot) ==
    /\ slots' = Append(slots, slot)
    /\ published' = [published EXCEPT ![key] = Len(slots) + 1]
    /\ ev' = [ev EXCEPT ![e].pc = "activate", ![e].slot = Len(slots) + 1, ![e].as = as]

UsePublished(e, key, as) ==
    /\ ev' = [ev EXCEPT ![e].pc = "add", ![e].slot = published[key], ![e].as = as]
    /\ UNCHANGED <<slots, published>>

GetOrPublish(e, key, as, slot) ==
    IF published[key] # NoSlot THEN UsePublished(e, key, as) ELSE PublishNew(e, key, as, slot)

GetAntiquePulseSlotMachine(e) ==
    GetOrPublish(e, Unknown, "Antique", NewSlot("Antique", OnePulse(Unknown)))
GetFuturePulseSlotMachine(e) ==
    GetOrPublish(e, ev[e].now.future, "Future", NewSlot("Future", OnePulse(ev[e].now.future)))

\* The present slot must be published: the code panics where it is not.
FindPast(e) ==
    LET pn == ev[e].pn
        presentPN == ev[e].now.present
        a == IsAcceptedPresent(slots[published[presentPN]], presentPN, pn)
    IN
    IF published[pn] # NoSlot THEN UsePublished(e, pn, "Past") /\ UNCHANGED broken
    ELSE IF published[presentPN] = NoSlot
    THEN broken' = TRUE /\ UNCHANGED <<ev, slots, published>>
    ELSE /\ IF (a.st = "Past" \/ a.ok) /\ IsAllowedPastSpan(presentPN, pn)
            THEN GetAntiquePulseSlotMachine(e)
            ELSE Refuse(e) /\ UNCHANGED <<slots, published>>
         /\ UNCHANGED broken

FindSlot(e) ==
    /\ ev[e].pc = "mapped" /\ ~broken
    /\ CASE ev[e].as = "Present" ->
              IF published[ev[e].pn] = NoSlot
              THEN broken' = TRUE /\ UNCHANGED <<ev, slots, published>>
              ELSE UsePublished(e, ev[e].pn, "Present") /\ UNCHANGED broken
         [] ev[e].as = "Past" -> FindPast(e)
         [] ev[e].as = "Antique" -> GetAntiquePulseSlotMachine(e) /\ UNCHANGED broken
         [] ev[e].as = "Future" -> GetFuturePulseSlotMachine(e) /\ UNCHANGED broken
    /\ UNCHANGED <<pulses, cache, WorkerState>>

\* The call that has published a slot starts it and sets what it will unpublish.
ActivateSlot(e) ==
    LET key == IF ev[e].as = "Antique" THEN Unknown ELSE ev[e].now.future IN
    /\ ev[e].pc = "activate" /\ ~broken
    /\ slots' = [slots EXCEPT ![ev[e].slot].life = "added", ![ev[e].slot].unpub = key]
    /\ ev' = [ev EXCEPT ![e].pc = "add"]
    /\ UNCHANGED <<pulses, published, cache, broken, WorkerState>>

\* AddNew, AddNewByFunc: refused by a machine that has stopped.
AddTo(e, wrap) ==
    ev' = IF IsActive(slots[ev[e].slot])
          THEN [ev EXCEPT ![e].pc = "queued", ![e].wrap = wrap]
          ELSE [ev EXCEPT ![e].pc = "refused"]

\* A past slot that dies is replaced by the antique slot; the factory has been called.
RedirectToAntique(e) ==
    ev' = [ev EXCEPT ![e].pc = "mapped", ![e].as = "Antique", ![e].wrap = "redirected"]

AddEvent(e) ==
    LET pn == ev[e].pn
        has == pn \in cache.data
    IN
    /\ ev[e].pc = "add" /\ ~broken
    /\ CASE ev[e].as = "Future" -> AddTo(e, "future")
         [] ev[e].as = "Antique" /\ ~has /\ ~IsRecentPastRange(pn) -> AddTo(e, "antique")
         [] ev[e].as # "Future" /\ ~has
              /\ (ev[e].as = "Antique" => IsRecentPastRange(pn)) -> Refuse(e)
         [] ev[e].as = "Past" /\ has /\ ~IsActive(slots[ev[e].slot]) -> RedirectToAntique(e)
         [] OTHER -> AddTo(e, "None")
    /\ cache' = IF ev[e].as # "Future" /\ has THEN Touch(cache, {pn}) ELSE cache
    /\ UNCHANGED <<pulses, slots, published, broken, WorkerState>>

\* The factory of event handlers may refuse the event; the pulse data of an antique
\* event has been looked up for it.
FactoryRefuses(e) ==
    /\ ev[e].pc = "add" /\ ev[e].wrap # "redirected" /\ ~broken
    /\ Refuse(e)
    /\ cache' = IF ev[e].as = "Antique" THEN Touch(cache, cache.data \cap {ev[e].pn}) ELSE cache
    /\ UNCHANGED <<pulses, slots, published, broken, WorkerState>>

-----------------------------------------------------------------------------
(***************************************************************************)
(* The worker.  It executes slots and events between pulse changes, and    *)
(* only priority work while a pulse change is prepared.                    *)
(***************************************************************************)
Working == commit.phase = "idle" /\ ~broken
PulseState == <<pulses, published, unpublishPulse, presentMachine, earliestBound,
                preparing, acked, commit, rollbacks, broken>>

\* Seeded fault: the first step of a pulse slot sets no migration handler.
InitSlotNoMigration(i) ==
    /\ Working /\ ~preparing
    /\ slots[i].life = "added"
    /\ slots' = [slots EXCEPT ![i].life = "live"]
    /\ UNCHANGED <<ev, cache, PulseState>>

\* stepInit of a pulse slot chooses its migration by the state the slot is in by now.
InitSlot(i) ==
    /\ Working /\ ~preparing
    /\ slots[i].life = "added"
    /\ slots' = [slots EXCEPT ![i].life = "live", ![i].mig = slots[i].st]
    /\ UNCHANGED <<ev, cache, PulseState>>

\* Seeded fault: an early event is let in whatever the pulse of its slot.
StepWaitMigrationAnyPulse(e) ==
    LET a == IsAcceptedFutureOrPresent(slots[ev[e].slot], ev[e].pn, pulses) IN
    CASE ~a.isFuture -> "created"
      [] a.isFuture /\ a.ok -> "waiting"
      [] OTHER -> "failed"

\* stepWaitMigration of an event that came early.
StepWaitMigration(e) ==
    LET a == IsAcceptedFutureOrPresent(slots[ev[e].slot], ev[e].pn, pulses) IN
    CASE ~a.ok -> "failed"
      [] a.ok /\ a.isFuture -> "waiting"
      [] OTHER -> "created"

ExecuteEvent(e) ==
    /\ Working /\ ~preparing
    /\ ev[e].pc \in {"queued", "woken"} /\ slots[ev[e].slot].life = "live"
    /\ ev' = [ev EXCEPT ![e].pc = CASE ev[e].wrap = "future" -> StepWaitMigration(e)
                                    [] ev[e].wrap = "antique" -> "loading"
                                    [] OTHER -> "created"]
    /\ UNCHANGED <<slots, cache, PulseState>>

\* The answer of the pulse data service.  The adapter drops the function that
\* would put the data into the cache.
StepGotAnswer(e) ==
    /\ Working /\ ~preparing
    /\ ev[e].pc = "loading"
    /\ ev' = [ev EXCEPT ![e].pc = IF ev[e].pn \in cache.data THEN "created" ELSE "failed"]
    /\ cache' = IF ev[e].pn \in cache.data THEN Touch(cache, {ev[e].pn}) ELSE cache
    /\ UNCHANGED <<slots, PulseState>>

\* The handler of the event ends.  Priority steps of the present slot go on while
\* a pulse change is prepared.
HandlerEnds(e) ==
    /\ Working /\ ev[e].pc = "created"
    /\ preparing => slots[ev[e].slot].st = "Present"
    /\ ev' = [ev EXCEPT ![e].pc = "done"]
    /\ UNCHANGED <<slots, cache, PulseState>>

\* onTerminate, run as a callback after the slot has stopped.
OnTerminate(i) ==
    /\ Working /\ slots[i].life = "dead"
    /\ slots' = [slots EXCEPT ![i].life = "gone"]
    /\ published' = IF slots[i].unpub = LocalRelative THEN published
                    ELSE [published EXCEPT ![slots[i].unpub] = NoSlot]
    /\ UNCHANGED <<pulses, unpublishPulse, presentMachine, earliestBound, preparing, acked,
                   commit, rollbacks, broken, ev, cache>>

-----------------------------------------------------------------------------
(***************************************************************************)
(* The change of a pulse.                                                  *)
(***************************************************************************)
\* RequestNodeState: PrepareBeat, PreparePulseChange.
RequestNodeState ==
    /\ Working /\ CallsAreShort
    /\ presentMachine # NoSlot /\ ~acked /\ pulses.future <= LastPulse
    /\ preparing' = TRUE /\ acked' = TRUE
    /\ broken' = (slots[presentMachine].life = "new")
    /\ UNCHANGED <<pulses, slots, published, unpublishPulse, presentMachine, earliestBound,
                   commit, rollbacks, ev, cache>>

\* CancelNodeState of the pulse manager: no dispatcher is told.
CancelNodeState ==
    /\ Working /\ acked /\ rollbacks < MaxRollbacks
    /\ acked' = FALSE /\ rollbacks' = rollbacks + 1
    /\ UNCHANGED <<pulses, slots, published, unpublishPulse, presentMachine, earliestBound,
                   preparing, commit, broken, ev, cache>>

\* Seeded fault: the range of a beat starts at the last pulse, not at the expected one.
CommitBeatRangeFromPresent(right, hasRange) ==
    IF pulses.present = Unknown THEN NewLeftGapRange(MinTimePulse, right)
    ELSE NewSequenceRange(pulses.present, right)

\* The range the dispatcher passes on for a beat with or without a range.
CommitBeatRange(right, hasRange) ==
    IF hasRange THEN NewSequenceRange(pulses.future, right)
    ELSE IF pulses.present = Unknown THEN NewLeftGapRange(MinTimePulse, right)
    ELSE IF right - Delta = pulses.present THEN OnePulse(right)
    ELSE NewLeftGapRange(pulses.present, right)

\* The checks of CommitPulseChange that panic.
CommitChecks(r) ==
    IF presentMachine = NoSlot
    THEN /\ published[pulses.present] = NoSlot
         /\ pulses.future = LocalRelative \/ published[pulses.future] # NoSlot
    ELSE /\ published[pulses.present] = presentMachine
         /\ r.left = pulses.future
         /\ slots[presentMachine].st = "Present"

Beats == IF pulses.present = Unknown THEN {<<FirstPulse, FALSE>>}
         ELSE {<<pulses.future, FALSE>>} \cup ({pulses.future + Delta} \X BOOLEAN)

\* Seeded fault: the previous present slot stays present.
SetPastMissing(i) == slots

SetPast(i) == IF i = NoSlot THEN slots ELSE [slots EXCEPT ![i].st = "Past"]

CommitPulseChange(right, hasRange) ==
    LET r == CommitBeatRange(right, hasRange) IN
    /\ Working /\ CallsAreShort
    /\ acked' = FALSE
    /\ IF ~CommitChecks(r)
       THEN /\ broken' = TRUE
            /\ commit' = [commit EXCEPT !.range = r]
            /\ UNCHANGED <<slots, cache, preparing>>
       ELSE /\ cache' = Put(cache, r)
            /\ slots' = SetPast(presentMachine)
            /\ preparing' = FALSE
            /\ commit' = [phase |-> "publish", range |-> r, future |-> pulses.future]
            /\ UNCHANGED broken
    /\ UNCHANGED <<pulses, published, unpublishPulse, presentMachine, earliestBound, rollbacks,
                   ev>>

\* _migratePulseSlots up to the rerouting of events: the slot that was published
\* for the expected pulse becomes the present one, with an alias when the pulse is
\* not the expected one.
PublishPresent ==
    LET r == commit.range
        key == commit.future
        base == IF unpublishPulse >= MinTimePulse
                THEN [published EXCEPT ![unpublishPulse] = NoSlot] ELSE published
        i == IF base[key] = NoSlot THEN Len(slots) + 1 ELSE base[key]
        alias == key # r.right
        made == IF base[key] = NoSlot
                THEN Append(slots, [NewSlot("Present", r) EXCEPT !.life = "added"])
                ELSE [slots EXCEPT ![i].st = "Present", ![i].range = r]
        pub == [base EXCEPT ![key] = i]
    IN
    /\ commit.phase = "publish" /\ ~broken
    /\ IF \/ i <= Len(slots) /\ slots[i].st # "Future"
          \/ alias /\ pub[r.right] # NoSlot
       THEN broken' = TRUE /\ UNCHANGED <<slots, published, presentMachine>>
       ELSE /\ slots' = IF alias THEN [made EXCEPT ![i].unpub = r.right] ELSE made
            /\ published' = IF alias THEN [pub EXCEPT ![r.right] = i] ELSE pub
            /\ presentMachine' = i
            /\ UNCHANGED broken
    /\ unpublishPulse' = IF alias THEN key ELSE Unknown
    /\ commit' = [commit EXCEPT !.phase = "route"]
    /\ UNCHANGED <<pulses, cache, earliestBound, preparing, acked, rollbacks, ev>>

\* Seeded fault: events that came early are not woken by the migration.
InnerMigrateNoWake(e, now) == ev[e].pc

\* stepMigration of the events that wait in a migrating slot.
InnerMigrate(e, now) ==
    LET a == IsAcceptedFutureOrPresent(slots[ev[e].slot], ev[e].pn, now) IN
    IF ev[e].pc \notin {"waiting", "woken"} \/ slots[ev[e].slot].life # "live" THEN ev[e].pc
    ELSE IF a.ok /\ a.isFuture THEN "failed" ELSE "woken"

\* Seeded fault: a slot whose events have not made a step yet counts as empty.
StopIfEmptyNotStarted(i) == \A e \in Content(i) : ev[e].pc = "queued"

StopIfEmpty(i) == Content(i) = {}

\* The migration handler of a pulse slot.
MigrateSlot(i, s) ==
    IF s.life # "live" THEN s
    ELSE CASE s.mig = "Future" -> [s EXCEPT !.mig = "Present"]
           [] s.mig = "Present" -> [s EXCEPT !.mig = "Past"]
           [] s.mig = "Past" -> IF StopIfEmpty(i) THEN [s EXCEPT !.life = "dead"] ELSE s
           [] OTHER -> s

\* setPresentPulse, then the migration of all slots.
RouteAndMigrate ==
    LET right == commit.range.right
        now == [present |-> right, future |-> right + Delta]
        wasEmpty == pulses = [present |-> Unknown, future |-> LocalRelative]
    IN
    /\ commit.phase = "route" /\ ~broken
    /\ IF right < pulses.future
       THEN broken' = TRUE /\ UNCHANGED <<pulses, cache, earliestBound, ev, slots>>
       ELSE /\ pulses' = now
            /\ earliestBound' = IF wasEmpty THEN right ELSE earliestBound
            /\ cache' = EvictAndRotate(cache, right)
            /\ ev' = [e \in Events |-> [ev[e] EXCEPT !.pc = InnerMigrate(e, now),
                                                    !.late = InCall(e)]]
            /\ slots' = [i \in DOMAIN slots |-> MigrateSlot(i, slots[i])]
            /\ UNCHANGED broken
    /\ commit' = Idle
    /\ UNCHANGED <<published, unpublishPulse, presentMachine, preparing, acked, rollbacks>>

-----------------------------------------------------------------------------
CallStep(e) == FindSlot(e) \/ ActivateSlot(e) \/ AddEvent(e)
WorkerStep ==
    \/ \E i \in DOMAIN slots : InitSlot(i) \/ OnTerminate(i)
    \/ \E e \in Events : ExecuteEvent(e) \/ StepGotAnswer(e)
    \/ PublishPresent \/ RouteAndMigrate

PulseStep == \E b \in Beats : b[1] <= LastPulse /\ CommitPulseChange(b[1], b[2])

Next ==
    \/ \E in \in Inputs : MapToPulse(in[1], in[2])
    \/ \E e \in Events : CallStep(e) \/ FactoryRefuses(e) \/ HandlerEnds(e)
    \/ WorkerStep
    \/ RequestNodeState \/ CancelNodeState \/ PulseStep

Spec == Init /\ [][Next]_vars

\* The worker scans again while there is something to execute, calls of AddInput
\* run to their end, and a prepared pulse change is committed sooner or later: the
\* next pulse comes.
Fairness ==
    /\ WF_vars(\E e \in Events : CallStep(e))
    /\ WF_vars(WorkerStep)
    /\ WF_vars(preparing /\ PulseStep)

FairSpec == Spec /\ Fairness

-----------------------------------------------------------------------------
States == {"Future", "Present", "Past", "Antique"}
Pulses == MinTimePulse .. LastPulse + 2 * Delta

\* The type invariant.
TypeOK ==
    /\ pulses \in [present : Pulses \cup {Unknown}, future : Pulses \cup {LocalRelative}]
    /\ \A i \in DOMAIN slots :
          /\ slots[i].st \in States /\ slots[i].mig \in States \cup {"None"}
          /\ slots[i].life \in {"new", "added", "live", "dead", "gone"}
          /\ slots[i].unpub \in Keys
          /\ slots[i].life \in {"live", "dead"} => slots[i].mig # "None"
    /\ published \in [Keys -> 0 .. Len(slots)]
    /\ unpublishPulse \in Keys /\ presentMachine \in 0 .. Len(slots)
    /\ cache.cur \subseteq Pulses /\ cache.old \subseteq Pulses /\ cache.data \subseteq Pulses
    /\ earliestBound \in Pulses \cup {Unknown}
    /\ preparing \in BOOLEAN /\ acked \in BOOLEAN /\ broken \in BOOLEAN
    /\ commit.phase \in {"idle", "publish", "route"} /\ rollbacks \in 0 .. MaxRollbacks
    /\ \A e \in Events :
          /\ ev[e].pc \in Inside \cup {"none", "mapped", "activate", "add", "done", "failed",
                                       "refused"}
          /\ ev[e].pc \in Inside => ev[e].slot \in DOMAIN slots

\* The beat came after skipped pulses and without its range: the dispatcher then
\* gives a range that starts at the last pulse and not at the expected one.
SkipWithoutRange ==
    /\ commit.phase = "idle"
    /\ commit.range = NewLeftGapRange(pulses.present, pulses.future + Delta)

\* Once a pulse has been committed without an event before it, no pulse change and
\* no event makes the conveyor panic, however calls and the change interleave - but
\* for a beat that skips pulses and has no range.
\* (mapToPulseSlotMachine, CommitPulseChange, _migratePulseSlots, setPresentPulse)
NoPanic == broken => SkipWithoutRange \/ \E e \in Events : ev[e].early

\* An event that came after the first pulse is handled in a slot whose range covers
\* the pulse of the event and that is not of the future any more, or in the slot for
\* antique events.  An event before the first pulse is set aside (ev[e].early): its
\* number becomes the expected one, and the first pulse may differ.
HandledInItsPulse ==
    \A e \in Events : ev[e].pc = "created" /\ ~ev[e].early =>
        LET s == slots[ev[e].slot] IN
        \/ s.st = "Antique"
        \/ s.st \in {"Present", "Past"} /\ ev[e].pn \in s.range.left .. s.range.right

\* Between pulse changes exactly one slot is present: the one the conveyor works
\* with, published under the number that routes the events.
OnePresent ==
    commit.phase = "idle" /\ presentMachine # NoSlot /\ ~broken =>
        /\ {i \in DOMAIN slots : slots[i].st = "Present"} = {presentMachine}
        /\ published[pulses.present] = presentMachine
        /\ slots[presentMachine].range.right = pulses.present

\* An event that AddInput has accepted is never in a slot that has stopped: the
\* check for an empty machine and the addition of an event exclude each other.
AcceptedNotLost ==
    \A e \in Events : ev[e].pc \in Inside => IsActive(slots[ev[e].slot])

\* Pulse data stays in the cache while it is young, and for two pulse cycles.
PulseDataKept ==
    \A i \in DOMAIN slots : slots[i].st \in {"Present", "Past"} /\ commit.phase = "idle" =>
        LET pn == slots[i].range.right
            later == {j \in DOMAIN slots : /\ slots[j].st \in {"Present", "Past"}
                                           /\ slots[j].range.right > pn}
        IN  \/ broken \/ pn \in cache.data
            \/ Cardinality(later) > 2 /\ pn + MinCachePulseAge < pulses.present

\* An early event is let go once its pulse has come: its handler is created, or it
\* ends with an error (futureEventSM).
EarlyEventsEnd ==
    \A e \in Events :
        (ev[e].pc \in {"queued", "waiting", "woken"} /\ ev[e].pn <= pulses.present /\ ~broken)
            ~> (ev[e].pc \notin {"queued", "waiting", "woken"} \/ broken)
=============================================================================
