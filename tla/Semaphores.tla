----------------------------- MODULE Semaphores -----------------------------
(***************************************************************************)
(* The semaphores of the slot machines (conveyor/smachine/smsync): a       *)
(* semaphore with an adjustable limit (semaphoreSync), its child           *)
(* semaphores (hierarchySync) and the queues between them                  *)
(* (dependencyQueueHead).  The virtual node builds its RunnerLimiter from  *)
(* them: one semaphore for all calls the node runs, and under it two       *)
(* children per object, for ordered and for unordered calls.               *)
(*                                                                         *)
(* A machine that acquires a child stands in exactly one queue:            *)
(*    child.awaiters  - the child has no room for it;                      *)
(*    awaiters        - the child has room, the parent has not;            *)
(*    active          - it has passed;                                     *)
(*    child.parked    - it gave its place at the parent back for a while   *)
(*                      (a partial release), it keeps the one in the child *)
(*                                                                         *)
(* One worker drives every slot machine of a conveyor (sworker has no      *)
(* detachment), so each operation below is one step; what the operations   *)
(* of two workers could do to each other is not modelled.                  *)
(***************************************************************************)
EXTENDS Integers, Sequences, FiniteSets

CONSTANTS
    Machines,          \* slots that acquire the semaphores
    Children,          \* child semaphores
    NoMachine,         \* no entry (the nil pointer of a queue)
    AllowsPriority,    \* QueueAllowsPriority of the semaphore
    PartialChildren,   \* children with AllowPartialRelease
    PrioritizePartial, \* PrioritizePartialAcquire of these children
    InitialLimit,      \* the limit of the semaphore when it is created
    Limits,            \* the values AdjustLimit gives the semaphore
    ChildLimits,       \* the values AdjustLimit gives a child, created with 0
    MaxParks,          \* bound: partial releases of a machine
    MaxPrioritized     \* bound: acquisitions with a priority, in all

ASSUME ConstantsAssumption ==
    /\ IsFiniteSet(Machines) /\ NoMachine \notin Machines
    /\ AllowsPriority \in BOOLEAN
    /\ PartialChildren \subseteq Children
    /\ PrioritizePartial \in BOOLEAN
    /\ InitialLimit \in Nat
    /\ Limits \subseteq Nat
    /\ ChildLimits \subseteq Nat
    /\ MaxParks \in Nat
    /\ MaxPrioritized \in Nat

VARIABLES
    sema,        \* the semaphore, its queues and its children
    stacker,     \* the child a holder was acquired through, Direct or None
    slotFlags,   \* the priority kept in the holder's entry
    parks,       \* partial releases of the machine so far
    prioritized, \* acquisitions with a priority so far
    lowered      \* history: whether some limit was ever lowered

vars == <<sema, stacker, slotFlags, parks, prioritized, lowered>>

None == "none"       \* the machine has no dependency
Direct == "direct"   \* the machine acquired the parent itself

ASSUME OwnersAssumption == None \notin Children /\ Direct \notin Children

Flags == {"plain", "boosted", "high"}

Queue == Seq(Machines)

ChildSema == [limit : Nat, atParent : Int, parked : Queue, awaiters : Queue]

Sema == [limit : Nat, active : Queue, awaiters : Queue,
         boostHead : Machines \cup {NoMachine}, child : [Children -> ChildSema]]

-----------------------------------------------------------------------------
(* Queues. *)

In(m, q) == \E i \in DOMAIN q : q[i] = m

IndexOf(m, q) == CHOOSE i \in DOMAIN q : q[i] = m

FirstN(q, n) == SubSeq(q, 1, n)

DropN(q, n) == SubSeq(q, n + 1, Len(q))

\* The first entry of a queue, NoMachine when it is empty.
FirstOf(q) == IF q = <<>> THEN NoMachine ELSE q[1]

\* How many entries are taken from the head of q when up to n may be.
Taken(n, q) == IF n <= 0 THEN 0 ELSE IF n <= Len(q) THEN n ELSE Len(q)

\* removeFromQueue, for a queue that keeps no boostHead.
Without(q, m) == FirstN(q, IndexOf(m, q) - 1) \o DropN(q, IndexOf(m, q))

InsertBefore(q, i, m) == FirstN(q, i - 1) \o <<m>> \o DropN(q, i - 1)

\* removeFromQueue on the waiters of the semaphore: the boost position moves
\* on to the next entry, whatever its priority.
RemoveAwaiter(s, m) ==
    LET i == IndexOf(m, s.awaiters)
    IN  [s EXCEPT !.awaiters = Without(@, m),
                  !.boostHead = IF @ = m THEN FirstOf(DropN(s.awaiters, i)) ELSE @]

\* _addSlot on the waiters of the semaphore: a high priority, or a partial
\* acquire that is prioritised, goes first; a boosted one before the boost
\* position; the others last, and the first of them is the boost position.
AddSlot(s, m, f, addFirst) ==
    CASE AllowsPriority /\ (f = "high" \/ addFirst) ->
             [s EXCEPT !.awaiters = <<m>> \o @]
      [] AllowsPriority /\ f = "boosted" /\ ~addFirst /\ s.boostHead # NoMachine ->
             [s EXCEPT !.awaiters = InsertBefore(@, IndexOf(s.boostHead, @), m)]
      [] OTHER ->
             [s EXCEPT !.awaiters = Append(@, m),
                       !.boostHead = IF AllowsPriority /\ f = "plain" /\ @ = NoMachine
                                     THEN m ELSE @]

-----------------------------------------------------------------------------
(* The controllers. *)

(* Seeded fault: the limit itself still passes. *)
CanPassThroughAtLimit(s) == Len(s.active) <= s.limit

CanPassThrough(s) == Len(s.active) < s.limit

ChildUse(s, c) == Len(s.child[c].parked) + s.child[c].atParent

ChildCanPassThrough(s, c) == ChildUse(s, c) < s.child[c].limit

\* moveToActive: up to n waiters of the semaphore pass, in their order.
MoveToActive(s, n) ==
    LET k == Taken(n, s.awaiters)
    IN  [s EXCEPT !.active = @ \o FirstN(s.awaiters, k),
                  !.awaiters = DropN(@, k),
                  !.boostHead = IF In(@, FirstN(s.awaiters, k))
                                THEN FirstOf(DropN(s.awaiters, k)) ELSE @]

(* Seeded fault: one place fewer than is free is handed on. *)
UpdateQueueOneLess(s) == MoveToActive(s, s.limit - Len(s.active) - 1)

UpdateQueue(s) == MoveToActive(s, s.limit - Len(s.active))

\* moveToInactive: up to n waiters of a child go to the end of the waiters of
\* the parent; none of them passes by that.
MoveToInactive(s, c, n) ==
    LET k == Taken(n, s.child[c].awaiters)
    IN  [s EXCEPT !.awaiters = @ \o FirstN(s.child[c].awaiters, k),
                  !.child[c].awaiters = DropN(@, k),
                  !.child[c].atParent = @ + k]

ChildUpdateQueue(s, c) == MoveToInactive(s, c, s.child[c].limit - ChildUse(s, c))

(* Seeded fault: the count is kept, only the queue is updated. *)
AfterReleaseKeepsCount(s, o) ==
    IF o \in Children THEN ChildUpdateQueue(s, o) ELSE s

(* Seeded fault: the place in the child is not handed on. *)
AfterReleaseNoUpdate(s, o) ==
    IF o \in Children THEN [s EXCEPT !.child[o].atParent = @ - 1] ELSE s

\* afterRelease: the holder left the active or the waiting queue of the parent.
AfterRelease(s, o) ==
    IF o \in Children
    THEN ChildUpdateQueue([s EXCEPT !.child[o].atParent = @ - 1], o)
    ELSE s

\* createDependency of the semaphore.  The active queue allows no priority.
CreateDependency(s, m, f) ==
    IF CanPassThrough(s)
    THEN [s EXCEPT !.active = Append(@, m)]
    ELSE AddSlot(s, m, f, FALSE)

KeptFlags(s, f) == IF CanPassThrough(s) \/ ~AllowsPriority THEN "plain" ELSE f

-----------------------------------------------------------------------------
(* The operations. *)

Init ==
    /\ sema = [limit |-> InitialLimit, active |-> <<>>, awaiters |-> <<>>,
               boostHead |-> NoMachine,
               child |-> [c \in Children |->
                            [limit |-> 0, atParent |-> 0,
                             parked |-> <<>>, awaiters |-> <<>>]]]
    /\ stacker = [m \in Machines |-> None]
    /\ slotFlags = [m \in Machines |-> "plain"]
    /\ parks = [m \in Machines |-> 0]
    /\ prioritized = 0
    /\ lowered = FALSE

WithinBounds(f) ==
    /\ f # "plain" => prioritized < MaxPrioritized
    /\ prioritized' = IF f = "plain" THEN prioritized ELSE prioritized + 1

\* Acquire of the semaphore itself (semaphoreSync.CreateDependency).
AcquireParent(m, f) ==
    /\ stacker[m] = None
    /\ WithinBounds(f)
    /\ sema' = CreateDependency(sema, m, f)
    /\ stacker' = [stacker EXCEPT ![m] = Direct]
    /\ slotFlags' = [slotFlags EXCEPT ![m] = KeptFlags(sema, f)]
    /\ UNCHANGED <<parks, lowered>>

\* Acquire of a child (hierarchySync.CreateDependency).
AcquireChild(m, c, f) ==
    /\ stacker[m] = None
    /\ WithinBounds(f)
    /\ IF ChildCanPassThrough(sema, c)
       THEN /\ sema' = [CreateDependency(sema, m, f) EXCEPT !.child[c].atParent = @ + 1]
            /\ slotFlags' = [slotFlags EXCEPT ![m] = KeptFlags(sema, f)]
       ELSE /\ sema' = [sema EXCEPT !.child[c].awaiters = Append(@, m)]
            /\ slotFlags' = [slotFlags EXCEPT ![m] = "plain"]
    /\ stacker' = [stacker EXCEPT ![m] = c]
    /\ UNCHANGED <<parks, lowered>>

Forget(m) ==
    /\ stacker' = [stacker EXCEPT ![m] = None]
    /\ slotFlags' = [slotFlags EXCEPT ![m] = "plain"]
    /\ UNCHANGED <<parks, prioritized, lowered>>

(* The machine releases its holder, or stops: ReleaseAll of the entry, which *)
(* is SafeRelease of the controller of the queue the entry stands in.        *)

ReleaseActive(m) ==
    /\ In(m, sema.active)
    /\ sema' = UpdateQueue(AfterRelease([sema EXCEPT !.active = Without(@, m)], stacker[m]))
    /\ Forget(m)

ReleaseAwaiter(m) ==
    /\ In(m, sema.awaiters)
    /\ sema' = AfterRelease(RemoveAwaiter(sema, m), stacker[m])
    /\ Forget(m)

ReleaseParked(m, c) ==
    /\ In(m, sema.child[c].parked)
    /\ sema' = ChildUpdateQueue([sema EXCEPT !.child[c].parked = Without(@, m)], c)
    /\ Forget(m)

(* Seeded fault: the child counts the holder as one that stood at the parent. *)
ReleaseChildAwaiterCounted(m, c) ==
    /\ In(m, sema.child[c].awaiters)
    /\ sema' = AfterRelease([sema EXCEPT !.child[c].awaiters = Without(@, m)], c)
    /\ Forget(m)

\* waitingQueueController: a waiter of a child holds no place to hand on.
ReleaseChildAwaiter(m, c) ==
    /\ In(m, sema.child[c].awaiters)
    /\ sema' = [sema EXCEPT !.child[c].awaiters = Without(@, m)]
    /\ Forget(m)

\* Release of the partial link: tryPartialRelease and the update that follows.
PartialRelease(m, c) ==
    /\ stacker[m] = c
    /\ c \in PartialChildren
    /\ parks[m] < MaxParks
    /\ \/ /\ In(m, sema.active)
          /\ sema' = UpdateQueue(
                       [sema EXCEPT !.active = Without(@, m),
                                    !.child[c].atParent = @ - 1,
                                    !.child[c].parked = Append(@, m)])
       \/ /\ In(m, sema.awaiters)
          /\ sema' = UpdateQueue(
                       [RemoveAwaiter(sema, m) EXCEPT
                                    !.child[c].atParent = @ - 1,
                                    !.child[c].parked = Append(@, m)])
    /\ parks' = [parks EXCEPT ![m] = @ + 1]
    /\ UNCHANGED <<stacker, slotFlags, prioritized, lowered>>

\* Acquire of the partial link by a parked machine: tryPartialAcquire.
PartialAcquire(m, c) ==
    /\ In(m, sema.child[c].parked)
    /\ LET s == [sema EXCEPT !.child[c].parked = Without(@, m),
                             !.child[c].atParent = @ + 1]
       IN  sema' = IF CanPassThrough(sema)
                   THEN [s EXCEPT !.active = Append(@, m)]
                   ELSE AddSlot(s, m, slotFlags[m], PrioritizePartial)
    /\ UNCHANGED <<stacker, slotFlags, parks, prioritized, lowered>>

\* AdjustLimit of the semaphore: raised by n it lets up to n waiters pass.
AdjustLimit(v) ==
    /\ v # sema.limit
    /\ LET s == [sema EXCEPT !.limit = v]
       IN  sema' = IF v < sema.limit THEN s ELSE MoveToActive(s, v - sema.limit)
    /\ lowered' = (lowered \/ v < sema.limit)
    /\ UNCHANGED <<stacker, slotFlags, parks, prioritized>>

\* AdjustLimit of a child: raised by n it moves up to n of its waiters to the
\* parent, and if there were any, the parent fills its free places.
AdjustChildLimit(c, v) ==
    /\ v # sema.child[c].limit
    /\ LET s == [sema EXCEPT !.child[c].limit = v]
           d == v - sema.child[c].limit
       IN  sema' = IF d < 0 \/ sema.child[c].awaiters = <<>> THEN s
                   ELSE UpdateQueue(MoveToInactive(s, c, d))
    /\ lowered' = (lowered \/ v < sema.child[c].limit)
    /\ UNCHANGED <<stacker, slotFlags, parks, prioritized>>

Next ==
    \/ \E m \in Machines :
          \/ \E f \in Flags : AcquireParent(m, f)
          \/ \E c \in Children, f \in Flags : AcquireChild(m, c, f)
          \/ ReleaseActive(m)
          \/ ReleaseAwaiter(m)
          \/ \E c \in Children :
                \/ ReleaseParked(m, c)
                \/ ReleaseChildAwaiter(m, c)
                \/ PartialRelease(m, c)
                \/ PartialAcquire(m, c)
    \/ \E v \in Limits : AdjustLimit(v)
    \/ \E c \in Children, v \in ChildLimits : AdjustChildLimit(c, v)

Spec == Init /\ [][Next]_vars

\* A machine that passed ends its work or parks, a parked one takes its place
\* back, and an object opens its semaphores once.
Fairness ==
    /\ \A m \in Machines :
          /\ WF_vars(ReleaseActive(m))
          /\ WF_vars(\E c \in Children : PartialAcquire(m, c))
    /\ \A c \in Children :
          WF_vars(sema.child[c].limit = 0 /\ \E v \in ChildLimits : AdjustChildLimit(c, v))

FairSpec == Spec /\ Fairness
-----------------------------------------------------------------------------
(* Properties. *)

\* Queues hold machines, limits are natural numbers and the count of a child's
\* holders at the parent, decremented at every release, never goes below zero.
TypeOK ==
    /\ sema \in Sema
    /\ \A c \in Children : sema.child[c].atParent \in Nat
    /\ stacker \in [Machines -> Children \cup {Direct, None}]
    /\ slotFlags \in [Machines -> Flags]
    /\ parks \in [Machines -> 0..MaxParks]
    /\ prioritized \in 0..MaxPrioritized
    /\ lowered \in BOOLEAN

\* "Semaphore allows Acquire() call to pass through for a number of workers
\* within the limit" (sync_semaphore.go:29): as long as limits only grow, never
\* more machines have passed than the limit, and never more hold a child,
\* parked ones included, than the limit of the child - so at most one ordered
\* call of an object is in work, also while it waits for its outgoing call.
WithinLimit ==
    ~lowered =>
      /\ Len(sema.active) <= sema.limit
      /\ \A c \in Children : ChildUse(sema, c) <= sema.child[c].limit

Times(m, q) == {i \in DOMAIN q : q[i] = m}

\* A machine with a holder stands once in one queue, of its own child or of
\* the parent, and the count each child keeps of its holders at the parent
\* (workerAtParentCount) is the number that stands there.
Accounting ==
    /\ \A m \in Machines :
          LET places == [at : {"active"}, i : Times(m, sema.active)]
                          \cup [at : {"awaiters"}, i : Times(m, sema.awaiters)]
                          \cup UNION {[at : {<<c, "parked">>}, i : Times(m, sema.child[c].parked)]
                                        \cup [at : {<<c, "awaiters">>}, i : Times(m, sema.child[c].awaiters)]
                                       : c \in Children \cap {stacker[m]}}
          IN  Cardinality(places) = IF stacker[m] = None THEN 0 ELSE 1
    /\ \A c \in Children :
          sema.child[c].atParent =
             Cardinality({m \in Machines : stacker[m] = c
                            /\ (In(m, sema.active) \/ In(m, sema.awaiters))})

\* No machine waits at a child that has a free place: whatever frees a place
\* of a child (a release from any of the queues, an adjustment) hands it on.
ChildNotIdle ==
    \A c \in Children :
       sema.child[c].awaiters # <<>> => ChildUse(sema, c) >= sema.child[c].limit

ParentNotIdle == sema.awaiters # <<>> => Len(sema.active) >= sema.limit

\* Every step that frees a place of the semaphore, at whatever level, hands it
\* on to a machine that waits there, and nobody is sent to wait at a semaphore
\* that has room.  The one exception is a machine that stops while it is
\* parked: the waiter of the child that takes its place is not let through.
PlacesHandedOn ==
    [][ParentNotIdle => ParentNotIdle' \/ \E m \in Machines, c \in Children : ReleaseParked(m, c)]_vars

Waits(m) ==
    \/ In(m, sema.awaiters)
    \/ \E c \in Children : In(m, sema.child[c].awaiters)

\* "NotPassed holder will at some moment be converted into Passed holder"
\* (api_sync.go:24): a machine that waits passes, or gives its holder up.
WaitersPass == \A m \in Machines : Waits(m) ~> ~Waits(m)

=============================================================================
